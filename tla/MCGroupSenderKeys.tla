------------------------- MODULE MCGroupSenderKeys -------------------------
(* An instance of GroupSenderKeys for TLC.                                 *)
EXTENDS GroupSenderKeys, TLC

CONSTANTS k1, k2, early, plain, hidden, alice

\* The sender has handed out k1 and later, after somebody has left, k2.
MCOwner == (k1 :> alice) @@ (k2 :> alice)
MCKeyOf == (early :> k1) @@ (plain :> k2) @@ (hidden :> k2)
MCTime == (k1 :> 1) @@ (early :> 1) @@ (k2 :> 2) @@ (plain :> 3) @@ (hidden :> 3)
MCContent == (early :> "broken") @@ (plain :> "text") @@ (hidden :> "text")
=============================================================================
