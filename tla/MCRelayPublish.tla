--------------------------- MODULE MCRelayPublish ---------------------------
(* Instances of RelayPublish for TLC.                                      *)
EXTENDS RelayPublish, TLC

CONSTANTS invite1, invite2, text  \* two invites of this device, a message

\* The second invite is newer; the message is the newest but drained first.
MCClass == (text :> NoClass) @@ (invite1 :> "invite") @@ (invite2 :> "invite")
MCStamp == (invite1 :> 1) @@ (invite2 :> 2) @@ (text :> 3)
=============================================================================
