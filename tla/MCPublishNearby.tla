--------------------------- MODULE MCPublishNearby ---------------------------
(* The two ways in which events leave the device, in one run of TLC: the     *)
(* publish queue for the servers and the service for the computers nearby.   *)
(* They share no state; a behaviour is one of either, and the other stays as *)
(* at the start.  The services are three in a line, whose last one publishes,*)
(* or two that dial each other.                                              *)
EXTENDS MCRelayPublish, NearbyMailbag

CONSTANTS home, middle, far, \* services
          ev1, ev2           \* events of the second and of the last

MCDials == {<<home, middle>>, <<middle, far>>, <<far, middle>>}
MCAtStart == {<<middle, far>>}
MCAuthorOf == (ev1 :> middle) @@ (ev2 :> far)
MCStampOf == (ev1 :> 1) @@ (ev2 :> 2)

VARIABLE part

PartInit == Init /\ MailbagInit /\ part \in {"queue", "line", "pair"}

In(x) == part = x /\ UNCHANGED part

\* Bounds: x does not find y; x publishes nothing.
Apart(x, y) == \A f \in found : f[1] # x \/ f[2] # y
Silent(x) == own[x] = {}

\* A bound: a peer is forgotten when no connection with its name is left.
ForgetsTheSilent ==
    \A p \in Pairs : greeted[p] # 0 /\ greeted'[p] = 0 /\ visible'[p[1]]
                    => Live(p[1], p[2]) \cap named = {}

QueueMoves == In("queue") /\ Next /\ UNCHANGED bagVars
NearbyMoves ==
    /\ In("line") \/ In("pair")
    /\ MailbagNext /\ ForgetsTheSilent /\ UNCHANGED vars
    /\ part = "line" => (Apart(far, middle) /\ Silent(middle))'
    /\ part = "pair" => Apart(home, middle)'

PartSpec == PartInit /\ [][QueueMoves \/ NearbyMoves]_<<part, vars, bagVars>>
=============================================================================
