-------------------------- MODULE MCPublishStore --------------------------
(* Instances of RelayPublish, of AppStore and of EngineHosts for one run of  *)
(* TLC: the ways state gets into SQLite, and the engine's other hosts.  They *)
(* share no state; a behaviour is one of them, and the other parts stay as   *)
(* they were at the start.                                                   *)
EXTENDS MCRelayPublish, AppStore, EngineHosts

CONSTANTS a1, a2, b1, alice, bob,
          dev1, dev2,       \* two other devices
          msg1, msg2, out1  \* a message of each, a text to the first

\* In one chat a message that expires and one the user wrote; a message of another chat.
MCChatOf == (a1 :> alice) @@ (a2 :> alice) @@ (b1 :> bob)

MCPeerOf == (msg1 :> dev1) @@ (msg2 :> dev2) @@ (out1 :> dev1)

VARIABLE part

\* One start of each suffices for the behaviours of the others.
PartInit ==
    /\ Init /\ StoreInit /\ HostInit
    /\ part \in {"queue", "store", "hosts"}
    /\ part # "hosts" => host = "service"

In(x) == part = x /\ UNCHANGED part

QueueMoves == In("queue") /\ Next /\ UNCHANGED <<storeVars, hostVars>>
StoreMoves == In("store") /\ StoreNext /\ UNCHANGED <<vars, hostVars>>
HostMoves == In("hosts") /\ HostNext /\ UNCHANGED <<vars, storeVars>>

\* A host with nothing more to come rests.
HostRests == In("hosts") /\ UNCHANGED <<vars, storeVars, hostVars>>

\* In a queue that stays as it was at the start nothing Fairness asks for is enabled.
PartSpec ==
    /\ PartInit
    /\ [][QueueMoves \/ StoreMoves \/ HostMoves \/ HostRests]_<<part, vars, storeVars, hostVars>>
    /\ Fairness
=============================================================================
