--------------------------- MODULE MCOutboundChat ---------------------------
(* Instances of ProtocolOutbound and of ChatThread for one run of TLC.  They *)
(* are two views of sending: the engine that finds the devices, and the chat *)
(* that shows the message.  They share no state here; a behaviour is one of  *)
(* either, and the other part stays as it was at the start.                  *)
EXTENDS MCProtocolOutbound, ChatThread, TLC

CONSTANTS hello, question, \* of the peer
          answer,          \* of the user
          note             \* of the user, from another device

\* The hello expires; the user answers it, the peer asks, and the user notes
\* something on another device.
MCWritten == (hello :> 1) @@ (answer :> 2) @@ (question :> 3) @@ (note :> 4)
MCExpiry == (hello :> 1) @@ (answer :> 0) @@ (question :> 0) @@ (note :> 0)

VARIABLE part

PartInit ==
    /\ Init /\ ChatInit
    /\ part \in {"engine", "chat"}
    /\ part = "engine" => ~chat.accepted

In(p) == part = p /\ UNCHANGED part

EngineMoves == In("engine") /\ Next /\ UNCHANGED chatVars
ChatMoves == In("chat") /\ ChatNext /\ UNCHANGED vars

\* A chat with nothing more to come rests; an engine never has to.
ChatRests == In("chat") /\ UNCHANGED <<vars, chatVars>>

\* Fairness of ProtocolOutbound where the engine moves and of ChatThread where the
\* chat does: of two actions joined here only one can ever be enabled.
Either(EngineAction, ChatAction) ==
    \/ In("engine") /\ EngineAction /\ UNCHANGED chatVars
    \/ In("chat") /\ ChatAction /\ UNCHANGED vars

PartFairness ==
    /\ WF_<<vars, chatVars>>(Either(EndOfBatch, EndBatch \/ ReceiptsLeave \/ StartProcess))
    /\ WF_<<vars, chatVars>>(Either(Restart, FALSE))
    /\ \A m \in Messages : SF_<<vars, chatVars>>(Either(RetryOf(m), FlushFires /\ pending' = {}))
    /\ SF_<<vars, chatVars>>(Either(FALSE, AlarmRings))

PartSpec ==
    /\ PartInit
    /\ [][EngineMoves \/ ChatMoves \/ ChatRests]_<<part, vars, chatVars>>
    /\ PartFairness
=============================================================================
