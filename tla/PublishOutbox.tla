---------------------------- MODULE PublishOutbox ----------------------------
(***************************************************************************)
(* What the durable relay publish queue promises, without the drains,      *)
(* tokens, workers and retries that keep the promise.                      *)
(*                                                                         *)
(* owed is the obligation the application has written down: the events it  *)
(* must still get onto some message server.  An obligation is discharged   *)
(* when a server has accepted the event, when a newer event of the same    *)
(* replaceable class takes its place, or when the user logs out.           *)
(***************************************************************************)
CONSTANTS
    Events,     \* identifiers of the signed events
    Replaces(_, _),  \* Replaces(e, f): e is the newer event of f's replaceable class
    Failures,   \* the storage operations that may fail
    Disruptions \* what may happen to the session

VARIABLES
    owed,       \* events written down and not yet discharged
    accepted,   \* events some message server holds
    offered     \* events ever handed to the queue

outboxVars == <<owed, accepted, offered>>

Init == owed = {} /\ accepted = {} /\ offered = {}

\* A new event is written down; it may displace the older events of its class.
Owe(e) ==
    /\ e \notin offered
    /\ offered' = offered \cup {e}
    /\ \E gone \in SUBSET {f \in owed : Replaces(e, f)} :
           owed' = (owed \ gone) \cup {e}
    /\ UNCHANGED accepted

\* The queue declines an event that an already owed event replaces.  The older
\* events of the class go all the same: the newer one stays owed.
Decline(e) ==
    /\ e \notin offered
    /\ offered' = offered \cup {e}
    /\ \E newer \in owed : Replaces(newer, e)
    /\ \E gone \in SUBSET {f \in owed : Replaces(e, f)} : owed' = owed \ gone
    /\ UNCHANGED accepted

\* Writing the event down fails, or the process ends before it, after some of
\* the older events of its class were already removed: the one way an obligation
\* is dropped.
FailToOwe(e) ==
    /\ "upsert" \in Failures \/ "crash" \in Disruptions
    /\ e \notin offered
    /\ offered' = offered \cup {e}
    /\ \E gone \in SUBSET {f \in owed : Replaces(e, f)} : owed' = owed \ gone
    /\ UNCHANGED accepted

\* A message server accepts an event it was offered, owed still or not.
Accept(e) ==
    /\ e \in offered
    /\ accepted' = accepted \cup {e}
    /\ UNCHANGED <<owed, offered>>

Discharge(e) ==
    /\ e \in owed \cap accepted
    /\ owed' = owed \ {e}
    /\ UNCHANGED <<accepted, offered>>

\* Logging out erases the account's storage.
Abandon == owed' = {} /\ UNCHANGED <<accepted, offered>>

Next ==
    \/ \E e \in Events : \/ Owe(e) \/ Decline(e) \/ FailToOwe(e)
                         \/ Accept(e) \/ Discharge(e)
    \/ Abandon

Spec == Init /\ [][Next]_outboxVars
=============================================================================
