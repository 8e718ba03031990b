-------------------------- MODULE ProtocolOutbound --------------------------
(***************************************************************************)
(* How a direct message gets from the user to the peer's devices and to    *)
(* the user's own other devices: chat-protocol/src/protocol_engine with    *)
(* the callers in core/src/core.                                           *)
(*                                                                         *)
(* The engine encrypts a message once for each device it can reach, with   *)
(* the next key of that device's ratchet.  What it cannot reach, or does   *)
(* not know of yet, stays in pending_outbound and is tried again when a    *)
(* device list or an invite arrives and when the liveness check fires.     *)
(* Encrypted events become rows of the durable publish queue at once; the  *)
(* engine's state and the app's are written at the end of the batch.       *)
(*                                                                         *)
(* The publish queue appears as what PublishOutbox promises of it.  The    *)
(* ratchet is external: it encrypts for a device that has a session or an  *)
(* invite and reports a gap for a device without one.  Times are abstract: *)
(* any part of what is pending may be due.                                 *)
(***************************************************************************)
EXTENDS Naturals, FiniteSets

CONSTANTS
    MaxMessages,  \* bound: messages the user sends
    Peers,        \* the peer's devices
    Siblings,     \* the user's other devices
    Ready,        \* devices whose invite is known from the beginning
    Errors,       \* how a retry may fail: "prepare", "later"
    Disruptions   \* what may happen: "crash"

Messages == 1 .. MaxMessages
Devices == Peers \cup Siblings

ASSUME DeviceAssumption == Peers \cap Siblings = {} /\ Ready \subseteq Devices
ASSUME BoundAssumption == MaxMessages \in Nat

VARIABLES
    phase,    \* "up": in a batch; "flushed": between the two writes at its end;
              \* "down": no process
    engine,   \* the protocol engine's memory, see EngineType
    disk,     \* its stored state
    dirty,    \* batch_persist_dirty of the engine
    app,      \* app[m]: delivery of m in the chat, NotThere if it is not
    saved,    \* the stored app state
    rows,     \* events in pending_relay_publishes, in memory and stored
    offered,  \* history: events ever handed to the publish queue
    repeated, \* history: one of them was handed to it again, with no crash to blame
    sent,     \* history: messages the user has sent
    hit,      \* history: messages that were pending when a retry failed
    mislaid,  \* history: messages whose entry has forgotten that the peer has no list
    torn      \* history: a crash has made away with engine state

vars == <<phase, engine, disk, dirty, app, saved, rows, offered,
          repeated, sent, hit, mislaid, torn>>

NotThere == "not there"
Delivery == {NotThere, "waiting", "sent"}  \* waiting: Queued or Pending
Event == [msg : Messages, dev : Devices]  \* all the copies of m made for dev

\* ProtocolPendingOutbound: done is both lists of delivered devices.
Pending == [msg : Messages, done : SUBSET Devices, probe : BOOLEAN,
            reason : {"MissingRoster", "MissingDeviceInvite", "PublishRetry"}]

\* roster, local: the devices of the peer's and, but for this one, of the user's
\* device list, {} if none is known; observed: local_app_keys_observed, the only
\* field that is not stored; reach: devices with a session or an invite.
EngineType == [roster : SUBSET Peers, local : SUBSET Siblings, observed : BOOLEAN,
               reach : SUBSET Devices, pending : SUBSET Pending]

\* The types of the variables; a message has one entry, a row was once offered.
TypeOK ==
    /\ phase \in {"up", "flushed", "down"}
    /\ engine \in EngineType /\ disk \in EngineType
    /\ \A p, q \in engine.pending : p.msg = q.msg => p = q
    /\ app \in [Messages -> Delivery] /\ saved \in [Messages -> Delivery]
    /\ {dirty, torn} \subseteq BOOLEAN
    /\ dirty => phase = "up"
    /\ offered \subseteq Event /\ rows \subseteq offered /\ repeated \in BOOLEAN
    /\ sent \subseteq Messages /\ hit \subseteq sent /\ mislaid \subseteq sent

Init ==
    /\ phase = "up"
    /\ engine = [roster |-> {}, local |-> {}, observed |-> FALSE, reach |-> Ready, pending |-> {}]
    /\ disk = engine /\ dirty = FALSE
    /\ app = [m \in Messages |-> NotThere] /\ saved = app
    /\ rows = {} /\ offered = {} /\ repeated = FALSE
    /\ sent = {} /\ hit = {} /\ mislaid = {} /\ torn = FALSE

-----------------------------------------------------------------------------
(* What is still to be done for a pending message p, in engine state e.    *)

\* remaining_remote_targets, remaining_local_sibling_targets.
RemoteLeft(e, p) == e.roster \ p.done
LocalLeft(e, p) == e.local \ p.done
Left(e, p) == RemoteLeft(e, p) \cup LocalLeft(e, p)

\* The peer has no device list yet, and the entry remembers to wait for it.
AwaitsRoster(e, p) == e.roster = {} /\ p.reason = "MissingRoster"

\* pending_target_hexes is not empty.
HasTargets(e, p) ==
    Left(e, p) # {} \/ AwaitsRoster(e, p) \/ (p.probe /\ LocalLeft(e, p) = {})

\* has_delivery_blocking_message_work
Blocked(e, m) ==
    \E p \in e.pending : p.msg = m /\ (Left(e, p) # {} \/ AwaitsRoster(e, p))

\* has_authoritative_local_roster
Authoritative(e) == e.observed \/ e.local # {}

\* Mutant: what the publish queue still holds does not count.
ReconcileIgnoringRows(a, e, r, M) ==
    [m \in Messages |->
        IF a[m] = NotThere \/ m \notin M THEN a[m]
        ELSE IF Blocked(e, m) THEN "waiting" ELSE "sent"]

\* reconcile_outgoing_message_delivery for the messages M of the chat.
Reconcile(a, e, r, M) ==
    [m \in Messages |->
        IF a[m] = NotThere \/ m \notin M THEN a[m]
        ELSE IF Blocked(e, m) \/ \E v \in r : v.msg = m
             THEN "waiting"
        ELSE "sent"]

Publish(E) ==
    /\ rows' = rows \cup E /\ offered' = offered \cup E
    /\ repeated' = (repeated \/ (~torn /\ offered \cap E # {}))

NoPublish == UNCHANGED <<rows, offered, repeated>>
StoresUnchanged == UNCHANGED <<disk, saved, torn>>

-----------------------------------------------------------------------------
(* Sending.                                                                *)

\* send_direct_message: encrypt for the devices that can be reached; of the
\* siblings the ratchet may leave out some, with a gap or without.  The rest
\* is written down as pending.
SendFrom(m, L, gap) ==
    LET D      == (engine.roster \cap engine.reach) \cup L
        gaps   == gap \/ engine.roster = {} \/ ~(engine.roster \subseteq engine.reach)
        probe  == ~gap /\ L = {} /\ ~Authoritative(engine)
        entry  == [msg |-> m, done |-> D, probe |-> probe,
                   reason |-> IF engine.roster = {} THEN "MissingRoster"
                              ELSE IF gaps THEN "MissingDeviceInvite" ELSE "PublishRetry"]
        next   == [engine EXCEPT
                     !.pending = IF gaps \/ probe \/ ~(engine.local \subseteq L)
                                 THEN @ \cup {entry} ELSE @]
    IN  /\ engine' = next /\ dirty' = TRUE
        /\ Publish({[msg |-> m, dev |-> d] : d \in D})
        /\ app' = Reconcile([app EXCEPT ![m] = "waiting"], next, rows', {m})

Send(m) ==
    /\ phase = "up"
    /\ m \notin sent /\ 1 .. (m - 1) \subseteq sent
    /\ \E L \in SUBSET (engine.local \cap engine.reach), gap \in BOOLEAN :
           /\ gap => L # engine.local
           /\ SendFrom(m, L, gap)
    /\ sent' = sent \cup {m}
    /\ UNCHANGED <<phase, hit, mislaid>> /\ StoresUnchanged

-----------------------------------------------------------------------------
(* Trying again.                                                           *)

\* Mutant: the devices that are served are not written down.
WorkedUnrecorded(e, p, late) ==
    LET Now == Left(e, p)
    IN  [p EXCEPT
           !.probe  = @ /\ ~(LocalLeft(e, p) = {} /\ (Authoritative(e) \/ late)),
           !.reason = IF Now \subseteq e.reach THEN @ ELSE "MissingDeviceInvite"]

\* What becomes of entry p when it is due; late says that the time to probe for
\* siblings is over.
Worked(e, p, late) ==
    LET Now == Left(e, p)
    IN  [p EXCEPT
           !.done   = @ \cup (Now \cap e.reach),
           !.probe  = @ /\ ~(LocalLeft(e, p) = {} /\ (Authoritative(e) \/ late)),
           !.reason = IF Now \subseteq e.reach THEN @ ELSE "MissingDeviceInvite"]

Kept(e, p, late) ==
    LET q == Worked(e, p, late)
    IN  HasTargets(e, q) /\ (Left(e, p) = {} => q.reason # "PublishRetry" \/ q.probe)

\* The copies the due entries D are owed and the ratchet can make.
Encrypted(e, D) ==
    UNION {{[msg |-> p.msg, dev |-> d] : d \in Left(e, p) \cap e.reach} : p \in D}

\* The engine after retry_pending_outbound.
Retried(e, D, late) ==
    [e EXCEPT !.pending = (@ \ D) \cup {Worked(e, p, late) : p \in {q \in D : Kept(e, q, late)}}]

\* The messages of those that forget here to wait for the peer's device list.
Mislays(e, D) ==
    {p.msg : p \in {q \in D : AwaitsRoster(e, q) /\ ~(Left(e, q) \subseteq e.reach)}}

\* Something is encrypted or dropped, which asks for the state to be written.
Changes(e, D, late) == Encrypted(e, D) # {} \/ \E p \in D : ~Kept(e, p, late)

\* It succeeds, and so does the rest of retry_pending_protocol: its effects are
\* published and the deliveries of the messages it worked on are reconciled.
RetryWorks(e, wrote, D, late) ==
    LET next == Retried(e, D, late)
        M    == {p.msg : p \in {q \in D : Left(e, q) # {} \/ Kept(e, q, late)}}
    IN  /\ engine' = next /\ dirty' = (dirty \/ wrote \/ Changes(e, D, late))
        /\ Publish(Encrypted(e, D))
        /\ app' = Reconcile(app, next, rows', M)
        /\ mislaid' = mislaid \cup Mislays(e, D)
        /\ UNCHANGED hit

\* The ratchet raises an error for some entry: the taken queue is gone, and with
\* it the events for the entries before.
RetryBreaks(e, wrote, D) ==
    /\ "prepare" \in Errors
    /\ \E p \in D : Left(e, p) # {}
    /\ engine' = [e EXCEPT !.pending = {}]
    /\ dirty' = (dirty \/ wrote) /\ hit' = hit \cup {p.msg : p \in e.pending}
    /\ NoPublish /\ UNCHANGED <<app, mislaid>>

\* The retry of group or incoming work, which comes after, raises one: the
\* messages count as delivered and their events are gone.
ResultsDropped(e, wrote, D, late) ==
    /\ "later" \in Errors
    /\ engine' = Retried(e, D, late)
    /\ dirty' = (dirty \/ wrote \/ Changes(e, D, late))
    /\ hit' = hit \cup {v.msg : v \in Encrypted(e, D)}
    /\ mislaid' = mislaid \cup Mislays(e, D)
    /\ NoPublish /\ UNCHANGED app

Retry(e, wrote, D) ==
    \/ \E late \in BOOLEAN : RetryWorks(e, wrote, D, late) \/ ResultsDropped(e, wrote, D, late)
    \/ RetryBreaks(e, wrote, D)

\* Mutant: the check passes over entries that owe the user's own devices only.
RetryDueForPeer(D) ==
    /\ phase = "up" /\ D \subseteq engine.pending /\ D # {}
    /\ \A p \in D : RemoteLeft(engine, p) # {}
    /\ Retry(engine, FALSE, D)
    /\ UNCHANGED <<phase, sent>> /\ StoresUnchanged

\* The liveness check and the other callers of the retry.
RetryDue(D) ==
    /\ phase = "up" /\ D \subseteq engine.pending /\ D # {}
    /\ Retry(engine, FALSE, D)
    /\ UNCHANGED <<phase, sent>> /\ StoresUnchanged

\* A new device list of the peer, a new one of the user, an invite: what is
\* pending is due now.
Learned(e) ==
    /\ phase = "up" /\ e # engine
    /\ Retry(e, TRUE, e.pending)
    /\ UNCHANGED <<phase, sent>> /\ StoresUnchanged

LearnRoster(R) == R # {} /\ Learned([engine EXCEPT !.roster = R])
LearnLocalRoster(L) == Learned([engine EXCEPT !.local = L, !.observed = TRUE])
LearnInvite(d) == Learned([engine EXCEPT !.reach = @ \cup {d}])

-----------------------------------------------------------------------------
(* The publish queue, as PublishOutbox has it.                             *)

\* handle_relay_publish_finished after a success, a server has the event: its row
\* is deleted, which after a crash need not be the last copy's; the message and
\* all others on their way are reconciled.
Published(v) ==
    /\ phase = "up" /\ v \in rows
    /\ rows' = rows \ {v} \/ (torn /\ rows' = rows)
    /\ app' = Reconcile(app, engine, rows', {m \in Messages : m = v.msg \/ app[m] = "waiting"})
    /\ UNCHANGED <<phase, engine, dirty, offered, repeated, sent, hit, mislaid>>
    /\ StoresUnchanged

\* After a failure the row stays and the message waits, even if it was sent.
PublishFailed(v) ==
    /\ phase = "up" /\ v \in rows
    /\ app' = [app EXCEPT ![v.msg] = IF @ = NotThere THEN @ ELSE "waiting"]
    /\ UNCHANGED <<phase, engine, dirty, rows, offered, repeated, sent, hit, mislaid>>
    /\ StoresUnchanged

-----------------------------------------------------------------------------
(* The end of a batch.                                                     *)

\* Mutant: when the app is to be written too, the engine is left to a later batch.
FlushEngineAlone ==
    /\ phase = "up" /\ (dirty \/ app # saved)
    /\ phase' = IF app = saved THEN "up" ELSE "flushed"
    /\ disk' = IF dirty /\ app = saved THEN engine ELSE disk
    /\ dirty' = (dirty /\ app # saved)
    /\ UNCHANGED <<engine, app, saved, rows, offered, repeated, sent, hit, mislaid, torn>>

FlushEngine ==
    /\ phase = "up" /\ (dirty \/ app # saved)
    /\ phase' = IF app = saved THEN "up" ELSE "flushed"
    /\ disk' = IF dirty THEN engine ELSE disk
    /\ dirty' = FALSE
    /\ UNCHANGED <<engine, app, saved, rows, offered, repeated, sent, hit, mislaid, torn>>

SaveApp ==
    /\ phase = "flushed" /\ phase' = "up"
    /\ saved' = app
    /\ UNCHANGED <<engine, disk, dirty, app, rows, offered, repeated, sent, hit, mislaid, torn>>

\* The process ends; its rows and what was written survive.
Crash ==
    /\ "crash" \in Disruptions
    /\ phase # "down" /\ phase' = "down"
    /\ engine' = [disk EXCEPT !.observed = FALSE] /\ app' = saved
    /\ dirty' = FALSE
    /\ torn' = (torn \/ dirty)
    /\ UNCHANGED <<disk, saved, rows, offered, repeated, sent, hit, mislaid>>

Restart ==
    /\ phase = "down" /\ phase' = "up"
    /\ UNCHANGED <<engine, disk, dirty, app, saved, rows, offered,
                   repeated, sent, hit, mislaid, torn>>

-----------------------------------------------------------------------------
EndOfBatch == FlushEngine \/ SaveApp

Next ==
    \/ \E m \in Messages : Send(m)
    \/ \E D \in SUBSET engine.pending : RetryDue(D)
    \/ \E R \in SUBSET Peers : LearnRoster(R)
    \/ \E L \in SUBSET Siblings : LearnLocalRoster(L)
    \/ \E d \in Devices : LearnInvite(d)
    \/ \E v \in rows : Published(v) \/ PublishFailed(v)
    \/ EndOfBatch
    \/ Crash
    \/ Restart

Spec == Init /\ [][Next]_vars

RetryOf(m) == \E D \in SUBSET engine.pending : RetryDue(D) /\ \E p \in D : p.msg = m

Fairness ==
    /\ WF_vars(EndOfBatch) /\ WF_vars(Restart)
    /\ \A m \in Messages : SF_vars(RetryOf(m))

FairSpec == Spec /\ Fairness

-----------------------------------------------------------------------------
(* Properties.                                                             *)

IsPending(m) == \E p \in engine.pending : p.msg = m
InChat(m) == app[m] # NotThere

\* Every device the engine knows of has been given m, and it knows one of the peer,
\* unless it has forgotten to wait for that.
GivenToAll(m) ==
    /\ engine.roster # {} \/ m \in mislaid
    /\ \A d \in engine.roster \cup engine.local : \E v \in offered : v.msg = m /\ v.dev = d

\* In a step of any kind, the end of a process too, a message of the chat is no
\* longer pending, or enters the chat without being so.
Settles(m) ==
    /\ IsPending(m) \/ ~InChat(m)
    /\ m \notin hit' /\ InChat(m)' /\ ~IsPending(m)'

\* A message stays pending until every device the engine knows by then has its own
\* copy in the publish queue, and not before the peer's device list is known.  The
\* end of a process takes it from the queue only if it takes it from the chat too.
\* The exceptions: messages that were pending when a retry failed, and one whose
\* entry has forgotten the missing list is only owed to the devices that are known.
PendingUntilGiven == [][\A m \in Messages : Settles(m) => GivenToAll(m)']_vars

\* A message shown as sent has reached a message server for some device of the
\* peer, whatever was pending, retried, rolled back or saved late, but for the same
\* two exceptions.
SentIsReached ==
    \A m \in Messages \ (hit \cup mislaid) :
        app[m] = "sent" => \E v \in offered \ rows : v.msg = m /\ v.dev \in Peers

\* "Remote owner discovery should remain queued": as long as the peer's device list
\* is not known, a message in the chat is pending, if no retry failed.
UnrosteredIsQueued ==
    \A m \in Messages \ hit : InChat(m) /\ engine.roster = {} => IsPending(m)

\* No message is encrypted twice for a device, as long as no crash has taken the
\* engine back behind what it had published already.
OneCopyEach == ~repeated

\* What is pending does not go on owing a device that stays known and reachable.
EventuallyGiven ==
    \A m \in Messages, d \in Devices :
        <>[](phase # "down" /\ d \in (engine.roster \cup engine.local) \cap engine.reach)
            => []<>(\A p \in engine.pending : p.msg = m => d \in p.done)
=============================================================================
