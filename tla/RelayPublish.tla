---------------------------- MODULE RelayPublish ----------------------------
(***************************************************************************)
(* The durable relay publish queue of core/src/core/publishing.rs and the  *)
(* drain that empties it.                                                  *)
(*                                                                         *)
(* The core actor writes every signed event it must publish to the table   *)
(* pending_relay_publishes, keeps a copy in memory, and hands batches of   *)
(* them to a drain worker: a task that publishes a few events at a time    *)
(* and reports each result, then its own end, back to the actor.  A token  *)
(* tells the reports of the current drain from those of an older one.      *)
(* Time is abstract: `stale' says that the drain has been in flight for    *)
(* PENDING_RELAY_DRAIN_STALE_AFTER, which is also when the drain's         *)
(* watchdog task asks for a retry.                                         *)
(***************************************************************************)
EXTENDS Naturals, FiniteSets

CONSTANTS
    Events,        \* identifiers of the signed events
    Messages,      \* those that carry a chat message (drained first)
    Class,         \* Class[e]: app-keys of one d tag, local invite, or NoClass
    NoClass,       \* the class of an event that replaces nothing
    Stamp,         \* Stamp[e]: position in the order by created_at, label, id
    Rejected,      \* events no message server ever accepts
    Workers,       \* bound: drain workers alive at the same time
    Tokens,        \* values of publish_drain_token since the last reset
    NoToken,       \* the token of a fresh RelayTransportRuntime (0)
    BatchSize,     \* PENDING_RELAY_DRAIN_BATCH_SIZE
    Concurrency,   \* PENDING_RELAY_DRAIN_CONCURRENCY
    Failures,      \* storage operations that may fail: upsert, delete, load
    Disruptions    \* what may happen to the session: crash, suspend, logout,
                   \* norelays (the user removes the last message server)

ASSUME EventAssumption ==
    /\ \A e \in Events : Stamp[e] \in Nat
    /\ \A e, f \in Events : Stamp[e] = Stamp[f] => e = f
ASSUME DrainAssumption ==
    /\ BatchSize \in Nat \ {0} /\ Concurrency \in Nat \ {0}
    /\ NoToken \notin Tokens
    /\ Failures \subseteq {"upsert", "delete", "load"}

VARIABLES
    session,     \* "stopped", "starting" (runtime reset), "loaded" (queue read),
                 \* "active" or "suspended"
    configured,  \* relay_urls is not empty
    store,       \* event ids of the rows of pending_relay_publishes
    pending,     \* keys of AppCore.pending_relay_publishes
    inflight,    \* AppCore.pending_relay_publish_inflight
    drain,       \* the publish_drain_* fields of RelayTransportRuntime
    watchdog,    \* the newest drain's watchdog task has not fired
    worker,      \* the drain worker tasks
    accepted,    \* events some message server holds
    \* What the properties remember of the past.
    offered,     \* events handed to publish_runtime_event so far
    written,     \* those upsert_pending_relay_publish has written to the table
    dropped      \* those the code gave up: their own write failed or was cut
                 \* short, they had been removed for such an event, or the
                 \* storage they were in was cleared by a logout

history == <<offered, written, dropped>>

vars == <<session, configured, store, pending, inflight, drain, watchdog,
          worker, accepted, offered, written, dropped>>

IdleDrain == [inFlight |-> FALSE, dirty |-> FALSE, stale |-> FALSE, token |-> NoToken]

\* A worker's queue, the attempts it is making, the results it has sent to the
\* actor's mailbox and the attempts that died without one.  `old' marks a
\* worker from before the last reset of the runtime, whose token may be reused.
IdleWorker == [on |-> FALSE, old |-> FALSE, token |-> NoToken,
               queued |-> {}, active |-> {}, ok |-> {}, bad |-> {}, lost |-> {}]

Held(w) == worker[w].queued \cup worker[w].active \cup worker[w].ok
           \cup worker[w].bad \cup worker[w].lost

DrainType == [inFlight : BOOLEAN, dirty : BOOLEAN, stale : BOOLEAN,
              token : Tokens \cup {NoToken}]
WorkerType == [on : BOOLEAN, old : BOOLEAN, token : Tokens \cup {NoToken},
               queued : SUBSET Events, active : SUBSET Events,
               ok : SUBSET Events, bad : SUBSET Events, lost : SUBSET Events]

\* Only a drain in flight has flags raised, and it has a token of its own.
Coherent(d) == /\ d.stale \/ d.dirty => d.inFlight
               /\ d.inFlight => d.token # NoToken

\* The types of the variables, and a drain runtime whose fields agree.
TypeOK ==
    /\ session \in {"stopped", "starting", "loaded", "active", "suspended"}
    /\ configured \in BOOLEAN /\ watchdog \in BOOLEAN
    /\ store \subseteq Events /\ pending \subseteq Events /\ inflight \subseteq Events
    /\ accepted \subseteq Events /\ offered \subseteq Events
    /\ written \subseteq Events /\ dropped \subseteq Events
    /\ drain \in DrainType /\ Coherent(drain)
    /\ worker \in [Workers -> WorkerType]

Init ==
    /\ session = "stopped" /\ configured = TRUE
    /\ store = {} /\ pending = {} /\ inflight = {}
    /\ drain = IdleDrain /\ watchdog = FALSE
    /\ worker = [w \in Workers |-> IdleWorker]
    /\ accepted = {} /\ offered = {} /\ written = {} /\ dropped = {}

-----------------------------------------------------------------------------
(* The order of a drain and the choice of its batch.                       *)

Before(e, f) ==
    \/ e \in Messages /\ f \notin Messages
    \/ (e \in Messages <=> f \in Messages) /\ Stamp[e] < Stamp[f]

\* The n first events of S in drain order.
FirstOf(S, n) == {e \in S : Cardinality({f \in S : Before(f, e)}) < n}

Replaces(e, f) == /\ Class[e] # NoClass /\ Class[e] = Class[f]
                  /\ Stamp[f] < Stamp[e]

\* A token no live worker of this runtime holds: wrapping_add(1) from the last
\* one.  A worker from before a reset counted from zero too and may hold it.
FreshToken(t, ws) == \A w \in Workers : ws[w].on /\ ~ws[w].old => ws[w].token # t

\* retry_pending_relay_publishes, on the queue p, in-flight set fly, drain d,
\* workers ws and watchdog wd that the calling handler has reached.  A stale
\* drain is forgotten, though its worker still runs; a drain in flight is only
\* marked dirty; otherwise a new worker gets the first events not in flight.
RetryFrom(p, fly, d, ws, wd) ==
    LET d0    == IF d.inFlight /\ d.stale THEN [IdleDrain EXCEPT !.token = d.token] ELSE d
        fly0  == IF d.inFlight /\ d.stale THEN {} ELSE fly
        todo  == p \ fly0
        batch == FirstOf(todo, BatchSize)
    IN  \/ /\ p = {} \/ ~configured'
           /\ inflight' = fly /\ drain' = d /\ worker' = ws /\ watchdog' = wd
        \/ /\ p # {} /\ configured' /\ d0.inFlight
           /\ inflight' = fly0 /\ drain' = [d0 EXCEPT !.dirty = TRUE]
           /\ worker' = ws /\ watchdog' = wd
        \/ /\ p # {} /\ configured' /\ ~d0.inFlight /\ todo = {}
           /\ inflight' = fly0 /\ drain' = d0 /\ worker' = ws /\ watchdog' = wd
        \/ /\ configured' /\ ~d0.inFlight /\ todo # {}
           /\ \E w \in Workers, t \in Tokens :
                /\ ~ws[w].on /\ FreshToken(t, ws) /\ t # d0.token
                /\ worker' = [ws EXCEPT ![w] =
                       [IdleWorker EXCEPT !.on = TRUE, !.token = t, !.queued = batch]]
                /\ inflight' = fly0 \cup batch
                /\ drain' = [inFlight |-> TRUE, dirty |-> batch # todo,
                             stale |-> FALSE, token |-> t]
                /\ watchdog' = TRUE

\* Deleting rows may fail one by one; the code logs the failure and goes on.
AfterDelete(gone) ==
    {store \ g : g \in IF "delete" \in Failures THEN SUBSET gone ELSE {gone}}

LoggedIn == session # "stopped"

-----------------------------------------------------------------------------
(* Events enter the queue.                                                 *)

\* publish_runtime_event_with_metadata: write the event down, unless an event
\* of its class that is already queued is newer, then start a drain.  The older
\* events of the class are forgotten first; when a newer one turns up in the
\* walk over the queue, those met before it are gone already.
Enqueue(e) ==
    /\ UNCHANGED <<session, configured, accepted>>
    /\ LoggedIn /\ e \notin offered
    /\ offered' = offered \cup {e}
    /\ LET older == {f \in pending : Replaces(e, f)}
           newer == {f \in pending : Replaces(f, e)}
       IN  \E gone \in IF newer = {} THEN {older} ELSE SUBSET older :
             \E rows \in AfterDelete(gone) :
               \/ \* superseded, or upsert_pending_relay_publish failed
                  /\ newer # {} \/ "upsert" \in Failures
                  /\ pending' = pending \ gone /\ store' = rows
                  /\ inflight' = inflight \ gone
                  /\ dropped' = IF newer = {} THEN dropped \cup {e} \cup (store \ rows)
                                ELSE dropped
                  /\ UNCHANGED <<written, drain, worker, watchdog>>
               \/ /\ newer = {}
                  /\ pending' = (pending \ gone) \cup {e} /\ store' = rows \cup {e}
                  /\ written' = written \cup {e} /\ UNCHANGED dropped
                  /\ RetryFrom(pending', inflight \ gone, drain, worker, watchdog)

\* The process dies with its memory and its tasks; the tables survive.
ProcessEnds ==
    /\ "crash" \in Disruptions
    /\ session' = "stopped"
    /\ pending' = {} /\ inflight' = {} /\ drain' = IdleDrain
    /\ watchdog' = FALSE /\ worker' = [w \in Workers |-> IdleWorker]
    /\ UNCHANGED <<configured, accepted>>

\* The process dies in publish_runtime_event_with_metadata: every delete of an
\* older row and the write of the new one commit on their own, so some of the
\* older rows are gone and the new one is not there.  (After the write, or if
\* a newer event is queued, that is Enqueue and then Crash.)
EnqueueCut(e) ==
    /\ LoggedIn /\ e \notin offered
    /\ ~\E f \in pending : Replaces(f, e)
    /\ offered' = offered \cup {e}
    /\ \E gone \in SUBSET {f \in pending : Replaces(e, f)} :
         store' = store \ gone /\ dropped' = dropped \cup {e} \cup gone
    /\ ProcessEnds /\ UNCHANGED written

\* retry_pending_relay_publishes called for any other reason: a connection came
\* up, the liveness timer fired, the subscriptions were reconciled.
Retry ==
    /\ UNCHANGED <<session, configured, store, pending, accepted, history>>
    /\ session = "active"
    /\ RetryFrom(pending, inflight, drain, worker, watchdog)

\* RetryPendingRelayPublishes from the newest drain's watchdog task, sent
\* PENDING_RELAY_DRAIN_STALE_AFTER after that drain started.
WatchdogFires ==
    /\ UNCHANGED <<session, configured, store, pending, accepted, history>>
    /\ watchdog /\ (drain.stale \/ ~drain.inFlight)
    /\ \/ /\ session = "active"
          /\ RetryFrom(pending, inflight, drain, worker, FALSE)
       \/ /\ session \in {"stopped", "suspended"}
          /\ watchdog' = FALSE /\ UNCHANGED <<inflight, drain, worker>>

\* publish_drain_started_at.elapsed() reaches PENDING_RELAY_DRAIN_STALE_AFTER.
\* That is one attempt's time limit, and a batch may need several in a row.
DrainAges ==
    /\ session \notin {"starting", "loaded"}  \* one short handler
    /\ drain.inFlight /\ ~drain.stale
    /\ drain' = [drain EXCEPT !.stale = TRUE]
    /\ UNCHANGED <<session, configured, store, pending, inflight, watchdog,
                   worker, accepted, history>>

-----------------------------------------------------------------------------
(* The drain worker task.                                                  *)

QueueUnchanged == UNCHANGED <<session, configured, store, pending, inflight,
                              drain, watchdog, history>>

\* The join set is filled up to PENDING_RELAY_DRAIN_CONCURRENCY attempts.
WorkerTakes(w) ==
    /\ worker[w].queued # {} /\ Cardinality(worker[w].active) < Concurrency
    /\ LET next == FirstOf(worker[w].queued, 1)
       IN  worker' = [worker EXCEPT ![w].queued = @ \ next, ![w].active = @ \cup next]
    /\ UNCHANGED accepted /\ QueueUnchanged

\* Mutant of AttemptAccepted: success is reported before a server answers.
AttemptUnconfirmed(w, e) ==
    /\ e \in worker[w].active \ Rejected
    /\ worker' = [worker EXCEPT ![w].active = @ \ {e}, ![w].ok = @ \cup {e}]
    /\ UNCHANGED accepted
    /\ QueueUnchanged

\* A message server took the event and its answer arrived in time.
AttemptAccepted(w, e) ==
    /\ e \in worker[w].active \ Rejected
    /\ worker' = [worker EXCEPT ![w].active = @ \ {e}, ![w].ok = @ \cup {e}]
    /\ accepted' = accepted \cup {e}
    /\ QueueUnchanged

\* No server answered OK in time, though one may hold the event by now.  The
\* failure is reported (`bad'), or the attempt panicked and nothing is (`lost').
AttemptFails(w, e) ==
    /\ e \in worker[w].active
    /\ \/ worker' = [worker EXCEPT ![w].active = @ \ {e}, ![w].bad = @ \cup {e}]
       \/ worker' = [worker EXCEPT ![w].active = @ \ {e}, ![w].lost = @ \cup {e}]
    /\ \/ UNCHANGED accepted
       \/ e \notin Rejected /\ accepted' = accepted \cup {e}
    /\ QueueUnchanged

\* handle_internal handles the reports; it drops them while suspended, and the
\* handlers ignore those of another token.
Heeds(w) == /\ session = "active" /\ worker[w].token = drain.token

\* Mutant of HandleProgress: a failed event is forgotten like an accepted one.
HandleProgressForgettingAll(w, e) ==
    /\ session \in {"stopped", "active", "suspended"}
    /\ e \in worker[w].ok \cup worker[w].bad
    /\ worker' = [worker EXCEPT ![w].ok = @ \ {e}, ![w].bad = @ \ {e}]
    /\ inflight' = IF Heeds(w) THEN inflight \ {e} ELSE inflight
    /\ IF Heeds(w)
         THEN pending' = pending \ {e} /\ store' \in AfterDelete({e})
         ELSE UNCHANGED <<pending, store>>
    /\ UNCHANGED <<session, configured, drain, watchdog, accepted, history>>

\* handle_relay_publish_drain_progress and handle_relay_publish_finished.  A
\* failed event leaves the in-flight set and stays queued.
HandleProgress(w, e) ==
    /\ session \in {"stopped", "active", "suspended"}
    /\ e \in worker[w].ok \cup worker[w].bad
    /\ worker' = [worker EXCEPT ![w].ok = @ \ {e}, ![w].bad = @ \ {e}]
    /\ inflight' = IF Heeds(w) THEN inflight \ {e} ELSE inflight
    /\ IF Heeds(w) /\ e \in worker[w].ok
         THEN pending' = pending \ {e} /\ store' \in AfterDelete({e})
         ELSE UNCHANGED <<pending, store>>
    /\ UNCHANGED <<session, configured, drain, watchdog, accepted, history>>

\* Mutant of HandleFinished: events without a result stay in flight.
HandleFinishedStranding(w) ==
    /\ UNCHANGED <<session, configured, store, pending, accepted, history>>
    /\ session \in {"stopped", "active", "suspended"}
    /\ worker[w].on /\ worker[w].queued = {} /\ worker[w].active = {}
    /\ worker[w].ok = {} /\ worker[w].bad = {}
    /\ LET done  == [IdleDrain EXCEPT !.token = drain.token]
           freed == [worker EXCEPT ![w] = IdleWorker]
       IN  \/ /\ ~Heeds(w)
              /\ worker' = freed /\ UNCHANGED <<inflight, drain, watchdog>>
           \/ /\ Heeds(w) /\ ~drain.dirty
              /\ worker' = freed /\ drain' = done /\ UNCHANGED <<inflight, watchdog>>
           \/ /\ Heeds(w) /\ drain.dirty
              /\ RetryFrom(pending, inflight, done, freed, watchdog)

\* handle_relay_publish_drain_finished.  An event still in flight lost its
\* result and counts as failed, which leaves a dirty drain to the backoff.
HandleFinished(w) ==
    /\ UNCHANGED <<session, configured, store, pending, accepted, history>>
    /\ session \in {"stopped", "active", "suspended"}
    /\ worker[w].on /\ worker[w].queued = {} /\ worker[w].active = {}
    /\ worker[w].ok = {} /\ worker[w].bad = {}
    /\ LET done  == [IdleDrain EXCEPT !.token = drain.token]
           freed == [worker EXCEPT ![w] = IdleWorker]
           again == drain.dirty /\ inflight \cap pending = {}
       IN  \/ /\ ~Heeds(w)
              /\ worker' = freed /\ UNCHANGED <<inflight, drain, watchdog>>
           \/ /\ Heeds(w) /\ ~again
              /\ worker' = freed /\ inflight' = {} /\ drain' = done
              /\ UNCHANGED watchdog
           \/ /\ Heeds(w) /\ again
              /\ RetryFrom(pending, {}, done, freed, watchdog)

-----------------------------------------------------------------------------
(* The session around the queue.                                           *)

\* RelayTransportRuntime::default(): the drain is forgotten and the token is
\* back at zero, while the workers and the watchdog live on.
ResetRuntime ==
    /\ drain' = IdleDrain
    /\ worker' = [w \in Workers |-> [worker[w] EXCEPT !.old = worker[w].on]]
    /\ UNCHANGED watchdog

\* apply_nostr_relay_urls with an empty list.  The refresh of the subscriptions
\* it asks for resets the runtime and leaves the in-flight set as it is.
RemoveRelays ==
    /\ "norelays" \in Disruptions
    /\ session \in {"active", "suspended"} /\ configured
    /\ configured' = FALSE
    /\ ResetRuntime
    /\ UNCHANGED <<session, store, pending, inflight, accepted, history>>

\* apply_nostr_relay_urls with servers in the list again.
AddRelays ==
    /\ session \in {"active", "suspended"} /\ ~configured
    /\ configured' = TRUE
    /\ RetryFrom(pending, inflight, drain, worker, watchdog)
    /\ UNCHANGED <<session, store, pending, accepted, history>>

\* Mutant of Suspend: the in-flight set survives the suspension.
SuspendKeepingInflight ==
    /\ "suspend" \in Disruptions
    /\ session = "active"
    /\ session' = "suspended"
    /\ ResetRuntime
    /\ UNCHANGED <<configured, store, pending, inflight, accepted, history>>

\* prepare_for_suspend
Suspend ==
    /\ "suspend" \in Disruptions
    /\ session = "active"
    /\ session' = "suspended" /\ inflight' = {}
    /\ ResetRuntime
    /\ UNCHANGED <<configured, store, pending, accepted, history>>

\* handle_app_foregrounded
Foreground ==
    /\ session = "suspended"
    /\ session' = "active"
    /\ UNCHANGED configured
    /\ RetryFrom(pending, inflight, drain, worker, watchdog)
    /\ UNCHANGED <<store, pending, accepted, history>>

\* Mutant of StartSession: the queue of the previous login is not cleared.
StartSessionKeepingQueue ==
    /\ session = "stopped"
    /\ \E w \in Workers : ~worker[w].on
    /\ session' = "starting" /\ inflight' = {}
    /\ ResetRuntime
    /\ UNCHANGED <<configured, store, pending, accepted, history>>

\* start_session_inner up to its first publishes: everything is reset.
StartSession ==
    /\ session = "stopped"
    /\ \E w \in Workers : ~worker[w].on  \* bound: room for the session's first drain
    /\ session' = "starting" /\ pending' = {} /\ inflight' = {}
    /\ ResetRuntime
    /\ UNCHANGED <<configured, store, accepted, history>>

\* It loads the stored queue; what it published before that is in both.
LoadQueue ==
    /\ session = "starting"
    /\ session' = "loaded"
    /\ \/ pending' = store
       \/ "load" \in Failures /\ UNCHANGED pending
    /\ UNCHANGED <<configured, store, inflight, drain, watchdog, worker,
                   accepted, history>>

\* retry_pending_relay_publishes("session_start"), after more publishes.
SessionStarted ==
    /\ session = "loaded"
    /\ session' = "active"
    /\ UNCHANGED configured
    /\ RetryFrom(pending, inflight, drain, worker, watchdog)
    /\ UNCHANGED <<store, pending, accepted, history>>

\* The process dies anywhere else.
Crash == ProcessEnds /\ UNCHANGED store /\ UNCHANGED history

\* logout: the storage is cleared, the in-memory queue is left as it is.
Logout ==
    /\ "logout" \in Disruptions
    /\ session \in {"active", "suspended"}
    /\ session' = "stopped" /\ store' = {}
    /\ dropped' = dropped \cup store
    /\ ResetRuntime
    /\ UNCHANGED <<configured, pending, inflight, accepted, offered, written>>

-----------------------------------------------------------------------------
WorkerStep(w) ==
    \/ WorkerTakes(w)
    \/ \E e \in Events : AttemptAccepted(w, e) \/ AttemptFails(w, e)

WorkerReport(w) == HandleFinished(w) \/ \E e \in Events : HandleProgress(w, e)

Next ==
    \/ \E e \in Events : Enqueue(e) \/ EnqueueCut(e)
    \/ Retry \/ WatchdogFires \/ DrainAges
    \/ \E w \in Workers : WorkerStep(w) \/ WorkerReport(w)
    \/ RemoveRelays \/ AddRelays \/ Suspend \/ Foreground
    \/ StartSession \/ LoadQueue \/ SessionStarted \/ Crash \/ Logout

Spec == Init /\ [][Next]_vars

\* The worker whose reports count.
Current(w) == worker[w].on /\ worker[w].token = drain.token

\* The actor and the tokio tasks are scheduled, timers fire, and the session is
\* always started to its end.  The environment is assumed to let a message
\* server answer for an event it accepts, if it is asked by drain after drain
\* (SF): a server that lets every attempt time out can defeat any queue.
Fairness ==
    /\ WF_vars(WatchdogFires) /\ WF_vars(DrainAges)
    /\ WF_vars(LoadQueue) /\ WF_vars(SessionStarted)
    /\ \A w \in Workers : WF_vars(WorkerStep(w)) /\ WF_vars(WorkerReport(w))
    /\ \A e \in Events \ Rejected :
        /\ SF_vars(\E w \in Workers : Current(w) /\ AttemptAccepted(w, e))
        /\ SF_vars(\E w \in Workers : Current(w) /\ e \in worker[w].ok /\ HandleProgress(w, e))
    /\ SF_vars(\E w \in Workers : Current(w) /\ WorkerTakes(w))

FairSpec == Spec /\ Fairness

-----------------------------------------------------------------------------
(* Properties.                                                             *)

\* The queue, with all its drains, retries and restarts, is nothing but the
\* outbox whose obligations are the rows of pending_relay_publishes.
Outbox == INSTANCE PublishOutbox WITH owed <- store
ImplementsOutbox == Outbox!Spec

\* The queue in memory and the table agree: nothing is drained that a crash
\* would forget and, as long as rows can be read and deleted, nothing is
\* stored that the running session does not drain.
QueueIsDurable ==
    LoggedIn => /\ pending \subseteq store
                /\ session # "starting" /\ Failures \cap {"delete", "load"} = {}
                     => store \subseteq pending

\* An event handed to publish_runtime_event is still stored, has been accepted
\* by a message server, or has a newer event of its replaceable class that was
\* written down, whatever crashes, stale drains, failing deletes and reused
\* tokens come in between.  The code gives up an event in three cases only,
\* and no other: the process ends or the write fails while the event is being
\* written down, and then the older events of its class that were removed for
\* it are gone too, though nothing has replaced them; the event is stored when
\* the user logs out.
NothingLost ==
    \A e \in offered \ dropped :
        \/ e \in store \/ e \in accepted
        \/ \E f \in written : Replaces(f, e)

\* An event that retries skip as being in flight belongs to a running drain, and
\* in an active session that drain's watchdog is still to come.  Unless reports
\* are dropped by a suspension, a worker whose report the actor will heed holds
\* it.  (Removing the last message server breaks this: it resets the drain and
\* leaves the in-flight set.  So does a logout, until the next login.)
InflightIsWorked ==
    "norelays" \notin Disruptions /\ LoggedIn /\ inflight # {} =>
        /\ drain.inFlight
        /\ session = "active" => watchdog
        /\ "suspend" \notin Disruptions =>
             inflight \subseteq UNION {Held(w) : w \in {v \in Workers : Current(v)}}

\* In a session that in the end stays up and has a message server, no queued
\* event that some server would accept stays queued: no lost report, dirty
\* flag, stale drain, suspension or restart leaves it without a next attempt.
EventuallyPublished ==
    <>[](session = "active" /\ configured) =>
        \A e \in Events \ Rejected : e \in pending ~> e \notin pending

=============================================================================
