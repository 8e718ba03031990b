-------------------------- MODULE ProtocolInbound --------------------------
(***************************************************************************)
(* How a direct message gets from a message server into the chat, through  *)
(* two stores that are written one after the other: the protocol engine    *)
(* (chat-protocol/src/protocol_engine), which gives up the key of what it   *)
(* decrypts, and the app state (core/src/core).                            *)
(*                                                                         *)
(* The actor handles its mailbox in batches.  Inside a batch both stores   *)
(* are only marked dirty; at its end the engine's state is written, then   *)
(* the app state, then the engine is told that its deliveries are safe.    *)
(* Messages that cannot be decrypted yet wait in the engine and are tried  *)
(* again when the protocol state changes and when the liveness check fires.*)
(*                                                                         *)
(* Time is abstract: any part of the waiting messages may be due.  The      *)
(* double ratchet itself is external: it opens an event once, and turns    *)
(* down what it cannot open with nothing or with an error.                 *)
(***************************************************************************)
EXTENDS FiniteSets

CONSTANTS
    Events,      \* encrypted messages the message servers hold for this device
    Senders,     \* the devices that sent them
    Sender,      \* Sender[x]: who sent x
    Rows,        \* texts: applying one writes its row without waiting for the save
    Broken,      \* events that do not decrypt even for a known sender
    Refusals,    \* how the ratchet turns an event down: "none" (Ok(None)), "error"
    Failures,    \* which writes may fail: "flush", "save", "ack"
    Disruptions  \* what may happen: "crash"

ASSUME EventAssumption ==
    Sender \in [Events -> Senders] /\ Rows \subseteq Events /\ Broken \subseteq Events

VARIABLES
    phase,    \* where the actor is between two batches, see Phases
    engine,   \* the protocol engine's memory, see EngineType
    disk,     \* its stored state
    dirty,    \* batch_persist_dirty of the engine
    direct,   \* the engine was created inside the running batch and writes at once
    app,      \* the core's memory: what the chats show, what has been seen
    saved,    \* the stored app state
    unsaved,  \* batch_dirty_persist of the core
    late      \* history: what a retry decrypted without a row, or had in its hands
              \* when it broke

vars == <<phase, engine, disk, dirty, direct, app, saved, unsaved, late>>

\* down: no process; open: in a batch; flushed, saved: ending one, after the
\* engine's write and after the app's.
Phases == {"down", "idle", "open", "flushed", "saved"}

\* peers: what the session manager knows of a sender: nothing, a session whose
\* owner claim is unverified, or a session and its owner.
EngineType == [peers : [Senders -> {"unknown", "claimed", "ready"}],
               used : SUBSET Events,        \* keys the ratchet has given up
               pending : SUBSET Events,     \* pending_inbound
               deliveries : SUBSET Events]  \* pending_decrypted_deliveries
AppType == [shown : SUBSET Events, seen : SUBSET Events]

\* The types of the variables; the marks of a batch do not outlive it.
TypeOK ==
    /\ phase \in Phases
    /\ engine \in EngineType /\ disk \in EngineType
    /\ app \in AppType /\ saved \in AppType
    /\ {dirty, direct, unsaved} \subseteq BOOLEAN
    /\ dirty => phase = "open"
    /\ unsaved => phase \in {"open", "flushed"}
    /\ direct => phase \in {"open", "flushed", "saved"}
    /\ late \subseteq Events

Init ==
    /\ phase = "idle"
    /\ engine = [peers |-> [s \in Senders |-> "unknown"], used |-> {},
                 pending |-> {}, deliveries |-> {}]
    /\ disk = engine
    /\ app = [shown |-> {}, seen |-> {}] /\ saved = app
    /\ dirty = FALSE /\ direct = FALSE /\ unsaved = FALSE /\ late = {}

-----------------------------------------------------------------------------
(* The ratchet.                                                            *)

Opens(e, x) == e.peers[Sender[x]] = "ready" /\ x \notin e.used \cup Broken

\* An unverified owner claim is no error; what the ratchet is asked may be.
Refused(e, D) == {x \in D : ~Opens(e, x) /\ e.peers[Sender[x]] # "claimed"}

-----------------------------------------------------------------------------
(* What a handler calls.  It leaves the engine in state e, wrote says that  *)
(* it called persist before, and the app in state a.                       *)

Written(e, wrote) == IF direct' /\ wrote THEN e ELSE disk

Deferred(wrote) == dirty' = (dirty \/ (wrote /\ ~direct'))

\* apply_decrypted_runtime_message_with_metadata and remember_event.
Apply(a, M) == [shown |-> a.shown \cup M, seen |-> a.seen \cup M]

\* upsert_notification_preview_message: the row of a text is written at once.
AppBecomes(a) ==
    app' = a /\ saved' = [saved EXCEPT !.shown = @ \cup (a.shown \cap Rows)]

\* retry_pending_protocol for the due events D.  The queue is taken out while
\* it is worked on, so what a decryption writes has no queue in it.  Recorded
\* deliveries are handed out again.
RetryWorks(e, wrote, a, D) ==
    LET M    == {x \in D : Opens(e, x)}
        next == [e EXCEPT !.used = @ \cup M, !.pending = @ \ M]
    IN  /\ Refused(e, D) # {} => "none" \in Refusals
        /\ engine' = next /\ late' = late \cup (M \ Rows)
        /\ disk' = IF direct' /\ M # {} THEN [next EXCEPT !.pending = {}]
                   ELSE Written(e, wrote)
        /\ Deferred(wrote \/ M # {})
        /\ AppBecomes(Apply(a, M \cup e.deliveries))

\* An error ends it: the taken queue and what was decrypted so far are gone, and
\* nothing is handed out.
RetryBreaks(e, wrote, a, D) ==
    \E M \in SUBSET {x \in D : Opens(e, x)} :
        LET next == [e EXCEPT !.used = @ \cup M, !.pending = {}]
        IN  /\ "error" \in Refusals /\ Refused(e, D) # {}
            /\ engine' = next /\ late' = late \cup M \cup e.deliveries
            /\ disk' = IF direct' /\ M # {} THEN next ELSE Written(e, wrote)
            /\ Deferred(wrote \/ M # {})
            /\ AppBecomes(a)

\* retry_protocol_engine_pending_outbound: nothing to do, or one of the above.
RetryIfDue(e, wrote, a, D) ==
    IF e.pending = {} /\ e.deliveries = {}
    THEN /\ engine' = e /\ disk' = Written(e, wrote) /\ Deferred(wrote)
         /\ AppBecomes(a) /\ UNCHANGED late
    ELSE RetryWorks(e, wrote, a, D) \/ RetryBreaks(e, wrote, a, D)

-----------------------------------------------------------------------------
(* What happens in a batch.                                                *)

InBatch ==
    /\ phase \in {"idle", "open"} /\ phase' = "open"
    /\ UNCHANGED direct

\* Mutant: the delivery is not recorded.
ReceiveUnrecorded(x) ==
    LET e == [engine EXCEPT !.used = @ \cup {x}]
    IN  /\ InBatch /\ x \notin app.seen \cup engine.pending
        /\ Opens(engine, x)
        /\ \E D \in SUBSET e.pending : RetryIfDue(e, TRUE, Apply(app, {x}), D)
        /\ unsaved' = TRUE

\* handle_relay_event for a message of a sender whose session is known: it is
\* decrypted and recorded as a delivery, applied and remembered; then what
\* waits is tried again.
ReceiveOpens(x) ==
    LET e == [engine EXCEPT !.used = @ \cup {x}, !.deliveries = @ \cup {x}]
    IN  /\ InBatch /\ x \notin app.seen \cup engine.pending
        /\ Opens(engine, x)
        /\ \E D \in SUBSET e.pending : RetryIfDue(e, TRUE, Apply(app, {x}), D)
        /\ unsaved' = TRUE

\* Mutant: what waits is remembered as seen.
ReceiveWaitsRemembering(x) ==
    /\ InBatch /\ x \notin app.seen \cup engine.pending
    /\ ~Opens(engine, x) /\ (engine.peers[Sender[x]] = "ready" => "none" \in Refusals)
    /\ engine' = [engine EXCEPT !.pending = @ \cup {x}]
    /\ disk' = Written(engine', TRUE) /\ Deferred(TRUE)
    /\ app' = [app EXCEPT !.seen = @ \cup {x}]
    /\ unsaved' = TRUE
    /\ UNCHANGED <<saved, late>>

\* It cannot be decrypted yet, or not at all: it is kept for later.
ReceiveWaits(x) ==
    /\ InBatch /\ x \notin app.seen \cup engine.pending
    /\ ~Opens(engine, x) /\ (engine.peers[Sender[x]] = "ready" => "none" \in Refusals)
    /\ engine' = [engine EXCEPT !.pending = @ \cup {x}]
    /\ disk' = Written(engine', TRUE) /\ Deferred(TRUE)
    /\ unsaved' = TRUE
    /\ UNCHANGED <<app, saved, late>>

\* It is an error: it is remembered, so as not to be tried again.
ReceiveFails(x) ==
    /\ InBatch /\ x \notin app.seen \cup engine.pending
    /\ "error" \in Refusals /\ ~Opens(engine, x) /\ engine.peers[Sender[x]] = "ready"
    /\ app' = [app EXCEPT !.seen = @ \cup {x}]
    /\ UNCHANGED <<engine, disk, dirty, saved, unsaved, late>>

\* An invite response, an import or a device list gives s a session or verifies
\* its owner: its waiting messages are due now.
ProtocolInput(s, state) ==
    LET e == [engine EXCEPT !.peers[s] = state]
        Woken == {x \in e.pending : Sender[x] = s}
    IN  /\ InBatch
        /\ <<engine.peers[s], state>> \in
               {<<"unknown", "claimed">>, <<"unknown", "ready">>, <<"claimed", "ready">>}
        /\ \E D \in SUBSET e.pending :
               /\ Woken \subseteq D
               /\ \/ RetryWorks(e, TRUE, app, D) /\ unsaved' = TRUE
                  \/ RetryBreaks(e, TRUE, app, D) /\ UNCHANGED unsaved

\* The liveness check and the other callers of the retry.
RetryDue(D) ==
    /\ InBatch /\ D \subseteq engine.pending
    /\ engine.pending # {} \/ engine.deliveries # {}
    /\ \/ /\ RetryWorks(engine, FALSE, app, D)
          /\ unsaved' = (unsaved \/ engine.deliveries # {} \/ engine'.used # engine.used)
       \/ RetryBreaks(engine, FALSE, app, D) /\ UNCHANGED unsaved

\* Any other handler that changes the engine, the app or both.
OtherWork(wrote, touched) ==
    /\ InBatch
    /\ disk' = Written(engine, wrote) /\ Deferred(wrote)
    /\ unsaved' = (unsaved \/ touched)
    /\ UNCHANGED <<engine, app, saved, late>>

-----------------------------------------------------------------------------
(* The end of a batch.                                                     *)

\* ProtocolEngine::exit_batch: the mark is cleared before the write.
FlushEngine(ok) ==
    /\ phase = "open" /\ phase' = "flushed"
    /\ dirty \/ ok
    /\ ok \/ "flush" \in Failures
    /\ disk' = IF dirty /\ ok THEN engine ELSE disk
    /\ dirty' = FALSE
    /\ UNCHANGED <<engine, direct, app, saved, unsaved, late>>

\* persist_best_effort_inner, up to the acknowledgement.
SaveApp(ok) ==
    /\ phase = "flushed"
    /\ unsaved \/ ok
    /\ ok \/ "save" \in Failures
    /\ phase' = IF unsaved /\ ok THEN "saved" ELSE "idle"
    /\ saved' = IF unsaved /\ ok THEN app ELSE saved
    /\ direct' = (direct /\ unsaved /\ ok) /\ unsaved' = FALSE
    /\ UNCHANGED <<engine, disk, dirty, app, late>>

\* ack_pending_decrypted_deliveries: all of them, whichever they are.
Acknowledge(ok) ==
    /\ phase = "saved" /\ phase' = "idle"
    /\ ok \/ ("ack" \in Failures /\ engine.deliveries # {})
    /\ engine' = [engine EXCEPT !.deliveries = {}]
    /\ disk' = IF engine.deliveries # {} /\ ok THEN engine' ELSE disk
    /\ direct' = FALSE
    /\ UNCHANGED <<dirty, app, saved, unsaved, late>>

\* The process ends between two steps: what was not written is lost.
Crash ==
    /\ "crash" \in Disruptions
    /\ phase # "down" /\ phase' = "down"
    /\ engine' = disk /\ app' = saved
    /\ dirty' = FALSE /\ direct' = FALSE /\ unsaved' = FALSE
    /\ UNCHANGED <<disk, saved, late>>

\* The session starts: waiting messages of senders nobody knows are dropped,
\* and what was left is tried again.
Restart ==
    LET known == {x \in disk.pending : disk.peers[Sender[x]] # "unknown"}
        e     == [disk EXCEPT !.pending = known]
    IN  /\ phase = "down" /\ phase' = "open" /\ direct' = TRUE
        /\ \E D \in SUBSET known : RetryIfDue(e, TRUE, saved, D)
        /\ unsaved' = TRUE

-----------------------------------------------------------------------------
Receive(x) == ReceiveOpens(x) \/ ReceiveWaits(x) \/ ReceiveFails(x)

EndOfBatch == \E ok \in BOOLEAN : FlushEngine(ok) \/ SaveApp(ok) \/ Acknowledge(ok)

Next ==
    \/ \E x \in Events : Receive(x)
    \/ \E s \in Senders, state \in {"claimed", "ready"} : ProtocolInput(s, state)
    \/ \E D \in SUBSET Events : RetryDue(D)
    \/ \E wrote, touched \in BOOLEAN : OtherWork(wrote, touched)
    \/ EndOfBatch
    \/ Crash
    \/ Restart

Spec == Init /\ [][Next]_vars

\* Batches end, the checks fire, the message servers deliver again what has not
\* been seen, other handlers ask for a save now and then (a failed one is not
\* tried again by itself), and a save succeeds if it is tried again and again.
Fairness ==
    /\ WF_vars(EndOfBatch) /\ WF_vars(Restart)
    /\ SF_vars(RetryDue(engine.pending))
    /\ SF_vars(OtherWork(TRUE, TRUE))
    /\ SF_vars(phase = "flushed" /\ unsaved /\ SaveApp(TRUE))
    /\ \A x \in Events : SF_vars(Receive(x))

FairSpec == Spec /\ Fairness

-----------------------------------------------------------------------------
(* Properties.                                                             *)

\* The ratchet's key is gone once the engine's state is written, so a stored
\* key that was used must go with a message the app has stored too, or one the
\* engine will deliver again: no crash, no failed write and no error of the
\* ratchet loses a message that was decrypted as it arrived, or a text, but for
\* what a retry had in its hands when it broke.
DecryptedIsKept ==
    disk.used \ late \subseteq saved.shown \cup disk.deliveries

\* The same for everything that is decrypted, on arrival or by a retry.
EverythingDecryptedIsKept == disk.used \subseteq saved.shown \cup disk.deliveries

\* An error that ends a retry drops the whole queue; the message servers then
\* are the only ones to have its messages, and they are heard only because
\* nothing that waits has been marked as seen, unless it is shown already, or
\* was never to be.
WaitingIsUnseen == engine.pending \cap app.seen \subseteq app.shown \cup Broken \cup late

\* Memory still knows what became of x.
Traced(x) == x \in engine.used \cup (late \cap app.seen) => x \in app.shown \cup engine.deliveries

\* Every message of a known sender that no crash and no error has made away with
\* gets stored in the end, over failed writes, restarts and queues.
EventuallyShown ==
    \A x \in Events \ Broken :
        <>[](phase # "down" /\ engine.peers[Sender[x]] = "ready" /\ Traced(x))
            => <>(x \in saved.shown)
=============================================================================
