-------------------------- MODULE GroupSenderKeys --------------------------
(***************************************************************************)
(* Group messages and the keys they need                                   *)
(* (chat-protocol/src/protocol_engine/engine_sender_key_repair.rs and      *)
(* engine_incoming_retry.rs).                                              *)
(*                                                                         *)
(* A member encrypts a group message once, under a sender key, and hands    *)
(* the key to the other members pair by pair.  Messages, keys and changes  *)
(* of the group come in any order.  A message without its key waits in the  *)
(* engine, marked as seen; the key is asked for again and again until the   *)
(* sender's device answers.  Whatever changes the keys or the group takes   *)
(* the queue out and tries every message; an error leaves the rest behind.  *)
(*                                                                         *)
(* The group is one; time is abstract: a request sent is due again at some  *)
(* later moment.  The order of the queue is left open.  The group manager   *)
(* and the sender's device are external.                                   *)
(***************************************************************************)
EXTENDS Naturals, FiniteSets

CONSTANTS
    Messages,    \* group messages the message servers hold
    Keys,        \* sender keys
    Senders,     \* the devices, by the key that signs what they send
    Owner,       \* Owner[k]: whose key k is
    KeyOf,       \* KeyOf[m]: the key m is encrypted under
    Time,        \* Time[m], Time[k]: the second m was sent, k was handed out
    Hidden,      \* messages whose header, with their position, is encrypted
    Late,        \* messages that need the last revision with this user in the group
    Content,     \* Content[m]: what m turns out to be: "text", "ignored", "broken"
    Given,       \* keys their owner hands to this device when asked
    Copied,      \* messages that are also delivered pair by pair
    Revisions,   \* the group's last revision
    MemberUntil, \* the last one with this user in the group
    Anywhere, NoMessage,
    LongBatches, \* whether a batch may have several inputs
    MaxFaults,   \* bound: how many faults may happen
    Kinds,       \* which: "crash", "ask", "loss", "copy"
    OtherWork    \* whether the engine may have other work that is due

Sender(m) == Owner[KeyOf[m]]

ASSUME MessageAssumption ==
    /\ Owner \in [Keys -> Senders] /\ KeyOf \in [Messages -> Keys]
    /\ Time \in [Messages \cup Keys -> Nat]
    /\ Content \in [Messages -> {"text", "ignored", "broken"}]
    /\ Hidden \subseteq Messages /\ Late \subseteq Messages
    /\ Given \subseteq Keys /\ Copied \subseteq Messages
    /\ MemberUntil \in 1 .. Revisions /\ Revisions \in Nat
    /\ Anywhere \notin Messages /\ NoMessage \notin Messages

Positions == Messages \cup {Anywhere}

\* ProtocolPendingGroupSenderKeyRepair, as a request names it: whose key, for
\* which message, and whether the key or a revision of the group is missing.
Repairs == [sender : Senders, at : Positions, need : {"key", "revision"}]

VARIABLES
    phase,     \* where the actor is, see Phases
    engine,    \* the engine's memory, see EngineType
    disk,      \* its stored state
    dirty,     \* batch_persist_dirty
    direct,    \* the engine was created inside the running batch and writes at once
    work,      \* the running retry, see WorkType
    shown,     \* rows of the chat; a text writes its row when it is applied
    seen,      \* seen_event_ids
    stored,    \* what of it has been saved
    mail,      \* keys and revisions the message servers hold for this device
    asking,    \* requests on their way to the senders' devices
    faults,    \* faults so far: crashes, requests that failed, answers that were
               \* lost, and copies
    throttled, \* answered_group_sender_key_repairs of the senders, not yet over
    lost       \* history: what a failed write, an error or the end of a process
               \* took out of a queue or away from the chat

vars == <<phase, engine, disk, dirty, direct, work, shown, seen, stored, mail,
          asking, throttled, faults, lost>>

\* idle, open: between two messages of the mailbox, without and with a batch;
\* retry: in retry_pending_group_inputs; flushed: the engine has been written.
Phases == {"down", "idle", "open", "retry", "flushed"}

EngineType == [keys : SUBSET Keys,
               rev : 0 .. Revisions,             \* 0: the group is not known
               inputs : SUBSET Keys,             \* pending_group_pairwise_payloads
               waiting : SUBSET Messages,        \* pending_group_sender_key_messages
               repairs : SUBSET Repairs,         \* pending_group_sender_key_repairs
               asked : SUBSET Repairs,           \* the ones not due yet
               acks : SUBSET (Senders \X Nat),   \* delivered_group_sender_key_acks
               used : SUBSET Messages]           \* what the keys have opened

\* The queue taken out, what goes back, what was opened, the requests to send,
\* persist_needed, and the message whose arrival started the retry.
WorkType == [todo : SUBSET Messages, keep : SUBSET Messages, got : SUBSET Messages,
             asks : SUBSET Repairs, wrote : BOOLEAN, from : Messages \cup {NoMessage}]

NoWork == [todo |-> {}, keep |-> {}, got |-> {}, asks |-> {}, wrote |-> FALSE,
           from |-> NoMessage]

\* The types of the variables.  Only a request that is kept has a date.
TypeOK ==
    /\ phase \in Phases
    /\ engine \in EngineType /\ disk \in EngineType
    /\ engine.asked \subseteq engine.repairs /\ disk.asked \subseteq disk.repairs
    /\ {dirty, direct} \subseteq BOOLEAN
    /\ work \in WorkType /\ (phase # "retry" => work = NoWork)
    /\ {shown, seen, stored, lost} \subseteq SUBSET Messages
    /\ mail \subseteq Keys \cup 1 .. Revisions
    /\ asking \subseteq Repairs /\ throttled \subseteq Repairs
    /\ faults \in Nat

Init ==
    /\ phase = "idle" /\ dirty = FALSE /\ direct = FALSE /\ work = NoWork
    /\ engine = [keys |-> {}, rev |-> 0, inputs |-> {}, waiting |-> {}, repairs |-> {},
                 asked |-> {}, acks |-> {}, used |-> {}]
    /\ disk = engine
    /\ shown = {} /\ seen = {} /\ stored = {} /\ lost = {}
    \* One of the keys may have been lost before.
    /\ \E L \in SUBSET Keys :
           /\ Cardinality(L) <= IF "loss" \in Kinds THEN 1 ELSE 0
           /\ mail = (Keys \cup 1 .. Revisions) \ L
    /\ asking = {} /\ throttled = {} /\ faults = 0

-----------------------------------------------------------------------------
(* What the engine knows of a message.                                     *)

\* local_owner_is_inactive_for_group, negated.
Member(e) == e.rev <= MemberUntil

KeysOf(e, m) == {k \in e.keys : Owner[k] = Sender(m)}

\* group_id_for_sender_event_pubkey knows the sender.
Mapped(e, m) == KeysOf(e, m) # {}

\* pending_group_sender_key_candidate_predates_known_distribution.
Predates(e, m) == Mapped(e, m) /\ \A k \in KeysOf(e, m) : Time[m] < Time[k]

\* GroupManager::handle_sender_key_message: what is missing, "gone" (duplicate or
\* missing sender-key message), or what the message is.  A key opens only what
\* is sent after it was handed out.
Outcome(e, m) ==
    IF KeyOf[m] \notin e.keys THEN "key"
    ELSE IF m \in e.used \/ Time[m] < Time[KeyOf[m]] THEN "gone"
    ELSE IF m \in Late /\ e.rev < MemberUntil THEN "revision"
    ELSE Content[m]

Pending(e, m) == Outcome(e, m) \in {"key", "revision"}

Position(m) == IF m \in Hidden THEN Anywhere ELSE m

\* SenderKeyRepairRequest::from_pending_sender_key_message.
RepairFor(e, m) ==
    [sender |-> Sender(m), at |-> Position(m), need |-> Outcome(e, m)]

-----------------------------------------------------------------------------
(* Requests.                                                               *)

\* Mutant: the date of a cleared request stays.
ClearRepairsKeepingDates(e, s, at) ==
    [e EXCEPT !.repairs = {r \in @ : r.sender # s \/ (at # Anywhere /\ r.at # at)}]

\* clear_group_sender_key_repairs: those of one position, or all of the sender.
ClearRepairs(e, s, at) ==
    LET Other(R) == {r \in R : r.sender # s \/ (at # Anywhere /\ r.at # at)}
    IN  [e EXCEPT !.repairs = Other(@), !.asked = Other(@)]

\* sender_key_repair_request_effects, where nothing fails.
Asked(e, r) ==
    IF Member(e) THEN [e EXCEPT !.repairs = @ \cup {r}, !.asked = @ \cup {r}]
    ELSE ClearRepairs(e, r.sender, r.at)

\* Mutant: what has been asked for is not asked for again.
SentOnce(e, r) == IF Member(e) THEN {r} \ e.repairs ELSE {}

\* The request it sends, if it is due.
Sent(e, r) == IF Member(e) THEN {r} \ e.asked ELSE {}

\* The same, when the request cannot be made: it is kept as due.
AskFails(e, r) == Sent(e, r) # {}
NotAsked(e, r) == [e EXCEPT !.repairs = @ \cup {r}]

\* handle_group_sender_key_message for what is not pending.
Handled(e, m) ==
    ClearRepairs([e EXCEPT !.used =
                      IF Outcome(e, m) = "gone" THEN @ ELSE @ \cup {m}],
                 Sender(m), Position(m))

\* acknowledge_delivered_group_sender_key_message for each of M: what waits and was
\* sent by the same device in the same second is taken for the same message.
Acknowledged(e, M) ==
    LET Of     == {m \in M : Mapped(e, m)}
        rest   == {n \in e.waiting : \A m \in Of : Sender(n) = Sender(m) => Time[n] # Time[m]}
        Free(r) == /\ \E n \in e.waiting \ rest : Sender(n) = r.sender
                   /\ \A n \in rest : Sender(n) # r.sender
    IN  [e EXCEPT !.acks = @ \cup {<<Sender(m), Time[m]>> : m \in Of},
                  !.waiting = rest,
                  !.repairs = {r \in @ : ~Free(r)}, !.asked = {r \in @ : ~Free(r)}]

\* queue_pending_group_sender_key_message.
Queued(e, m) ==
    LET known == Mapped(e, m)
        alone == \A n \in e.waiting : Sender(n) # Sender(m)
    IN  IF known /\ <<Sender(m), Time[m]>> \in e.acks
        THEN IF alone THEN ClearRepairs(e, Sender(m), Anywhere) ELSE e
        ELSE IF known /\ ~Member(e) THEN ClearRepairs(e, Sender(m), Position(m))
        ELSE [e EXCEPT !.waiting = @ \cup {m}]

-----------------------------------------------------------------------------
(* What the handlers share.                                                *)

Fault(kind) == kind \in Kinds /\ faults < MaxFaults /\ faults' = faults + 1

\* persist, called with the engine in state e: at once, or at the batch's end.
Writes(e, wrote) ==
    /\ disk' = IF direct /\ wrote THEN e ELSE disk
    /\ dirty' = (dirty \/ (wrote /\ ~direct))

\* A batch has one input, or any number of them.
InBatch == phase = "idle" \/ (phase = "open" /\ LongBatches)

\* retry_pending_group_inputs takes the queue of e out.
Begin(e, from, got, wrote) ==
    /\ phase' = "retry"
    /\ engine' = [e EXCEPT !.waiting = {}]
    /\ work' = [NoWork EXCEPT !.todo = e.waiting, !.from = from, !.got = got, !.wrote = wrote]

\* A handler that returns an error: the rest of the queue is not put back, what
\* was opened is not handed out, requests are not sent.  What is put back is not
\* written, so it is stored only where nothing has been written meanwhile.
Breaks(e) ==
    /\ phase' = "open" /\ work' = NoWork
    /\ engine' = e
    /\ lost' = lost \cup work.got \cup
                 ((work.todo \cup work.keep) \ {m \in e.waiting : direct => m \in disk.waiting})
    /\ UNCHANGED <<disk, dirty, direct, shown, seen, stored, mail, asking, throttled>>

-----------------------------------------------------------------------------
(* A group message arrives: process_group_outer_event.                     *)

\* Nothing is known of its sender: it waits, and is remembered as seen.
ReceiveUnmapped(m) ==
    /\ InBatch /\ m \notin seen /\ ~Mapped(engine, m)
    /\ phase' = "open" /\ seen' = seen \cup {m}
    /\ engine' = [engine EXCEPT !.waiting = @ \cup {m}]
    /\ Writes(engine', m \notin engine.waiting)
    /\ UNCHANGED <<direct, work, shown, stored, mail, asking, throttled, lost, faults>>

\* Its key or its revision is missing: that is asked for, and it waits, unless it
\* has been delivered already or the group has been left.
ReceivePending(m) ==
    LET r == RepairFor(engine, m)
        e == Asked(engine, r)
    IN  /\ InBatch /\ m \notin seen /\ Mapped(engine, m) /\ Pending(engine, m)
        /\ phase' = "open" /\ seen' = seen \cup {m}
        /\ engine' = Queued(e, m)
        /\ asking' = asking \cup Sent(engine, r)
        /\ Writes(engine', engine' # e \/ (~Member(e) /\ e # engine))
        /\ UNCHANGED <<direct, work, shown, stored, mail, throttled, lost, faults>>

\* The request fails: the message is an error and not remembered.
ReceiveAskFails(m) ==
    LET r == RepairFor(engine, m)
    IN  /\ InBatch /\ m \notin seen /\ Mapped(engine, m) /\ Pending(engine, m)
        /\ AskFails(engine, r) /\ Fault("ask")
        /\ phase' = "open" /\ engine' = NotAsked(engine, r)
        /\ UNCHANGED <<disk, dirty, direct, work, shown, seen, stored, mail, asking,
                       throttled, lost>>

\* It opens, or never will: what waits is tried again.  (A broken one is an error
\* that changes nothing.)
ReceiveHandled(m) ==
    LET e == [Handled(engine, m) EXCEPT !.waiting = @ \ {m}]
        o == Outcome(engine, m)
    IN  /\ InBatch /\ m \notin seen /\ o \in {"text", "ignored", "gone"}
        /\ Begin(e, m, IF o = "text" THEN {m} ELSE {}, FALSE)
        /\ Writes(e, o # "ignored" \/ m \in engine.waiting)
        /\ UNCHANGED <<direct, shown, seen, stored, mail, asking, throttled, lost, faults>>

-----------------------------------------------------------------------------
(* retry_pending_group_inputs, message by message.                         *)

\* The group has been left, or the message is older than every key known.
TryDropped(m) ==
    /\ phase = "retry" /\ m \in work.todo
    /\ Mapped(engine, m) /\ (~Member(engine) \/ Predates(engine, m))
    /\ work' = [work EXCEPT !.todo = @ \ {m}, !.wrote = TRUE]
    /\ UNCHANGED <<phase, engine, disk, dirty, direct, shown, seen, stored, mail,
                   asking, throttled, lost, faults>>

Tried(m) ==
    /\ phase = "retry" /\ m \in work.todo
    /\ Mapped(engine, m) /\ Member(engine) /\ ~Predates(engine, m)

\* Its sender is not known yet.
TryUnmapped(m) ==
    /\ phase = "retry" /\ m \in work.todo /\ ~Mapped(engine, m)
    /\ work' = [work EXCEPT !.todo = @ \ {m}, !.keep = @ \cup {m}]
    /\ UNCHANGED <<phase, engine, disk, dirty, direct, shown, seen, stored, mail,
                   asking, throttled, lost, faults>>

TryPending(m) ==
    LET r == RepairFor(engine, m)
    IN  /\ Tried(m) /\ Pending(engine, m)
        /\ engine' = Asked(engine, r)
        /\ work' = [work EXCEPT !.todo = @ \ {m}, !.keep = @ \cup {m},
                                !.asks = @ \cup Sent(engine, r)]
        /\ UNCHANGED <<phase, disk, dirty, direct, shown, seen, stored, mail, asking,
                       throttled, lost, faults>>

\* It opens or is done with; the engine is written with its queue taken out.
TryHandled(m) ==
    LET o == Outcome(engine, m)
    IN  /\ Tried(m) /\ o \in {"text", "ignored", "gone"}
        /\ engine' = Handled(engine, m)
        /\ work' = [work EXCEPT !.todo = @ \ {m}, !.wrote = TRUE,
                                !.got = IF o = "text" THEN @ \cup {m} ELSE @]
        /\ Writes(engine', o # "ignored")
        /\ UNCHANGED <<phase, direct, shown, seen, stored, mail, asking, throttled, lost, faults>>

TryBreaks(m) ==
    LET r == RepairFor(engine, m)
    IN  /\ Tried(m)
        /\ \/ Outcome(engine, m) = "broken" /\ Breaks(engine) /\ UNCHANGED faults
           \/ /\ Pending(engine, m) /\ AskFails(engine, r) /\ Fault("ask")
              /\ Breaks(NotAsked(engine, r))

Try(m) == TryDropped(m) \/ TryUnmapped(m) \/ TryPending(m) \/ TryHandled(m)

\* What is kept is put back; retry_pending_group_sender_key_repairs asks again for
\* what is due, or clears it when the group has been left.
PutBack == [engine EXCEPT !.waiting = work.keep]

Due(e) == e.repairs \ e.asked

\* Mutant: requests for a group that has been left stay.
AskedAgainAsAnyone(e) == [e EXCEPT !.asked = e.repairs]

AskedAgain(e) ==
    LET Other(R) == {r \in R : \A d \in Due(e) :
                         d.sender = r.sender => d.at \notin {Anywhere, r.at}}
    IN  IF Member(e) THEN [e EXCEPT !.asked = e.repairs]
        ELSE [e EXCEPT !.repairs = Other(@), !.asked = Other(@)]

\* Mutant: what was opened by its arrival is not among the events.
RetryEndsForgetting ==
    LET e    == AskedAgain(PutBack)
        asks == work.asks \cup IF Member(e) THEN Due(PutBack) ELSE {}
        got  == work.got \ {work.from}
    IN  /\ phase = "retry" /\ work.todo = {}
        /\ phase' = "open" /\ work' = NoWork
        /\ engine' = Acknowledged(e, got)
        /\ shown' = shown \cup got
        /\ seen' = seen \cup ({work.from} \ {NoMessage})
        /\ asking' = asking \cup asks
        /\ Writes(engine', work.wrote \/ asks # {} \/ engine' # PutBack)
        /\ UNCHANGED <<direct, stored, mail, throttled, lost, faults>>

\* The events are applied (apply_group_decrypted_event), the requests sent, and
\* the message that started it remembered.
RetryEnds ==
    LET e    == AskedAgain(PutBack)
        asks == work.asks \cup IF Member(e) THEN Due(PutBack) ELSE {}
    IN  /\ phase = "retry" /\ work.todo = {}
        /\ phase' = "open" /\ work' = NoWork
        /\ engine' = Acknowledged(e, work.got)
        /\ shown' = shown \cup work.got
        /\ seen' = seen \cup ({work.from} \ {NoMessage})
        /\ asking' = asking \cup asks
        /\ Writes(engine', work.wrote \/ asks # {} \/ engine' # PutBack)
        /\ UNCHANGED <<direct, stored, mail, throttled, lost, faults>>

\* One of the requests fails, after D have been prepared.
RetryEndBreaks(D) ==
    /\ phase = "retry" /\ work.todo = {}
    /\ Fault("ask") /\ Member(engine)
    /\ D \subseteq Due(PutBack) /\ D # Due(PutBack)
    /\ Breaks([PutBack EXCEPT !.asked = @ \cup D])

-----------------------------------------------------------------------------
(* The other inputs.                                                       *)

\* Mutant: what waits is not tried with the new key.
DistributionUntried(k) ==
    /\ InBatch /\ k \in mail \ (engine.keys \cup engine.inputs)
    /\ engine' = [engine EXCEPT !.keys = @ \cup {k}]
    /\ phase' = "open" /\ Writes(engine, TRUE)
    /\ UNCHANGED <<direct, work, shown, seen, stored, mail, asking, throttled, lost, faults>>

\* A key arrives: process_group_pairwise_payload, which writes the engine in the
\* end whatever the retry did.  Without the group it waits.
Distribution(k) ==
    /\ InBatch /\ k \in mail \ (engine.keys \cup engine.inputs)
    /\ IF engine.rev = 0
       THEN /\ engine' = [engine EXCEPT !.inputs = @ \cup {k}]
            /\ phase' = "open" /\ Writes(engine', TRUE) /\ UNCHANGED work
       ELSE /\ Begin([engine EXCEPT !.keys = @ \cup {k}], NoMessage, {}, TRUE)
            /\ Writes(engine, TRUE)
    /\ UNCHANGED <<direct, shown, seen, stored, mail, asking, throttled, lost, faults>>

\* A newer revision of the group arrives: keys that wait for the group are taken.
Metadata(r) ==
    /\ InBatch /\ r \in mail /\ r > engine.rev
    /\ Begin([engine EXCEPT !.rev = r, !.keys = @ \cup engine.inputs, !.inputs = {}],
             NoMessage, {}, TRUE)
    /\ Writes(engine, TRUE)
    /\ UNCHANGED <<direct, shown, seen, stored, mail, asking, throttled, lost, faults>>

\* The same message, delivered pair by pair.
Copy(m) ==
    /\ InBatch /\ m \in Copied \ shown /\ Fault("copy")
    /\ phase' = "open" /\ shown' = shown \cup {m}
    /\ engine' = Acknowledged(engine, {m}) /\ Writes(engine', TRUE)
    /\ UNCHANGED <<direct, work, seen, stored, mail, asking, throttled, lost>>

\* has_due_pending_retry_work: messages that wait do not count, requests do.
HasDue(e) == e.inputs # {} \/ Due(e) # {}

\* retry_protocol_engine_pending_outbound, from the liveness check and elsewhere;
\* other work of the engine may be what is due.
Retry ==
    /\ InBatch /\ (HasDue(engine) \/ OtherWork)
    /\ Begin(engine, NoMessage, {}, FALSE)
    /\ UNCHANGED <<disk, dirty, direct, shown, seen, stored, mail, asking, throttled, lost, faults>>

\* PROTOCOL_SENDER_KEY_REPAIR_RETRY_DELAYS_SECS have passed for R.
RequestsAge(R) ==
    /\ phase = "idle" /\ R # {} /\ R \subseteq engine.asked
    /\ engine' = [engine EXCEPT !.asked = @ \ R]
    /\ UNCHANGED <<phase, disk, dirty, direct, work, shown, seen, stored, mail, asking,
                   throttled, lost, faults>>

-----------------------------------------------------------------------------
(* Batches and the process.                                                *)

\* ProtocolEngine::exit_batch.
FlushEngine ==
    /\ phase = "open" /\ phase' = "flushed"
    /\ disk' = IF dirty THEN engine ELSE disk
    /\ dirty' = FALSE
    /\ UNCHANGED <<engine, direct, work, shown, seen, stored, mail, asking, throttled, lost, faults>>

\* persist_best_effort_inner.
SaveApp ==
    /\ phase = "flushed" /\ phase' = "idle"
    /\ stored' = seen /\ direct' = FALSE
    /\ UNCHANGED <<engine, disk, dirty, work, shown, seen, mail, asking, throttled, lost, faults>>

\* What a retry that writes at once has taken out is not stored.
InHand == IF direct THEN work.todo \cup work.keep \cup work.got ELSE {}

Crash ==
    /\ phase # "down" /\ phase' = "down"
    /\ Fault("crash")
    /\ engine' = disk /\ seen' = stored
    /\ dirty' = FALSE /\ direct' = FALSE /\ work' = NoWork
    /\ lost' = lost \cup InHand
    /\ UNCHANGED <<disk, shown, stored, mail, asking, throttled>>

\* prune_pending_group_sender_key_work_for_inactive_local_groups.
Pruned(e) ==
    IF Member(e) THEN e
    ELSE [e EXCEPT !.waiting = {m \in @ : ~Mapped(e, m)}, !.repairs = {}, !.asked = {}]

\* The engine is loaded, pruned and written, and what is due is tried.
Restart ==
    LET e == Pruned(disk)
    IN  /\ phase = "down" /\ direct' = TRUE /\ disk' = e
        /\ IF HasDue(e) THEN Begin(e, NoMessage, {}, FALSE)
           ELSE phase' = "open" /\ engine' = e /\ UNCHANGED work
        /\ UNCHANGED <<dirty, shown, seen, stored, mail, asking, throttled, lost, faults>>

-----------------------------------------------------------------------------
(* The message servers and the senders' devices.                           *)

\* What the sender's group manager answers a request with.
Answers(r) ==
    IF r.need = "revision" THEN {MemberUntil}
    ELSE {k \in Given : Owner[k] = r.sender /\ (r.at = Anywhere \/ KeyOf[r.at] = k)}

\* sender_key_repair_response_effects: not twice within a delay, which is the one
\* between two requests, so the request after one that is dropped is answered.
\* What is sent may be lost.
Answer(r, arrives) ==
    /\ r \in asking
    /\ IF arrives THEN UNCHANGED faults ELSE Fault("loss")
    /\ asking' = asking \ {r}
    /\ IF r \in throttled THEN throttled' = throttled \ {r} /\ UNCHANGED mail
       ELSE /\ mail' = IF arrives THEN mail \cup Answers(r) ELSE mail
            /\ throttled' = IF Answers(r) = {} THEN throttled ELSE throttled \cup {r}
    /\ UNCHANGED <<phase, engine, disk, dirty, direct, work, shown, seen, stored, lost>>

ThrottleEnds(r) ==
    /\ phase = "idle" /\ r \in throttled
    /\ throttled' = throttled \ {r}
    /\ UNCHANGED <<phase, engine, disk, dirty, direct, work, shown, seen, stored, mail,
                   asking, lost, faults>>

-----------------------------------------------------------------------------
Receive(m) ==
    ReceiveUnmapped(m) \/ ReceivePending(m) \/ ReceiveAskFails(m) \/ ReceiveHandled(m)

Deliver(x) == (x \in Keys /\ Distribution(x)) \/ (x \in 1 .. Revisions /\ Metadata(x))

RetryStep == (\E m \in Messages : Try(m) \/ TryBreaks(m)) \/ RetryEnds

Next ==
    \/ \E m \in Messages : Receive(m) \/ Copy(m)
    \/ RetryStep
    \/ \E D \in SUBSET Due(engine) : RetryEndBreaks(D)
    \/ \E x \in Keys \cup 1 .. Revisions : Deliver(x)
    \/ Retry
    \/ FlushEngine \/ SaveApp
    \/ Crash
    \/ Restart
    \/ \E R \in SUBSET engine.asked : RequestsAge(R)
    \/ \E r \in Repairs : ThrottleEnds(r)
    \/ \E r \in Repairs, arrives \in BOOLEAN : Answer(r, arrives)

Spec == Init /\ [][Next]_vars

\* The actor works, batches end and the process is started again; time passes and
\* the liveness check comes again; the message servers deliver what they hold
\* (but the group need not be left); the senders' devices answer, and losses come
\* to an end.
Fairness ==
    /\ WF_vars(RetryStep) /\ WF_vars(FlushEngine) /\ WF_vars(SaveApp)
    /\ WF_vars(Restart) /\ SF_vars(HasDue(engine) /\ Retry)
    /\ SF_vars(RequestsAge(engine.asked))
    /\ SF_vars(\E x \in Keys \cup 1 .. MemberUntil : Deliver(x))
    /\ \A r \in Repairs : WF_vars(Answer(r, TRUE))

FairSpec == Spec /\ Fairness

-----------------------------------------------------------------------------
(* Properties.                                                             *)

Held == engine.waiting \cup work.todo \cup work.keep

\* What the engine may have given up: in a group that was left, for a message of
\* the same second, or because a key of the sender is newer than the message.
GivenUp(e, m) ==
    \/ ~Member(e)
    \/ <<Sender(m), Time[m]>> \in e.acks
    \/ \E k \in KeysOf(e, m) : Time[m] < Time[k]

\* The engine is done with a message of s whose header is hidden: taking it cleared
\* every request for the keys of s.
Cleared(e, s) == \E n \in Hidden : Sender(n) = s /\ Outcome(e, n) = "gone"

\* A message is remembered as seen while it waits, so no message server delivers
\* it again, and the engine's store is the only place that still has it; and a key
\* opens a message once.  A text that has been seen is shown or waits there, or has
\* been given up, and one that the stored engine has opened is a row of the chat,
\* whatever is lost between the two writes or queued, but for what an error or a
\* failed write made away with.
SeenIsKept ==
    \A m \in stored :
        \/ m \in shown \cup disk.waiting \cup lost \cup InHand
        \/ Content[m] # "text" \/ GivenUp(disk, m)
OpenedIsShown ==
    \A m \in disk.used : m \in shown \cup lost \cup InHand \/ Content[m] # "text"
TextsAreKept == SeenIsKept /\ OpenedIsShown

\* Messages that wait do not make the engine try again, only requests do: a message
\* whose sender is known waits with a request, which stays until it is answered,
\* unless another message of the sender, with a hidden header, has been opened, or
\* can no longer be, and has cleared it.
WaitingIsAsked ==
    \A m \in engine.waiting :
        Mapped(engine, m) /\ Member(engine) =>
            \/ \E r \in engine.repairs : r.sender = Sender(m) /\ r.at = Position(m)
            \/ Cleared(engine, Sender(m))

\* Whatever is lost on the way, and however often the process ends, a message whose
\* sender hands out its key is not left waiting, once its sender is known.
EventuallyServed ==
    \A m \in Messages :
        KeyOf[m] \in Given =>
            ~<>[](/\ phase # "down" /\ m \in Held /\ Mapped(engine, m) /\ Member(engine)
                  /\ ~Cleared(engine, Sender(m)))

\* After the group has been left, asking for its keys comes to an end.
LeftIsQuiet ==
    <>[](phase # "down" /\ ~Member(engine)) => <>[](engine.repairs = {} /\ asking = {})
=============================================================================
