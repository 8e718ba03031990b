# Iris chat core: TLA+ verification

This directory holds TLA+ models of the core of Iris chat (`core/` and `chat-protocol/` of the repository) and of what
it meets at its borders (a native shell, other hosts of its engine, computers nearby), the TLC runs that check them on
small instances, and theorems about them that TLAPS proves for every instance.

| module | what it is | proofs |
| --- | --- | --- |
| `RelayPublish` | the durable queue of events to publish and the drain that empties it | `RelayPublishProofs` |
| `PublishOutbox` | what that queue promises, without drains, tokens, workers and retries | (refinement, same module) |
| `ProtocolSubscription` | keeping one subscription open: connects, apply tasks, the liveness timer | `ProtocolSubscriptionProofs` |
| `ProtocolInbound` | a message's way from the servers through the engine's store and the app's into the chat | `ProtocolInboundProofs` |
| `ProtocolOutbound` | a message's way from the user to the peer's and the user's own devices, and what the chat says of it | `ProtocolOutboundProofs` |
| `GroupSenderKeys` | group messages, the keys they wait for and the requests for those keys | `GroupSenderKeysProofs` |
| `ChatThread` | one direct chat: its rows, badge, statuses, receipts and the expiry of messages | `ChatThreadProofs` |
| `AppStore` | how memory gets into SQLite: fingerprints, saves and the writes between them | `AppStoreProofs` |
| `ActorShell` | the core's actor, its supervisor, the listener and the window of a native shell | `ActorShellProofs` |
| `EngineHosts` | the two other programs that run the engine: the direct message service and the FFI handle | `RelayPublishProofs`, second half |
| `NearbyMailbag` | how events travel between computers in a local network | `ProtocolInboundProofs`, second half |

`MC*` are instances for TLC; every `.cfg` belongs to the `MC` module its name starts with. Three of them
(`MCPublishNearby`, `MCPublishStore`, `MCOutboundChat`) hold instances of two or three modules that share no state: a
variable `part` says which of them moves in a behaviour, the others stay in one initial state. A property of a module
is about the behaviours of its part and holds of the others because it holds at the start; where nothing moves,
nothing that fairness asks for is enabled.

Run `tlc -config X.cfg M` for a run of `PROJECT.json`, `tlapm M.tla` for a proof module. Line numbers below and in
`PROJECT.json` are those of the repository's files.

---

## 1. The system

Iris chat is an encrypted messenger on Nostr message servers ("relays"), with the double ratchet between devices.
The Rust core owns all application state (ARCHITECTURE.md); the native shells render snapshots of it and send it
actions. The core is **one actor**, `AppCore`: shells, timers, network tasks and the relay client put messages into
its mailboxes and it handles them one at a time, in batches. Everything that takes time is a tokio task that reports
back by message, and every report crosses whatever the actor has done meanwhile. That crossing, and the process being
stopped at any moment by a phone's operating system, is where this code is hard.

| component | state | operations | properties that make it correct | modelled in |
| --- | --- | --- | --- | --- |
| Durable publish queue (`core/publishing.rs`, table `pending_relay_publishes`) | the rows; a copy in memory; the in-flight set; the drain's `in_flight`, `dirty`, `started_at`, `token`; worker tasks | publish, retry, progress, finished, drain finished, load at start | what was handed to it stays stored until a server has it or a newer event replaces it; it is retried until then; the in-flight set never strands an event | `RelayPublish` |
| Relay transport, liveness timer (`core/protocol.rs`, `protocol/retry_helpers.rs`) | statuses by url, `connect_in_flight/dirty/started_at/token`, back-off, `protocol_liveness_token`, `liveness_due_at` | request, connect, finished, status changed, schedule, check | one connect at a time; the timer every retry rests on is always armed; cached statuses become right | `ProtocolSubscription` |
| Subscription reconcile (`core/protocol.rs`) | desired, applying and applied plan; `refresh_in_flight/dirty`, `reconcile_token` | refresh, reconcile, apply task, completion | the plan called for is held at the connected servers in the end; no old completion counts; the busy flag goes out | `ProtocolSubscription` |
| Engine, incoming (`protocol_engine/engine_core`, `engine_incoming_retry`; `core/relay.rs`) | session manager, `pending_inbound`, `pending_decrypted_deliveries`, seen events | receive, retry, wake by protocol input, acknowledge | what is decrypted is shown or delivered again, over crashes and failed writes; what waits is taken up | `ProtocolInbound` |
| Engine, outgoing (`engine_sends`, `engine_queue_filters`) | `pending_outbound`, group payloads and fanouts | send, queue, retry, drop, checkpoint and restore | each message is encrypted once for each device that needs it; nothing queued is dropped; what is shown as sent has reached somebody | `ProtocolOutbound` (direct messages) |
| Engine, sender-key repair (`engine_sender_key_repair`) | requests, answered and acknowledged lists, waiting messages | request with back-off, answer, throttle, acknowledge | a missing key is asked for until it comes; a group that was left is quiet; no text is lost while it waits | `GroupSenderKeys` |
| Batches and app persistence (`core/projection.rs:985-1049`, `core/persistence.rs`) | `batch_depth`, dirty marks of UI, engine and app state | enter, exit, flush engine, save app, acknowledge | the order of the writes loses nothing at a crash | `ProtocolInbound`, `ProtocolOutbound`, `GroupSenderKeys`, `ChatThread` (the order), `AppStore` (what a save writes) |
| Receipts, expiry (`chat_receipts.rs`, `message_expiry.rs`) | held and batched receipts, two timers | hold back, send at the end of a batch, expire | no receipt that is out of date or unwanted; a timer as long as there is work for it | `ChatThread` |
| Chats and projection (`chats.rs`, `projection.rs`) | rows, unread count, requests, delivery states | send, apply, read, accept, delete | the badge and the statuses are true over restarts | `ChatThread`, `ProtocolOutbound` (delivery state) |
| SQLite storage (`storage/store.rs`) | tables, fingerprints, window of seen events | load, save, single-row writes, clear | a save writes what differs | `AppStore`, `RelayPublish` (its own table) |
| Actor shell, snapshots (`lib.rs`, `updates.rs`, `linux/src/app_manager.rs`) | `rev`, mailboxes, the last login, the secret store | batch, emit, forward the latest, drop stale, rebuild after a panic | the window ends up showing what the core published; keys are stored before their account is shown and gone after a logout | `ActorShell` |
| Account sessions (`account.rs`, `lifecycle.rs`) | the logged-in state, generations | start, suspend, foreground, log out, edit servers | a session starts from what the last one stored | as far as they touch the models |
| Other hosts of the engine (`direct_messages.rs`, `protocol-ffi/src/lib.rs`) | rows and seen events; a queue of things to tell | activate, receive, send; drain | engine and host agree on each message | `EngineHosts` |
| Nearby (`desktop_nearby.rs`) | connections, two mailbags, nonces | hello, offer, ask, carry | neighbours end up with each other's events | `NearbyMailbag` |
| Device lists and pairing (`account.rs`, `chat_settings.rs`), typing, group administration, mobile push, attachments, updates | | | | not modelled, section 14 |

**How they interact.** `AppCore` calls the engine directly and in the same handler turns the engine's effects into
publishes (`publish_runtime_event`). The publish queue, the subscription and the engine share one timer: the liveness
check retries all three, and each schedules it. A relay's status change reconciles the subscription, retries the
engine and drains the queue. Sessions reset the runtimes of transport and subscription, load the queue and the engine
from storage, and leave old tasks running. The shell sees the core only through the updates of its batches.

**What is hard.** (1) Reports of tasks from before a reset, whose token a fresh runtime hands out again. (2) Flags
such as `in_flight` and `dirty` that different handlers set and clear; one that stays set silences a retry for the
session. (3) Two stores written one after the other, with the key of a message given up in the first. (4) Queues that
are taken out of the engine while they are worked on. (5) Writes that fail after memory has changed, and a save that
skips what a cached fingerprint says is unchanged. (6) Servers that drop, accept twice, answer late or never, and
deliver in any order. (7) States numbered by the core and changed by the shell under the same number. `PROJECT.json`
lists each at its line with the properties that cover it.

---

## 2. The plan

**How it was built.** The publish queue first, against its abstract specification, since everything the core says
leaves through it; then the subscription with the timer all retries share; then a message's way in and its way out,
group messages, and the chat that shows them; at last the borders: storage, shell, other hosts, computers nearby. Each
module was written to be proved about: constants with assumptions, one action per operation, no recursive operator.
Every invariant and every action property that a run checks is also a theorem.

**Left, in this order.**

1. **Device lists and pairing** (`account.rs`, `chat_settings.rs`, `engine_resolution.rs`): edits, backfills and
   removals of a user's own device list, which are published as whole lists with a time and can overwrite each other.
2. **Group sends** in `ProtocolOutbound`: payloads and fanouts, which wait on each other; the failing write of a row.
3. **Composition** of `ProtocolOutbound` with `PublishOutbox`: that what is sent is what the outbox is offered.
4. **Back-off of the transport** (`publishing.rs:387-409`, `retry_helpers.rs`): how far one failing drain moves it.
5. **Typing indicators and group receipts** in `ChatThread`.

---

## 3. `RelayPublish`

**The code.** `publish_runtime_event` writes an event into the table and into memory and starts a *drain*: a worker
task that takes up to 16 events in drain order (messages first, then by time), publishes up to 4 at once, and reports
each result and then its own end. A drain in flight is remembered by token; a trigger meanwhile sets `dirty`. A drain
older than one attempt's limit is *stale*: the next retry forgets it and starts another, while its worker lives on. A
watchdog task per drain asks for that retry.

**State.** `pending` is `AppCore.pending_relay_publishes`, `store` its table, `inflight` the in-flight set, `drain` the
`publish_drain_*` fields, `worker` the tasks with the results they have in the mailbox, `watchdog` the newest
watchdog's pending message; `accepted` is what the servers hold. History: `offered` (what was ever
handed in), `written` (what became a row) and `dropped` (what the code gives up, see below).

**Actions.** `Enqueue` is `publish_runtime_event_with_metadata` with its pruning of replaceable events. Each delete of an
older row and the write of the new one commits on its own (`publishing.rs:114`, `:125`), so `EnqueueCut` is the process
that ends in between: any part of the older rows is gone and the new one is not there.
`Retry`, `WatchdogFires` and most others end in `RetryFrom`, which is `retry_pending_relay_publishes` from the state
the calling handler has reached. `WorkerTakes`, `AttemptAccepted`, `AttemptFails` are the task; `HandleProgress` and
`HandleFinished` the reports. `StartSession`, `LoadQueue`, `SessionStarted` are the three points of
`start_session_inner` between which it publishes. `Suspend`, `Foreground`, `Logout`, `Crash`, `RemoveRelays`,
`AddRelays` are the session.

**Abstracted.** Time (`stale`); attempt counts and error texts; the number of connected servers; rows that cannot be
parsed; deferring the owner's app keys. An acceptance that comes after the time limit is part of `AttemptFails`. A
session starts from `stopped` only, and suspends from `active`.

**Bounds.** Two worker tasks at once (two are needed for a forgotten worker beside its successor) and two tokens, which
are reused after a reset as in the code; a session starts when one of the worker slots is free. Three events exist, of
which two are in each run: in `publish_faults` two invites of which the newer replaces the older, so that every cut of an
enqueueing occurs; in `publish_live` a message and an invite that every server rejects. A batch
holds two of them and a worker publishes one at a time, so the order of a drain and an event left in its queue occur;
a batch smaller than the queue is not in a run (see starvation below).

**What the runs show.**
- `publish_faults`: with failing upserts, deletes and loads, crashes, suspensions, logouts and servers removed, the
  in-memory queue agrees with the table (`QueueIsDurable`), no event is lost (`NothingLost`) and every behaviour is one
  of `PublishOutbox` (`ImplementsOutbox`, refinement with `owed <- store`).
- `publish_live` (with `AppStore` and `EngineHosts`): across crashes, suspensions and overlapping workers what is in
  flight is worked on (`InflightIsWorked`), and in a session that stays up every event some server accepts leaves the
  queue (`EventuallyPublished`).
- `publish_no_servers` is a finding, section 13.

`NothingLost` excepts what the code does lose (`dropped`): when the process ends, or the write fails, between the deletes
of the older events of a class and the write of the newer one, neither is kept; and a logout empties the table. An
older event counts as replaced only once the newer one has been written. `PublishOutbox` allows the loss in a step of its
own, so that the refinement says what may be lost, too. One class is enough for
the run, since an enqueueing prunes its own class only.

`InflightIsWorked` is about logged-in sessions: a logout leaves the in-flight set as it is until the next login clears
it. `EventuallyPublished` holds with fewer rejected events than a batch holds. Sixteen events that every server rejects
and that come first in drain order starve all others; this follows from the code and is listed as a hazard.

**Fairness.** The watchdog and session start run to their end and workers take steps and report (WF: tokio schedules
its tasks, the actor its mailbox). A server that accepts an event answers in time if asked by drain after drain, and a
current worker's result gets handled before that worker is forgotten if this is possible again and again (SF): the
code has no answer to a server that lets every attempt run into its limit, since the drain's limit is the attempt's.

**Proved** (`RelayPublishProofs`), for all constants that satisfy the two assumptions: `TypeCorrect`, `QueueDurable`,
`PublishesNotLost`, `ImplementsTheOutbox`, `InflightWorked`. The inductive invariant of the first four is `TypeOK /\
WorkersHonest /\ QueueIsDurable /\ NothingLost /\ StoreIsWritten`. `WorkersHonest` says that a worker reports success
only for an accepted event; without it deleting a row at a report may lose an event. `QueueIsDurable` is needed because
an event is declined in favour of a newer one found *in memory*, which keeps the promise only if that one is stored;
`StoreIsWritten`, because only a written event replaces another. The refinement proof maps each action to `Owe`,
`Decline`, `FailToOwe`, `Accept`, `Discharge`, `Abandon` or a stutter. `InflightWorked` has an invariant of its own,
`FlyInv`: what is in flight is queued, a drain in flight has its watchdog or is stale and the session suspended, and
each event is *carried*: held by a worker whose token is the drain's. It needs `FlyInv` in suspended sessions too, where
the property is silent, because foregrounding and retries start from there.

---

## 4. `ProtocolSubscription`

**The code.** From the protocol state `compute_protocol_subscription_plan` derives one plan. `desired_plan` is what is
called for, `applied_plan` what an apply task has subscribed. A reconcile starts such a task unless one runs or no
relay is connected; it then marks the runtime dirty. A connect task dials; relays' status changes are forwarded by
watcher tasks. One timer (2 s when something is to be retried soon, 30 s otherwise) checks everything again.

**State.** `actor` is a record of the fields of `ProtocolSubscriptionRuntime`, `RelayTransportRuntime` and
`relay_status_by_url` and of the unfinished tasks; `dialed`, `up`, `held` are the relay client (external: `nostr-sdk`
keeps subscriptions across reconnects); `watched` and `news` the status watchers and their notifications.

**Actions.** The actor's helpers call each other freely, so each is an operator from the set of records the actor may
be in to the set it may leave it in (`Schedule`, `RequestConnection`, `Reconcile`, `RequestRefresh`, `RetryProtocol`,
`RetryPublishes`), composed in the order the handlers call them. An action is a handler: `StartSession`, `Suspend`,
`Foreground`, `Logout`, `EditRelays`, `RefreshRequested`, `StatusChanged`, `ConnectionFinished`, `ReconcileCompleted`,
`TimerFires`; `ConnectTask*` and `Apply*` are the tasks' steps on the client.

**Abstracted.** `force_reconnect`, which can only be `false` where it is used (`protocol.rs:1618`); `applying_plan`,
set exactly while an apply is in flight; the one-shot fetches, the catch-up and invite-poll timers and the length of
the back-off (a deadline is `Soon` or `Later`). Pending publishes and retries count as work of the timer in the code;
the model is stricter and counts subscription work only. A task that reports sees connection counts and statuses of
one instant. Edits of the server list act on the client at once. No action of the user is handled between suspending
and foregrounding. That foregrounding and adding a relay start no status watcher is the code, not an abstraction.

**Bounds.** Tokens run 1..2 and then repeat, so that a stale report meets its token again more often than in the code;
two applies may overlap; connect tasks do not, so that one given up as stale is followed by another only when its own
task has ended (the theorems have no such bound); retries may find protocol work due (`Waiting`). There is one server.
The safety run has two plans, interchangeable (symmetry; used where no liveness is checked), suspensions, logouts, edits
and slow connects, but no status notifications; the liveness run has these, lost ones among them, with one plan and
suspensions.

**What the runs show.**
- `subscription_safety`: `WakeupArmed` (a session with servers always has a deadline and a timer that meets it),
  `InFlightIsServed` (an in-flight flag has a task the actor waits for, whose report clears it) and
  `DeferredIsRemembered` (a step never forgets that the plan is not applied), over suspensions, logouts, edits and slow
  connects.
- `subscription_live`: `StatusConverges`, `EventuallyHeld` and `SyncingEnds` once the outside stands still, with lost
  notifications and applies left over from before a suspension and failing applies.
- `subscription_queued_start`: a finding, section 13.

`DeferredIsRemembered` is a property of steps, with one exception; as an invariant it would be false. Tokens start at 1
in each runtime, and the generation that an apply task carries is only logged, so that an apply left over from before a
suspension, for another plan, can be taken for the current one (`protocol.rs:1720`): the actor then takes that plan for
the applied one until the next check looks again. `TakenForCurrent` names exactly that step.

**Fairness.** WF for tasks, notifications and the timer, which tokio runs; SF for relays accepting a subscription that
is offered again and again.

**Proved** (`ProtocolSubscriptionProofs`), for any plans, servers, bounds and disruptions: `SubscriptionTypeCorrect`,
`FlagsAreServed`, `RequestsAreRemembered`, and `CheckIsArmed` under `"queued" \notin Disruptions`, without which the
finding `subscription_queued_start` refutes it. The invariant `Inv` is `World` (the types of what is outside the
actor), `Good` for the actor's record, and that nothing is in flight while suspended. Because the handlers are built
from operators on *sets of records* that call each other, the proof has one lemma per operator, of the form "from a
good record only good ones": `Good(s, relays, claims)` takes the caller's claims (a plan is wanted, a deadline is set),
and a lemma says which of them the operator keeps and which it establishes. `Awaited` in it is stronger than
`InFlightIsServed`: an apply that is not `old` has the current token, and its plan is the desired one or the runtime is
dirty. Without that the last theorem cannot rule out the other reports.

---

## 5. `ProtocolInbound`

**The code.** A direct message from a server is decrypted by the engine, which records it as a *delivery*; the app
applies it and remembers the event. If its sender has no session yet, or its owner is not verified yet, it waits in
`pending_inbound` and is tried again when the protocol state changes and when the timer fires. A batch of handlers
writes nothing but marks; at its end the engine's state is written (`flush` in `projection.rs:998`), then the app's
(`persistence.rs:51`), then the engine is told that its deliveries are safe (`:53`). A restart hands out recorded
deliveries again.

**State.** `engine` and `disk` are the engine's memory and its stored state; `app` and `saved` the same for the app,
with the messages shown and the events seen; `dirty` and `unsaved` the marks of the batch, `phase` where the actor is
in it. `direct` says that the engine was created inside the running batch (a session start), so that it was never told
of the batch and writes at once. `late` is history: what a retry decrypted.

**Actions.** `ReceiveOpens`, `ReceiveWaits`, `ReceiveFails` are `handle_relay_event` for the three answers of the
engine; `ProtocolInput` what gives a sender a session or verifies it, and wakes what waits; `RetryDue` the timer.
`FlushEngine`, `SaveApp`, `Acknowledge` end a batch, each may fail, and `Crash` may come between any two steps.
`Restart` is the session start with its filter of unknown senders. `RetryWorks` and `RetryBreaks` are
`retry_pending_protocol`: the latter is an error in its loop, which returns with the queue still taken out.

**Abstracted.** The ratchet is external: it opens each event once, for a sender with a session, and turns the rest down
with nothing or with an error (`Refusals`). Retry times: any part of what waits may be due. The row of a text message
is written at once (`Rows`), that of other messages with the app state. Left out: the filter of events by unknown
authors, which only delays them to a redelivery; failing writes while `direct`; a crash inside a handler; failing row
writes; group and sender-key input; the limit on seen events; logout.

**Bounds.** Two senders, a text and a reaction: a message overtakes another, waits beside one, and waits beside one that
makes its retry fail. Nothing else is bounded.

**What the runs show.**
- `inbound_faults`, with all of it at once: events the ratchet turns down with or without an error, failing writes of
  the engine, of the app and of the acknowledgement, and crashes. `DecryptedIsKept`: a stored used key goes with a
  stored message or a recorded delivery; `WaitingIsUnseen`: what waits is not marked as seen, so that a redelivery
  brings back a queue an error dropped; `EventuallyShown`: messages of known senders are stored in the end.
- `inbound_retried`: a finding, section 13.

`late` is history: messages that a retry decrypted without a row of their own, or had in its hands when it broke. The
code loses these at a crash (`DecryptedIsKept` and `WaitingIsUnseen` except them): a retry records no delivery
(`:517`), and after a restart `retry_pending_protocol` collects the recorded deliveries and discards them if the retry
of a waiting event then fails (`:462`, `:484`), while the next save acknowledges them all. Events nobody can decrypt
(`Broken`) are not in the run; a variant of it with one (66,000 states) was checked once, and the theorems cover them.

**Fairness.** Batches end and the process is started again (WF). The timer fires, servers deliver unseen events again
when the client reconnects, other handlers ask for a save now and then, and a save that is tried again and again
succeeds (SF): a failed save is not repeated by itself.

**Proved** (`ProtocolInboundProofs`), for any events, senders, refusals and failures: `InboundTypeCorrect`,
`DecryptedNotLost`, `WaitingNotSeen`. The inductive invariant is
`TypeOK /\ DecryptedIsKept /\ EngineKeeps /\ Handed /\ SaveIsComplete /\ QueuesUnseen`: `EngineKeeps` is the first
property for the engine's memory, `Handed` that every recorded delivery has been applied in memory, and
`SaveIsComplete` that after a save nothing applied is unsaved, which is what allows the acknowledgement to clear *all*
deliveries. `QueuesUnseen` is the second property for all four pairs of an engine (memory, stored) and an app (memory,
saved), because a crash may bring any stored one back.

---

## 6. `ProtocolOutbound`

**The code.** `send_direct_text` encrypts a message for every device of the peer's list and every other device of the
user's that the ratchet can reach, and queues an entry in `pending_outbound` if something is missing: a device list, an
invite, or the user's own list, which is then *probed* for 120 s. A retry takes the whole queue, serves what is due and
puts back what still has targets. Encrypted events become rows of the publish queue at once. The delivery shown in the
chat is computed from both queues by `reconcile_outgoing_message_delivery` when a retry or a publish ends.

**State.** `engine` and `disk` are the engine's memory and its stored state, each with the two device lists, the devices
within reach and the queue; `app` and `saved` the delivery of each message in the chat; `rows` the publish queue. History:
`offered` (what was ever put into it), `repeated`, `sent`, `hit` (messages that were pending when a retry failed),
`mislaid` (messages whose entry has forgotten that the peer's list is missing, the finding below) and `torn` (a crash has
taken back engine state that was not written yet).

**Actions.** `Send`; `RetryDue` (the timer and other callers); `LearnRoster`, `LearnLocalRoster`, `LearnInvite`, which
wake the queue and retry it in the same handler; `Published`, `PublishFailed`, the reports of the publish queue;
`FlushEngine`, `SaveApp`, the end of a batch; `Crash`, `Restart`. A retry works (`RetryWorks`), or the ratchet raises an
error (`RetryBreaks`: the taken queue is gone), or the group or incoming work after it does (`ResultsDropped`: the
events are gone, the entries say they were served).

**Abstracted.** The publish queue is what `PublishOutbox` promises: a row leaves when a server has the event. The
ratchet is external: it encrypts for a device with a session or an invite, raises an error or reports a gap; a first
send may leave out devices of the user's own, with a gap or without; its keys are not modelled. Queued and Pending are
one delivery state, since nothing decides by the difference. Times: anything may be due, the probe may be over. Copies
of one message for one device are one event; after a crash a report may leave another copy behind. Every change of the
chat is taken to ask for a save, as its handlers do. Left out: sends that fail (the checkpoint restores everything),
messages to oneself, to the peer only or to one's own devices only, group messages, failing writes, empty device lists
of the peer, invites whose owner is unknown, fetching of lists and invites from the servers, and the publish queue with
no server configured (`RelayPublish` has it).

**Bounds.** One message, one device of the peer's and one of the user's own, both of which may appear late and leave the
user's list again; retries may fail in both ways and the process end anywhere, without limit. Entries do not
depend on each other except through a queue lost as a whole; that several messages and devices change nothing for
the theorems below is part of what these say. In both runs no device is within reach at first (`Ready = {}`), so that the
retry that forgets the missing list occurs; `outbound_chat` has 292,000 states.

**What the runs show.**
- `outbound_chat` (with `ChatThread`): `SentIsReached` (a message shown as sent is with a server for some device of the
  peer's, over rollbacks and late saves), `OneCopyEach`, `PendingUntilGiven`, `EventuallyGiven` (a device that stays known
  and reachable is served). The first and the third except messages in `hit`, which the code loses. `PendingUntilGiven`
  is about every way in which a message ceases to be pending while it stays in the chat, a process that ends and starts
  again included: by then all known devices were given it and the peer's list was known. It owes a `mislaid` message to
  the known devices only, and `SentIsReached` excepts it.
- `outbound_unrostered`: a finding, section 13. `UnrosteredIsQueued`: while the peer's list is missing a message stays
  pending.

**Fairness.** Batches end and the process is started again (WF). Every entry is retried if it could be again and again
(SF): the liveness check reads its mailbox in order and an entry is due at most 60 s after its last retry. In the run each condition is joined with
one of `ChatThread`'s (`Either`), of which only one can be enabled in a part.

**Proved** (`ProtocolOutboundProofs`), for any messages and devices, errors and crashes: `OutboundTypeCorrect`,
`EncryptedOnce`, `QueuedUntilGiven` and `SentHasReached`, whichever devices are within reach at first. The inductive
invariant `IInv` adds to the types that the engine in memory and the stored one are each consistent and that, while no
crash has torn them, an entry has *recorded* every device that was given its message: this is why a retry repeats
nothing. It must hold of the stored engine too, as long as the engine is not dirty, because a crash turns it into the
one in memory. `QueuedUntilGiven` adds `WInv`, which holds of the stored engine as well: a recorded device was given the
message, unless a retry failed, and an entry without `MissingRoster` lacks the peer's list only if it is `mislaid`
(`Waits`); and what is pending is pending in the stored engine by the time the chat is stored (`Followed`), which is why
the end of a process never takes a message from the queue and leaves it in the chat. `SentHasReached` adds `RInv`, whose
point is the *witness*: a device of the peer's that has the message and that no entry, of the engine in memory or of the
stored one, will serve again (`Reached`). An entry that could serve it again would put a row back into the publish queue
after the message was shown as sent. `Known` says that a message of the chat is still pending or was offered to the
peer, and `ServedIn` that while nothing is dirty the two engines' entries have served the same devices.

---

## 7. `GroupSenderKeys`

**The code.** A member encrypts a group message once, under a sender key it has handed to the other members pair by
pair. Messages, keys and revisions of the group come in any order. A message without its key waits in the engine,
*marked as seen*, and its key is asked for after growing delays until the sender's device answers. Whatever changes the
keys or the group takes the queue out and tries every message (`retry_pending_group_inputs`); an error leaves the rest
behind.

**State.** `engine` and `disk`: the keys, the group's revision, waiting messages and inputs, `repairs` and those of them
not due (`asked`), the acknowledgements, and what the keys have `used`. `work` is the running retry: the queue taken
out, what goes back, what was opened, the requests it will send. `shown`, `seen`, `stored` are the app's; `mail`,
`asking`, `throttled` the servers and the senders' devices; `lost` is history, what an error, a failed write or the end
of the process in a retry made away with.

**Actions.** `ReceiveUnmapped`, `ReceivePending`, `ReceiveAskFails`, `ReceiveHandled` are `process_group_outer_event`;
`TryDropped` .. `TryBreaks` a retry, message by message, since other steps (a write, the end of the process) come
between; `RetryEnds`, `RetryEndBreaks` its end with the requests that are due. `Distribution` and `Metadata` bring a
key or a revision, `Copy` the same message pair by pair; `Answer` is the sender's device. `FlushEngine`, `SaveApp`,
`Crash`, `Restart` (which prunes, writes at once and retries) are batch and process.

**Abstracted.** One group; times (a request is due again at some later moment); the order of the queue; the group
manager. Left out: candidates that are direct messages and the drop of unknown authors, repair requests and owner
claims that wait in the pairwise queue, failing writes, rows other than texts, the limit of 512 entries, and counts of
delays.

**Bounds.** One sender with an older and a newer key; three messages: one under the older key that turns out to be
broken, one plain and one with a hidden header under the newer. Two revisions, of which the last is without this user.
One fault of four kinds (crash, failing request, lost answer, copy), one input to a batch. Once checked: safety with
several inputs to a batch (2.6 million states), with messages that need the last revision with this user (996,000),
with two faults (697,000).

**What the run shows** (`group_keys`). `TextsAreKept`: a text saved as seen is shown or waits in the stored engine, and
one the stored engine has opened is a row, but for what was given up for a reason the code names and for `lost`.
`WaitingIsAsked`: a message whose sender is known waits with a request (waiting messages alone do not make the engine
retry, `engine_incoming_retry.rs:2`). `EventuallyServed`: it does not wait for ever if its sender hands out the key.
`LeftIsQuiet`: in a group that was left, asking ends. What is excepted comes from the code:
- an error in the retry loop, or a failing request after something was opened, loses what was opened and the taken
  queue (`:119`, `:687`); at session start the retry writes the engine with its queue taken out, and what an error puts
  back is not written;
- opening a message with a hidden header clears *all* requests for its sender (`Cleared`);
- a newer key before the older one makes messages of the older one "predate" (`:672`): they are dropped though seen;
- acknowledgements match by sender and second only.

**Fairness.** The actor works, batches end, the process is started again, requests are answered (WF); the check comes
again, time passes, the servers deliver what they hold (SF).

**Proved** (`GroupSenderKeysProofs`), for any messages, keys, revisions, faults and either kind of batch:
`GroupTypeCorrect`, `WaitingHasRequest`, `TextsKept`. The operators on engines are dealt with first, one lemma each
(what it leaves alone, what it takes). `AskInv` says that what waits *or is kept by the running retry* has its request,
in memory and in the stored engine. `TextInv` follows a text: memory and store each keep it (`MemoryKeeps`,
`StoreKeeps`), what has been saved as seen is kept by the store (`SavedIsKept`), the reasons to give up agree in both
(`GivenUpAlike`), and what a key has opened is a row or in the hands of a retry (`OpenedIsRow`).

---

## 8. `ChatThread`

**The code.** One direct chat: messages arrive, are read, expire, are deleted; receipts come and go. Handlers run in
batches; at the end what has changed is saved, and then the receipts collected in the batch leave. Some rows are
written earlier (a message that arrives, so that notifications find it) and some deleted at once. Delivered receipts
are held back by one timer, a second timer removes messages that expire, and both are cancelled and set again by many
handlers.

**State.** `chat` is the actor's memory: rows with their status, the unread count, whether the peer was accepted,
whether read receipts are on, whether the chat is open, the seen events; `table` what is stored of it. `pending` and
`flush` are `pending_delivered_receipts` with deadline and task, `leaving` the receipts of the batch, `alarm` the
expiry timer, `owed` own messages in the publish queue. History: `gone`, `fresh` (unread by anybody), `blurred`,
`overdue`.

**Actions.** `ReceiveMessage`, `ReceiveLinked`, `ReceiveRead`, `ReceiveReceipt`; `SendMessage`, `OpenChat` with
`OpenFinalized`, `LeaveChat`, `MarkSeen`, `SetUnread`, `Accept`, `SetReceipts`, `DeleteMessage`, `DeleteChat`;
`FlushFires`, `AlarmRings`, `Tick`; `PublishSucceeds`, `PublishFails`; `EndBatch`, `ReceiptsLeave`, `EndProcess`,
`StartProcess`.

**Abstracted.** Time is a few seconds that matter for expiry; receipts' delays are open. The engine is what delivers
inner events, perhaps again. Left out: groups (their requests and receipts), drafts, mute and pin, typing, reactions,
the filter of unknown senders, failing saves and row writes, `Failed` (never set).

**Bounds.** The peer's hello, which expires, and question, which comes in two events; the user's answer and a note from
another device; one second, three inputs, one end of the process, one event to a batch. Once checked: five inputs
without liveness (3.9 million states), four with it (896,000), batches of several events (1.3 million).

**What the run shows** (`outbound_chat`). `TimersArmed`: a timer as long as there is work for it; `TimersServe`: what
came in time goes when it expires, and no receipt is held back for ever. `ReceiptsAreDue`: no delivered receipt after
the seen one, none while receipts are off or the chat is an unaccepted request. `UnreadIsShown`: the badge does not go
out over something unread. `StatusRises`: a status falls only while the message is still owed to the servers. They are
stated with exceptions that the code makes:
- a failing publish sets Queued even over Seen (`publishing.rs:542`); that is while the message is owed;
- expired messages are subtracted from the unread count whether they were read or not (`blurred`), while those only in
  the table never are; a sibling's seen receipt for an older message clears the whole badge (`chat_receipts.rs:414`);
- a message that has already expired when it arrives is not scheduled (`overdue`);
- with several events in a batch a receipt collected by one may leave after another has made the chat a request again.

Not stated as properties because the code promises nothing else: receipts for own messages that are not loaded are
ignored for good (`chat_receipts.rs:375`); held receipts are gone at a process end; after a failed save `open_chat`
loads the older stored page over memory; a deleted message comes back with a second event, as there is no tombstone.

**Fairness.** Batches end and the process is started again (WF); timers ring between the batches of others (SF).

**Proved** (`ChatThreadProofs`), for any messages, expiry times and batches: `ChatTypeCorrect`; `ChatTimersArmed` by
`FlushInv` (deadline and task come and go together) and `AlarmInv`, with a lemma that every non-empty set of seconds
has a least one; `ChatStatusRises` by `RestInv`, which relates the stored rows to memory, because `OpenChat` and a
restart load them; `ChatReceiptsAreDue` by `QuietInv` and `SeenInv` (a seen receipt that has left is seen in the table
too); `ChatUnreadIsShown` by `BadgeInv`: memory *and table* count at least as many as are fresh.

---

## 9. `AppStore`

**The code.** A save (`store.rs`) compares fingerprints of settings, profiles, groups and of each chat with those of the
last save and writes what differs in one transaction. Between saves, arriving messages, deletions and expiry write
single rows, and must forget the fingerprints they make wrong. A window of seen events is kept in order by numbers.

**State.** `memory`, `table`, `cache` (the fingerprints; no two values share one), each with slices, chats and the
window. `left`: chats in which table and memory may differ after one of three failing writes; `blind`: the last load
failed.

**Actions.** `Save`; `ChangeSlices`, `ChangeThread`, `WriteLocal`, `Arrives`, `ArrivesAgain`, `DeleteMessage`,
`DeleteThread`, `Expire`, `OpenChat`; `LoadTables`, `EndProcess`, `ClearTables`. Each transaction may fail as a whole.

**Bounds.** Three messages (one that expires and one of the user's in a chat, one in another), two events for each, a
window of one, one failure or process end, three changes of memory: enough for a save after a failed save, a direct
write and a restart in each order.

**What the run shows** (`publish_live`). `SaveWritesAll`: a save that succeeds leaves in the table what writing all of
memory would; skipping what the fingerprints call unchanged skips nothing. `left` and `blind` name what the code does
not repair: `delete_message` (`store.rs:189`) does not drop its chat's fingerprint, so that a deleted message that comes
again while its row write fails is skipped by the next save; a `delete_thread` that fails while the chat has no
fingerprint leaves the chat, which is back after a restart; a load that fails at session start is ignored
(`account.rs:547`), and the next save writes over the tables.

**Proved** (`AppStoreProofs`), for any messages and bounds: `StoreWritesAll`. `StoreInv`: the slices that have a
fingerprint are those of the table (`SlicesAgree`); the fingerprinted window entries are those of the table, unless a
load failed (`WindowsAgree`); a chat whose fingerprint is cached is in the table, alike in its counters, its draft and
the rows both have, and a fingerprinted row that the table has no more is not in memory either (`ChatsAgree`): this is
what makes skipping it right, and what each direct write must keep; a message of the user's is nowhere before it is
written (`LocalKnown`); and no chat of the table is missing in memory but those `left`.

---

## 10. `ActorShell`

**The code.** The window dispatches actions to the core's actor; the actor queues bundles of keys and full states; the
listener writes the bundles to the secret store and forwards the latest state of a burst; the window drops states that
are not newer than its own. The window navigates before the core has answered. When a batch panics a supervisor builds
a new core, which counts its states from zero, and replays the last login it remembers (`lib.rs:1027`).

**State.** `core`, `shared`, `fg`, `updates`, `restore` (what the supervisor remembers) are the core's side;
`listener`, `secrets` the listener's; `uiq`, `local`, `window`, `override`, `pressed`, `boot` the shell's. History:
`panicked`, `left` (the user has logged out), `kept` (accounts whose keys have been written).

**Actions.** `Relaunch`; `UserLogsIn`, `UserLogsOut`, `UserDeletes`, `UserNavigates`; `CoreHandles` (logins, logouts,
navigation), `CoreHears`, `CorePanics`, `CorePanicsIdle` with `Recover`; `ListenerTakes`, `ListenerTurns`,
`ListenerStores`, `ListenerForwards`; `WindowDraws`.

**Abstracted.** A state is its number, account, screen on top, one bit of news and whether there is an error. The shell
is the Linux one; the others are built alike. Left out: suspension, shutdown, the device label, effects of opening a
chat, forms other than one, a restored active chat.

**Bounds.** One account, one chat, four inputs, one panic of a batch and one of a replay; the start of a session, the
opening of the data directory and the opening of a chat may fail.

**What the run shows** (`shell_faults`). `ShownIsSaved`: the window shows an account only when its keys have been
written. `LoggedOutStaysOut`: after a logout with no login on its way nothing brings the account back.
`QuietScreenIsTrue`: with nothing left to do, the window shows what the core last published. `SurvivesPanic`: a panic
of background work does not log the user out. `BootEnds`, `LoginIsShown`. Where the code promises less the property
says so: a rebuilt core counts from zero and shells drop its states (`~panicked`); `UserLogsOut` is `AppManager::logout`,
which in the Linux shell the screen of a removed device calls (`device_revoked.rs:23`) and in the others the settings do,
and the model allows it on every screen; a bundle on its way at a logout
writes the keys back (`LoginOnItsWay`); the Linux dialog that deletes local data logs out without removing the keys
(`UserDeletes` does not set `left`); a core that cannot be opened leaves the splash (`~core.alive`).

**Fairness.** The three threads run (WF).

**Proved** (`ActorShellProofs`), for any accounts, chats, failures and panics: `ShellTypeCorrect`, `LogoutIsFinal`,
`WindowShowsSaved` (every account a state shows has been stored, is held by the listener ahead of the state, or has its
bundle before it in the queue), `PanicSurvived` and `QuietScreen`. The last rests on `Screen`: the states on their way
keep the order of their numbers and the newest is never dropped (`Flow`), the shell makes states of its own only at the
number it has (`Drawn`), and where it has been led away the core has an action left that overrules it (`Astray`).
`PanicSurvived` rests on `Replayable`: when the actions queued change nothing about the account, what the supervisor
will remember *once the updates on their way have been taken* is the account the core is logged in to, or a mistyped
key, whose replay says so. `Screen` was checked once with five inputs and no panics (278,000 states). The proofs use
that a chat is none of the fixed screens (assumed in `AccountAssumption`).

---

## 11. `EngineHosts`

**The code.** Two more programs run the engine. The direct message service (`direct_messages.rs`) keeps rows and seen
events in SQLite; the handle for other languages (`protocol-ffi/src/lib.rs`) queues what it has to tell its caller.
Neither has the app's batches: a call works on the engine, which writes at once, then on the host's state.

**State.** `host` (the service, or a handle of the owner's or a linked device), `engine`, `disk`; `rows`, `seen` of the
service; `queue`, `asked` of the handle with what its caller has got (`live`, `handed`, `given`). History: `lost`, what
a failing call or the end of the process cut off; `pruned`, what a start dropped; `behind`.

**Actions.** `Activate`, `OpenThread`, `ServiceReceives`, `ServiceHears`, `ServiceSends`, `ServiceEnds`; `HandleInits`,
`HandleReceives`, `HandleHears`, `HandleAccepts`, `HandleSends`, `Drain`, `HandleEnds`. A call of the service may be
cut anywhere between its writes. Every start of the engine (`Activate`, `HandleInits`) first drops the waiting messages
of senders it does not know and writes what is left (`Started`, `engine_core.rs:121-158`).

**Bounds.** Two devices, a message of each, a text to the first, two hearings of each device, one failure or end of the
process; with two of them the invariant of the proof was checked once (336,000 states).

**What the run shows** (`publish_live`). `HostsAgree`: between calls engine and host agree on each message (opened is
shown, told, on its way or recorded), each text, what is seen and whom to subscribe to; the caller is told nothing
twice; only what was in the hands of the call that was cut, and what a start dropped, may be missing. That exception is
the code's: the handle opens a message and, when the retry after it fails, never queues it, while the next drain
acknowledges it (`lib.rs:674`, `:299`); a drain whose acknowledgement fails has lost its queue; the service marks an
event seen before its row is written, and a crash between an engine write in a retry and the rows loses what it opened.
The service has also marked seen what waits for an unknown sender (`direct_messages.rs:343`), and the next start drops
it: when the sender becomes known later the event is not looked at again (`pruned`). The service never acknowledges, so
that its engine keeps every delivery: this is what heals a crash before the row.

**Proved** (second half of `RelayPublishProofs`), for any devices, messages and texts: `EngineAndHost`. `HostInv` adds
to the property that the engine in memory differs from the stored one only by what waits and what was acknowledged
(`Alike`); that whenever a message is in the handle's queue every recorded one is (`ToldPart`), which is why a drain may
acknowledge *all* of them; and that the caller's subscription after what is queued is the one last asked for
(`AskedPart`).

---

## 12. `NearbyMailbag`

**The code.** Every computer's service finds others by mDNS, dials each endpoint once, and over each connection says
hello, offers what is in its mailbag (`inv`), is asked (`want`) and sends (`event`). What is not an answer to one
peer's hello goes to all connections. Offers are made when an event comes and after hellos, at most once an interval.

**State.** Per service: on or off, `nonce` (new at each start), the bags `own` and `carried`, what the app was given
(`taken`). A pair has up to two connections, one for each direction of dialling (`Dials`), as nothing in
`handle_mdns_packet` breaks the tie; per end of a connection: whether it is there (`joined`), has a name (`named`), the
frames on the way (`wire`). Per pair: the nonce last heard (`greeted`: `peer_nonces` and `peers`). `advertised` holds the
pairs, or ends without a name, that were offered to within the interval. History: `missed`, the pairs <x, y> where y may
lack what x had because a connection broke with frames on it or the event came while the two had none, and x has offered
nothing since.

**Actions.** `TurnOn`, `TurnOff`, `Announce` (`start` again), `Dial`, `Break`, `Closed`, `Named`, `SayHello`,
`OfferAgain`, `Expire` (a peer not heard for `PEER_TTL` is forgotten); `HearHello`, `HearOffer`, `HearWant`, `HearEvent`;
`PublishNearby`, `Wipe`. A frame above `SINGLE_FRAME_BYTES` is not sent (`Large`, `EventFrames`), though larger events are
offered and asked for.

**Abstracted.** Events that are sent one after the other are one frame. Left out: presence events, profiles, the list of
peers, mDNS packets, Bluetooth and the wire format.

**Bounds.** Connections are made and intervals end while at most `MaxBusy` connections have frames on the way (`Calm`);
in the run `MaxBusy = 0`, since a frame takes much less time than an interval of seconds. A peer is forgotten only when
no connection with its name is left (`ForgetsTheSilent`), and no event is too large. Two parts: three services in a line,
the last of which publishes and is turned off and on; and two that dial each other, an event of each, so that a
connection breaks with its offers on it and the opposite one is dialled within the interval. One mishap (turned off, a
broken connection, an emptied bag); bags and offers of one event. The theorem has none of these bounds but `Calm`, with
any `MaxBusy`.

**What the run shows** (`publish_faults`, 2.0 million states with the publish queue). `NeighboursAgree`: when nothing is
on the way, the app of a service has been given every event that a neighbour it has met offers and that fits into a
frame, whatever broke, restarted, was forgotten or crossed on the way, but for `missed` pairs. That exception is the
code's: on a new connection a service offers nothing to a peer whose hello it remembers and whose interval has not passed
(`handle_hello`, `send_inventory_after_hello_if_needed`), so that what was lost with the first connection waits for the
next offer; without the exception TLC refutes the property. Also not promised: that neighbours *meet* again
after a connection closes, since an endpoint stays in `endpoint_keys` and is not dialled again until one of the two
restarts; nor that more than the newest 200 events of the bags are ever offered.

**Proved** (second half of `ProtocolInboundProofs`), for any computers, directions of dialling, events, sizes and bounds:
`NearbyAgree`. `MailInv`: the bags hold what the app was given, within their bounds (`BagsAgree`); names and numbers are
in order (`LinesAgree`): no hello is of a start to come, a service that is off has forgotten its peers, and a connection
that one end has left carries no hello of its present start, which is why two services that have met have a connection
over which an offer can come; and what a service owes another has been got or is on its way, as an offer, a want or an
event, on a connection that both have (`OffersArrive`).

---

## 13. Findings

Each is a run whose property, a statement of the repository's tests, TLC finds violated.

| run | what the code does |
| --- | --- |
| `publish_no_servers` | Removing the last server resets the drain's runtime but not the in-flight set (`protocol.rs:1211`); after servers are added every retry skips those events, until another event is published and drained or the app suspends. |
| `subscription_queued_start` | `start_session_inner` bumps the timer's token after queued protocol work may have scheduled a check (`account.rs:809`); its deadline stays set without a timer and later requests return early: no check runs. |
| `inbound_retried` | A retry decrypts without recording a delivery (`engine_incoming_retry.rs:517`); a crash between the two writes loses what has no row of its own. |
| `outbound_unrostered` | A retry that finds one of the user's own devices without an invite overwrites the reason of an entry that waits for the peer's device list (`engine_incoming_retry.rs:405`). When the own device is served nothing is left to wait for: the message is shown as Sent and never encrypted for the peer. |

---

## 14. Proved, checked, left out

Every invariant and every action property of the passing runs is a theorem, for every value of the constants that
satisfies the modules' assumptions.

| | theorems (property) | only model-checked |
| --- | --- | --- |
| `RelayPublish` | `TypeCorrect` (`TypeOK`), `QueueDurable` (`QueueIsDurable`), `PublishesNotLost` (`NothingLost`), `InflightWorked` (`InflightIsWorked`), `ImplementsTheOutbox` (refinement of `PublishOutbox`) | `EventuallyPublished` |
| `ProtocolSubscription` | `SubscriptionTypeCorrect` (`TypeOK`), `FlagsAreServed` (`InFlightIsServed`), `CheckIsArmed` (`WakeupArmed`, no session starts with queued work), `RequestsAreRemembered` (`DeferredIsRemembered`) | `StatusConverges`, `EventuallyHeld`, `SyncingEnds` |
| `ProtocolInbound` | `InboundTypeCorrect` (`TypeOK`), `DecryptedNotLost` (`DecryptedIsKept`), `WaitingNotSeen` (`WaitingIsUnseen`) | `EventuallyShown` |
| `ProtocolOutbound` | `OutboundTypeCorrect` (`TypeOK`), `EncryptedOnce` (`OneCopyEach`), `QueuedUntilGiven` (`PendingUntilGiven`) and `SentHasReached` (`SentIsReached`) | `EventuallyGiven` |
| `GroupSenderKeys` | `GroupTypeCorrect` (`TypeOK`), `WaitingHasRequest` (`WaitingIsAsked`), `TextsKept` (`TextsAreKept`) | `EventuallyServed`, `LeftIsQuiet` |
| `ChatThread` | `ChatTypeCorrect` (`ChatTypeOK`), `ChatTimersArmed` (`TimersArmed`), `ChatStatusRises` (`StatusRises`), `ChatReceiptsAreDue` (`ReceiptsAreDue`), `ChatUnreadIsShown` (`UnreadIsShown`) | `TimersServe` |
| `AppStore` | `StoreWritesAll` (`SaveWritesAll`) | |
| `ActorShell` | `ShellTypeCorrect` (`TypeOK`), `LogoutIsFinal` (`LoggedOutStaysOut`), `WindowShowsSaved` (`ShownIsSaved`), `QuietScreen` (`QuietScreenIsTrue`), `PanicSurvived` (`SurvivesPanic`) | `BootEnds`, `LoginIsShown` |
| `EngineHosts` | `EngineAndHost` (`HostsAgree`) | |
| `NearbyMailbag` | `NearbyAgree` (`NeighboursAgree`) | |

**Assumptions.** Those on constants (`ASSUME` in each module: finite sets, disjoint kinds of messages, owners of keys)
say how the constants encode the program; TLC evaluates them in the runs. One theorem assumes more, as named in the
table, and a finding refutes it without that (`CheckIsArmed`, `subscription_queued_start`). Bounds such as `MaxInputs`
or `MaxFaults` are constants too: the theorems hold for all of them. The exceptions that a property states (`dropped`,
`late`, `hit`, `mislaid`, `torn`, `lost`, `pruned`, `missed`, `left`, `panicked`, `blurred`, `overdue`) are part of what
is proved, and each names a place where the code gives something up.

**What stays with TLC.** Liveness under fairness, since TLAPS has no ENABLED. Nothing in the modules is recursive, so
that no theorem needs an induction over data, which the provers do not have either (a least second or a finite count is
taken from the library's theorems on well-founded sets and cardinalities). The invariants of the proofs were checked by
TLC before they were proved, on instances larger than those of the runs where a section says so.

**Not modelled.** Device lists and pairing, group administration, typing and reactions; the protocol's file store
(taken as one write that succeeds or fails as a whole); mobile push (payload formatting for an external service);
attachments, updates and pictures (network and file I/O); the double ratchet and the Nostr SDK, which are external and
modelled only through how the core uses them; the shells' rendering. See the `note` of each component in `PROJECT.json`.
