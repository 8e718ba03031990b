---------------------------- MODULE EngineHosts ----------------------------
(* The two other programs that run the protocol engine: the direct message   *)
(* service (chat-protocol/src/direct_messages.rs), which keeps rows and seen *)
(* events of its own in SQLite, and the handle given to other languages      *)
(* (protocol-ffi/src/lib.rs), which queues what it has to tell its caller.   *)
(* Neither has the app's batches: a call works on the engine, which is       *)
(* written at once, and then on the host's own state, one write at a time.   *)
EXTENDS Naturals, FiniteSets, Sequences, SequencesExt

CONSTANTS
    Peers, Incoming, Own,   \* the other devices, their messages, the user's texts
    PeerOf,                 \* who wrote a message, or gets a text
    Hearings,               \* device lists, invites and responses that may come of a peer
    MaxStops                \* failing retries, failing writes and ends of the process

HostAssumption ==
    /\ IsFiniteSet(Incoming) /\ IsFiniteSet(Own) /\ Incoming \cap Own = {}
    /\ Incoming \cap (Peers \X Hearings) = {}
    /\ PeerOf \in [Incoming \cup Own -> Peers] /\ MaxStops \in Nat
ASSUME HostAssumption

VARIABLES
    host,     \* "service", or a handle: of the owner's own device (the one whose key is the
              \* owner's) or of one linked to it
    loaded,       \* the engine is loaded
    engine,   \* what it knows and has to do
    disk,     \* as it is stored
    rows,     \* private_chat_messages: how each message is shown
    seen,     \* private_chat_seen_events
    queue,    \* SessionManagerInner.events
    asked,    \* relay_subscription_key, message_author_hexes
    live,     \* the authors the caller is subscribed to
    handed,   \* how often the caller got each message
    given,    \* texts whose event the caller got to publish
    lost,     \* what a failing call or the end of the process has cut off
    pruned,   \* waiting messages that a start has dropped
    behind,   \* "call": the last call of the handle failed; "drain": a drain has
    stops

hostVars == <<host, loaded, engine, disk, rows, seen, queue, asked, live, handed, given, lost,
              pruned, behind, stops>>

NewEngine == [known |-> {}, waiting |-> {}, recorded |-> {}, opened |-> {}, outbox |-> {},
              texts |-> {}]

HostInit ==
    /\ host \in {"service", "own", "linked"} /\ loaded = FALSE
    /\ engine = NewEngine /\ disk = NewEngine
    /\ rows = [m \in Incoming \cup Own |-> "none"] /\ seen = {}
    /\ queue = <<>> /\ asked = {} /\ live = {}
    /\ handed = [m \in Incoming |-> 0] /\ given = {} /\ lost = {}
    /\ pruned = {}
    /\ behind = "no" /\ stops = 0

Stop == stops < MaxStops /\ stops' = stops + 1
Goes == UNCHANGED stops

-----------------------------------------------------------------------------
(* The engine.                                                               *)

OpensNow(e, m) == PeerOf[m] \in e.known /\ m \notin e.opened

\* A message opened as it comes is recorded for delivery; one that cannot be waits.
Opening(e, m) == [e EXCEPT !.opened = @ \cup {m}, !.recorded = @ \cup {m}]
Keeping(e, m) == [e EXCEPT !.waiting = @ \cup {m}]
Received(e, m) == IF OpensNow(e, m) THEN Opening(e, m) ELSE Keeping(e, m)

\* A text to a peer that is not known waits in the outbox.
Sendable(e) == {t \in e.outbox : PeerOf[t] \in e.known}
Sending(e, t) ==
    [e EXCEPT !.texts = @ \cup {t}, !.outbox = @ \cup (IF PeerOf[t] \in e.known THEN {} ELSE {t})]

\* What is due leaves the queues; the waiting messages are not in the queue while they are
\* worked on, and so not in what opening one of them writes.
Worked(e, M) ==
    [e EXCEPT !.outbox = @ \ Sendable(e), !.opened = @ \cup M, !.waiting = @ \ M]
NoQueue(e) == [e EXCEPT !.waiting = {}]

\* A retry that works hands out the recorded messages again, and those it opened.
RetryWorks(e, due) ==
    LET M == {m \in due : OpensNow(e, m)}
        next == Worked(e, M)
    IN  [engine |-> next, disk |-> IF M = {} THEN next ELSE NoQueue(next),
         got |-> e.recorded \cup M, sent |-> Sendable(e), cut |-> {}, fails |-> FALSE]

\* One that fails hands out nothing and has lost the queue it had taken.
RetryFails(e, M) ==
    LET next == Worked(e, M)
    IN  [engine |-> NoQueue(next), disk |-> IF M = {} THEN next ELSE NoQueue(next),
         got |-> {}, sent |-> {}, cut |-> e.waiting \cup Sendable(e), fails |-> TRUE]

\* Those of the peer just heard of are due; of the others, some.
RetryResults(e, woken) ==
    {RetryWorks(e, due) : due \in {D \in SUBSET e.waiting : woken \subseteq D}}
    \cup {RetryFails(e, M) : M \in SUBSET {m \in e.waiting : OpensNow(e, m)}}

\* finish_local_device_startup: a waiting message whose sender is not known is dropped, and
\* what is left is written.
Started(e) == [e EXCEPT !.waiting = {m \in @ : PeerOf[m] \in e.known}]
Starts(e) == pruned' = pruned \cup (e.waiting \ Started(e).waiting)

Hearing(e, p) == [e EXCEPT !.known = @ \cup {p}]
WokenBy(e, p) == {m \in e.waiting : PeerOf[m] = p}

-----------------------------------------------------------------------------
(* The direct message service.                                               *)

Service == host = "service" /\ UNCHANGED <<host, queue, handed, behind>>

\* The process ends inside a call; the caller's subscription ends with it.
EndsHere ==
    /\ Stop /\ loaded' = FALSE /\ engine' = disk' /\ asked' = {} /\ live' = {}

\* INSERT OR IGNORE.
Inserted(f, M, how) == [m \in DOMAIN f |-> IF m \in M /\ f[m] = "none" THEN how ELSE f[m]]
MarkedSent(f, T) == [m \in DOMAIN f |-> IF m \in T /\ f[m] # "none" THEN "sent" ELSE f[m]]

\* activate loads the engine, again if need be, and subscribes to the authors it knows when
\* they are not those it subscribed to before.
Activate ==
    /\ Service /\ loaded' = TRUE
    /\ engine' = Started(disk) /\ disk' = engine' /\ Starts(disk)
    /\ lost' = lost \cup (engine.waiting \ disk.waiting)
    /\ asked' = disk.known
    /\ live' = IF asked # disk.known /\ disk.known # {} THEN disk.known ELSE live
    /\ Goes /\ UNCHANGED <<rows, seen, given>>

\* open_chat only subscribes.
OpenThread ==
    /\ Service /\ loaded /\ asked' = engine.known
    /\ live' = IF asked # engine.known THEN engine.known ELSE live
    /\ Goes /\ UNCHANGED <<loaded, engine, disk, rows, seen, given, lost>>

\* process_event of a message: the engine, then the mark, then the row.
ServiceReceives(m) ==
    /\ Service /\ loaded /\ m \notin seen
    /\ disk' = Received(engine, m)
    /\ \/ /\ engine' = disk' /\ seen' = seen \cup {m}
          /\ rows' = Inserted(rows, {m} \cap (disk'.opened \ engine.opened), "received")
          /\ Goes /\ UNCHANGED <<loaded, asked, live>>
       \/ /\ EndsHere /\ seen' \in {seen, seen \cup {m}} /\ UNCHANGED rows
    /\ UNCHANGED <<given, lost>>

\* process_event of what makes a peer known: the batch of the retry is applied after the mark;
\* an error leaves the event unmarked.
ServiceHears(h) ==
    /\ Service /\ loaded /\ h \notin seen
    /\ \E r \in RetryResults(Hearing(engine, h[1]), WokenBy(engine, h[1])) :
          /\ disk' = r.disk
          /\ \/ /\ ~r.fails /\ engine' = r.engine /\ seen' = seen \cup {h}
                /\ rows' = MarkedSent(Inserted(rows, r.got, "received"), r.sent)
                /\ given' = given \cup r.sent
                /\ Goes /\ UNCHANGED <<loaded, asked, live, lost>>
             \/ /\ r.fails /\ engine' = r.engine /\ Stop
                /\ lost' = lost \cup r.cut
                /\ UNCHANGED <<loaded, asked, live, seen, rows, given>>
             \/ /\ ~r.fails /\ EndsHere /\ seen' \in {seen, seen \cup {h}}
                /\ \E M \in SUBSET r.got, T \in SUBSET r.sent :
                      /\ rows' = MarkedSent(Inserted(rows, M, "received"), T)
                      /\ lost' = lost \cup (r.got \ (M \cup r.disk.recorded)) \cup r.sent
                                      \cup (r.engine.waiting \ r.disk.waiting)
                /\ UNCHANGED given

\* send_message: the row comes after the engine has the text.
ServiceSends(t) ==
    /\ Service /\ loaded /\ t \notin engine.texts
    /\ disk' = Sending(engine, t)
    /\ \/ /\ engine' = disk'
          /\ rows' = Inserted(rows, {t}, IF t \in disk'.outbox THEN "pending" ELSE "sent")
          /\ given' = given \cup ({t} \ disk'.outbox)
          /\ Goes /\ UNCHANGED <<loaded, asked, live, lost>>
       \/ EndsHere /\ lost' = lost \cup {t} /\ UNCHANGED <<rows, given>>
    /\ UNCHANGED seen

ServiceEnds ==
    /\ Service /\ loaded /\ disk' = disk /\ EndsHere
    /\ lost' = lost \cup (engine.waiting \ disk.waiting)
    /\ UNCHANGED <<rows, seen, given>>

-----------------------------------------------------------------------------
(* The handle.                                                               *)

Handle == host # "service" /\ UNCHANGED <<host, rows, seen>>

Item(kind, what) == [kind |-> kind, what |-> {what}]
Subscribe(authors) == [kind |-> "subscribe", what |-> authors]
Unsubscribe == [kind |-> "unsubscribe", what |-> {}]
Announcement == [kind |-> "announce", what |-> {}]

QueuedAs(kind) == {x \in Incoming \cup Own : Item(kind, x) \in {queue[i] : i \in DOMAIN queue}}


\* A message that is still in the queue is not queued again.
Enqueued(q, M, T) ==
    q \o SetToSeq({Item("decrypted", m) : m \in M \ QueuedAs("decrypted")})
      \o SetToSeq({Item("publish", t) : t \in T})

\* sync_message_subscription: one subscription, taken back and made again.
Synced(q, e) ==
    IF e.known = asked THEN q
    ELSE q \o (IF asked = {} THEN <<>> ELSE <<Unsubscribe>>)
           \o (IF e.known = {} THEN <<>> ELSE <<Subscribe(e.known)>>)

\* The end of a call that works: e is the engine, q the queue before the subscription.
Done(e, q) ==
    /\ engine' = e /\ queue' = Synced(q, e) /\ asked' = e.known
    /\ behind' = IF behind = "call" THEN "no" ELSE behind
    /\ Goes /\ UNCHANGED <<live, handed, given, lost>>

\* What a failing call leaves; cut is what it will not tell.
Failed(e, q, cut) ==
    /\ engine' = e /\ queue' = q /\ lost' = lost \cup cut
    /\ behind' = IF behind = "no" THEN "call" ELSE behind
    /\ Stop /\ UNCHANGED <<asked, live, handed, given>>

\* init announces the device; the device list it makes of
\* the owner's own device is taken in like any other.
InitWith(r) ==
    LET q == Append(queue, Announcement)
    IN  /\ disk' = r.disk
        /\ IF r.fails THEN loaded' = FALSE /\ Failed(r.disk, q, r.cut)
           ELSE loaded' = TRUE /\ Done(r.engine, Enqueued(q, r.got, r.sent))

HandleInits ==
    /\ Handle /\ ~loaded /\ Starts(disk)
    /\ IF host = "own" THEN \E r \in RetryResults(Started(disk), {}) : InitWith(r)
       ELSE /\ loaded' = TRUE /\ disk' = Started(disk)
            /\ Done(disk', Append(queue, Announcement))

\* process_event of what makes a peer known.
HandleHears(p) ==
    /\ Handle /\ loaded /\ UNCHANGED loaded
    /\ \E r \in RetryResults(Hearing(engine, p), WokenBy(engine, p)) :
          /\ disk' = r.disk
          /\ IF r.fails THEN Failed(r.engine, queue, r.cut)
             ELSE Done(r.engine, Enqueued(queue, r.got, r.sent))

\* process_event of a message: what the retry after it does to it too.
HandleReceives(m) ==
    LET e == Received(engine, m)
        it == {m} \cap (e.opened \ engine.opened)
    IN  /\ Handle /\ loaded /\ UNCHANGED loaded
        /\ \E r \in RetryResults(e, {}) :
              /\ disk' = r.disk
              /\ IF r.fails THEN Failed(r.engine, queue, r.cut \cup it)
                 ELSE Done(r.engine, Enqueued(queue, r.got \cup it, r.sent))

\* accept_invite answers and makes the inviter known; nothing is retried.
HandleAccepts(p) ==
    /\ Handle /\ loaded /\ UNCHANGED loaded
    /\ p \notin engine.known
    /\ disk' = Hearing(engine, p) /\ Done(disk', Append(queue, Announcement))

HandleSends(t) ==
    /\ Handle /\ loaded /\ UNCHANGED loaded
    /\ t \notin engine.texts
    /\ disk' = Sending(engine, t)
    /\ Done(disk', Enqueued(queue, {}, {t} \ disk'.outbox))

\* The caller's subscription after what is queued.
Follows(authors, q) ==
    LET subs == {i \in DOMAIN q : q[i].kind \in {"subscribe", "unsubscribe"}}
    IN  IF subs = {} THEN authors
        ELSE q[CHOOSE i \in subs : \A j \in subs : j <= i].what

Acked(e) == [e EXCEPT !.recorded = {}]

\* Mutant: the recorded messages are acknowledged whatever is drained.
DrainAckingAll ==
    /\ Handle /\ queue # <<>> /\ queue' = <<>>
    /\ engine' = Acked(engine) /\ disk' = engine'
    /\ handed' = [m \in Incoming |-> handed[m] + (IF m \in QueuedAs("decrypted") THEN 1 ELSE 0)]
    /\ given' = given \cup QueuedAs("publish") /\ live' = Follows(live, queue)
    /\ Goes /\ UNCHANGED <<loaded, asked, lost, behind>>

\* drain_events hands over the queue; if a message is among it, all that are recorded are
\* acknowledged.  When that cannot be written the caller gets an error and the queue is gone.
Drain ==
    LET D == QueuedAs("decrypted")
        T == QueuedAs("publish")
        acks == loaded /\ D # {} /\ engine.recorded # {}
    IN  /\ Handle /\ queue # <<>> /\ queue' = <<>>
        /\ engine' = IF acks THEN Acked(engine) ELSE engine
        /\ \/ /\ disk' = IF acks THEN engine' ELSE disk
              /\ handed' = [m \in Incoming |-> handed[m] + (IF m \in D THEN 1 ELSE 0)]
              /\ given' = given \cup T /\ live' = Follows(live, queue)
              /\ Goes /\ UNCHANGED <<lost, behind>>
           \/ /\ acks /\ lost' = lost \cup D \cup T /\ behind' = "drain"
              /\ Stop /\ UNCHANGED <<disk, handed, given, live>>
        /\ UNCHANGED <<loaded, asked>>

HandleEnds ==
    /\ Handle /\ loaded /\ disk' = disk /\ EndsHere
    /\ queue' = <<>> /\ behind' = "no"
    /\ lost' = lost \cup (QueuedAs("decrypted") \ disk.recorded) \cup QueuedAs("publish")
                    \cup (engine.waiting \ disk.waiting)
    /\ UNCHANGED <<handed, given>>

HostCall ==
    \/ OpenThread \/ ServiceEnds \/ Drain \/ HandleEnds
    \/ \E m \in Incoming : ServiceReceives(m) \/ HandleReceives(m)
    \/ \E t \in Own : ServiceSends(t) \/ HandleSends(t)
    \/ \E p \in Peers : HandleAccepts(p) \/ HandleHears(p)
    \/ \E h \in Peers \X Hearings : ServiceHears(h)

HostNext == Activate \/ HandleInits \/ (HostCall /\ UNCHANGED pruned)

HostSpec == HostInit /\ [][HostNext]_hostVars

-----------------------------------------------------------------------------
(* Properties.                                                               *)

\* What the engine opened is shown, told, on its way or still recorded.
OpenedIsKept ==
    \A m \in engine.opened \ lost :
        \/ m \in engine.recorded \/ rows[m] = "received"
        \/ m \in QueuedAs("decrypted") \/ handed[m] > 0

\* The caller is not told a message twice.
ToldOnce == \A m \in Incoming : handed[m] <= 1

\* What the service will not look at again is known to the engine, but for what was in the
\* hands of a call cut short and what a start has dropped since: a message that waits for
\* its sender is marked as seen, and the service never gets it back.
SeenIsKnown ==
    seen \cap Incoming \subseteq engine.waiting \cup engine.opened \cup lost \cup pruned

\* A row says pending while the engine has the text, and sent when its event was handed over.
RowsAreTrue ==
    \A t \in Own \ lost :
        /\ rows[t] = "pending" => t \in engine.outbox
        /\ rows[t] = "sent" => t \in given
        /\ t \in engine.texts => t \in engine.outbox \cup given \cup QueuedAs("publish")

\* A caller that takes what is queued is subscribed to the authors the engine knows.
SubscriptionFollows ==
    host # "service" /\ loaded /\ behind = "no" => Follows(live, queue) = engine.known

\* Between calls, whatever call was cut short by an error or the end of the process, the
\* engine and its host agree on each message, text and subscription; only what was in the
\* hands of that very call may be missing, and a message whose sender was still unknown at
\* a later start.
HostsAgree == OpenedIsKept /\ ToldOnce /\ SeenIsKnown /\ RowsAreTrue /\ SubscriptionFollows
=============================================================================
