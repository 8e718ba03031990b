------------------------------ MODULE AppStore ------------------------------
(* How the core's state gets into SQLite (core/storage/store.rs): a save     *)
(* compares fingerprints of the slices and chats of the last save with those *)
(* of memory and writes what differs, in one transaction; in between,        *)
(* arriving messages, deletions and expiry write single rows of their own.   *)
(* A fingerprint stands for what it was taken of (no two values collide).    *)
EXTENDS Naturals, FiniteSets, Sequences

CONSTANTS
    Rows,        \* messages
    ChatOf,      \* the chat of each
    Local,       \* those written on this device, or by it (notices)
    Expiring,    \* those that expire
    Copies,      \* events that may bring a message
    MaxSeen,     \* MAX_SEEN_EVENT_IDS
    MaxFaults,   \* failing transactions and ends of the process
    MaxEdits     \* changes of memory

StoreAssumption ==
    /\ IsFiniteSet(Rows) /\ Local \subseteq Rows /\ Expiring \subseteq Rows \ Local
    /\ Copies \in Nat /\ MaxSeen \in Nat \ {0} /\ MaxFaults \in Nat /\ MaxEdits \in Nat
ASSUME StoreAssumption

Chats == {ChatOf[m] : m \in Rows}
SeenEvents == (Rows \ Local) \X (1 .. Copies)
NeverWritten == 0

VARIABLES
    memory,     \* AppCore: slices, threads, seen_event_order
    table,      \* app_meta .. groups; threads and messages; seen_events
    cache,      \* PersistCache
    loggedIn,    \* logged_in
    late,       \* the expiring messages have expired
    left,       \* chats the table and memory may differ in until the next load or the chat's
                \* deletion: those kept when their deletion failed, those not loaded, and
                \* those where a message came back after its deletion and its write failed
    blind,      \* the last load failed
    used,       \* local messages that got their number
    edits, faults

storeVars == <<memory, table, cache, loggedIn, late, left, blind, used, edits, faults>>

-----------------------------------------------------------------------------
(* Values.  A thread has its counters (head), its draft and the loaded rows; *)
(* a row knows the event it came by (0: none) and one thing that changes.    *)

Bit == {0, 1}
RowValue == [copy : 0 .. Copies, mark : Bit]
Partial(D, R) == UNION {[S -> R] : S \in SUBSET D}
Thread == [head : Bit, draft : Bit, rows : Partial(Rows, RowValue)]
NoRows == [m \in {} |-> 0]

Over(f, g) == [x \in DOMAIN f \cup DOMAIN g |-> IF x \in DOMAIN f THEN f[x] ELSE g[x]]
Less(f, S) == [x \in DOMAIN f \ S |-> f[x]]
Put(f, x, v) == Over([y \in {x} |-> v], f)

Elements(s) == {s[i] : i \in DOMAIN s}
NoMemory == [slices |-> 1, chats |-> NoRows, seen |-> <<>>]
NoTable == [slices |-> NeverWritten, chats |-> NoRows, seen |-> [e \in SeenEvents |-> 0]]
NoCache == [slices |-> NeverWritten, chats |-> NoRows, seen |-> {}, next |-> 1]
SeenIn(t) == {e \in SeenEvents : t.seen[e] > 0}

StoreInit ==
    /\ memory = NoMemory /\ table = NoTable /\ cache = NoCache
    /\ loggedIn = TRUE /\ late = FALSE /\ left = {} /\ blind = FALSE /\ used = {}
    /\ edits = 0 /\ faults = 0

Fault == faults < MaxFaults /\ faults' = faults + 1
NoFault == UNCHANGED faults

-----------------------------------------------------------------------------
(* A save.                                                                   *)

\* The threads whose fingerprint differs, and those of the cache that memory has no more.
ThreadsToWrite ==
    {c \in DOMAIN memory.chats : c \notin DOMAIN cache.chats \/ cache.chats[c] # memory.chats[c]}
ThreadsToDelete == DOMAIN cache.chats \ DOMAIN memory.chats

\* The rows memory has loaded are written over those of the table; the others stay.
Written(c) ==
    [memory.chats[c] EXCEPT !.rows =
        Over(@, IF c \in DOMAIN table.chats THEN table.chats[c].rows ELSE NoRows)]

\* Window entries the table does not have yet get the next numbers, in their order.
ToInsert == {i \in DOMAIN memory.seen : memory.seen[i] \notin cache.seen}
Sequence(i) == cache.next + Cardinality({j \in ToInsert : j < i})
SeenRows ==
    [e \in SeenEvents |->
        IF e \in SeenIn(table) THEN IF e \in cache.seen \ Elements(memory.seen) THEN 0 ELSE table.seen[e]
        ELSE IF \E i \in ToInsert : memory.seen[i] = e
        THEN Sequence(CHOOSE i \in ToInsert : memory.seen[i] = e) ELSE 0]

\* Settings, profiles, device lists and groups are written as a whole.
SlicesChanged == cache.slices # memory.slices
SlicesRow == IF SlicesChanged THEN memory.slices ELSE table.slices

Apply ==
    [slices |-> SlicesRow,
     chats |-> Over([c \in ThreadsToWrite |-> Written(c)], Less(table.chats, ThreadsToDelete)),
     seen |-> SeenRows]

UpdateCache ==
    [slices |-> memory.slices, chats |-> memory.chats, seen |-> Elements(memory.seen),
     next |-> cache.next + Cardinality(ToInsert)]

\* Mutant: the fingerprints are kept before the transaction commits.
SaveFingerprintsFirst ==
    /\ loggedIn /\ cache' = UpdateCache
    /\ \/ table' = Apply /\ NoFault
       \/ UNCHANGED table /\ Fault
    /\ UNCHANGED <<memory, loggedIn, late, blind, used, left, edits>>

\* persist_best_effort_inner: nothing without a session; an error leaves both as they were.
Save ==
    /\ loggedIn
    /\ \/ table' = Apply /\ cache' = UpdateCache /\ NoFault
       \/ UNCHANGED <<table, cache>> /\ Fault
    /\ UNCHANGED <<memory, loggedIn, late, blind, used, left, edits>>

-----------------------------------------------------------------------------
(* Changes of memory, some with a write of their own.                        *)

Edit == loggedIn /\ edits < MaxEdits /\ edits' = edits + 1
Memory(c, t) == memory' = [memory EXCEPT !.chats = Put(@, c, t)]
EmptyThread == [head |-> 0, draft |-> 0, rows |-> NoRows]
InMemory(c) == IF c \in DOMAIN memory.chats THEN memory.chats[c] ELSE EmptyThread

\* Settings, profiles, device lists, groups; a chat's counters; its draft; a receipt or reaction.
ChangeSlices ==
    /\ Edit /\ memory' = [memory EXCEPT !.slices = 3 - @]
    /\ UNCHANGED <<table, cache, loggedIn, late, blind, used, left, faults>>

ChangeThread(c) ==
    /\ Edit /\ c \in DOMAIN memory.chats
    /\ \/ Memory(c, [memory.chats[c] EXCEPT !.head = 1 - @])
       \/ Memory(c, [memory.chats[c] EXCEPT !.draft = 1 - @])
       \/ \E m \in DOMAIN memory.chats[c].rows :
            Memory(c, [memory.chats[c] EXCEPT !.rows[m].mark = 1 - @])
    /\ UNCHANGED <<table, cache, loggedIn, late, blind, used, left, faults>>

\* A message of the user or a notice waits for the save.
WriteLocal(m) ==
    /\ Edit /\ m \notin used /\ used' = used \cup {m}
    /\ LET c == ChatOf[m] IN
           Memory(c, [InMemory(c) EXCEPT !.rows = Put(@, m, [copy |-> 0, mark |-> 0])])
    /\ UNCHANGED <<table, cache, loggedIn, late, left, blind, faults>>

\* The first write of a row takes the thread's counters along but not its draft; a row that
\* is there already keeps what it has.
PreviewRow(rows, m, row) == Over(rows, [n \in {m} |-> row])
Preview(c, m, head, row) ==
    LET thread == IF c \in DOMAIN table.chats THEN table.chats[c] ELSE EmptyThread IN
    Put(table.chats, c,
        [thread EXCEPT !.head = IF m \in DOMAIN thread.rows THEN @ ELSE head,
                       !.rows = PreviewRow(@, m, row)])

Remembered(e) ==
    LET all == Append(memory.seen, e) IN
    IF Len(all) > MaxSeen THEN Tail(all) ELSE all

\* delete_message leaves the fingerprint of its chat alone.
StillCounted(c, m) == c \in DOMAIN cache.chats /\ m \in DOMAIN cache.chats[c].rows

Known(m) ==
    \E n \in {memory, table} :
        ChatOf[m] \in DOMAIN n.chats /\ m \in DOMAIN n.chats[ChatOf[m]].rows

\* A message comes that neither memory nor the table has.
Arrives(m, k) ==
    LET c == ChatOf[m]
        row == [copy |-> k, mark |-> 0]
        thread == [InMemory(c) EXCEPT !.head = 1 - @, !.rows = Put(@, m, row)]
    IN
    /\ Edit /\ <<m, k>> \notin Elements(memory.seen)
    /\ ~Known(m)
    /\ memory' = [memory EXCEPT !.chats = Put(@, c, thread), !.seen = Remembered(<<m, k>>)]
    /\ \/ /\ table' = [table EXCEPT !.chats = Preview(c, m, thread.head, row)]
          /\ cache' = [cache EXCEPT !.chats = Less(@, {c})]
          /\ UNCHANGED left /\ NoFault
       \/ /\ left' = left \cup (IF StillCounted(c, m) THEN {c} ELSE {})
          /\ UNCHANGED <<table, cache>> /\ Fault
    /\ UNCHANGED <<loggedIn, late, blind, used>>

\* An event of a known message is remembered and adds nothing, but the chat comes back from
\* the table when memory has lost it.
ArrivesAgain(m, k) ==
    LET c == ChatOf[m] IN
    /\ Edit /\ <<m, k>> \notin Elements(memory.seen)
    /\ Known(m)
    /\ memory' = [memory EXCEPT
                    !.chats = IF c \in DOMAIN @ THEN @ ELSE Put(@, c, table.chats[c]),
                    !.seen = Remembered(<<m, k>>)]
    /\ UNCHANGED <<table, cache, loggedIn, late, left, blind, used, faults>>

RowsGone(chats, M) == [c \in DOMAIN chats |-> [chats[c] EXCEPT !.rows = Less(@, M)]]

DeleteMessage(m) ==
    LET c == ChatOf[m] IN
    /\ Edit /\ c \in DOMAIN memory.chats /\ m \in DOMAIN memory.chats[c].rows
    /\ memory' = [memory EXCEPT !.chats = RowsGone(@, {m})]
    /\ \/ table' = [table EXCEPT !.chats = RowsGone(@, {m})] /\ NoFault
       \/ UNCHANGED table /\ Fault
    /\ UNCHANGED <<cache, loggedIn, late, blind, used, left>>

\* The cache forgets the chat only when the deletion succeeds: else the next save deletes it.
DeleteThread(c) ==
    /\ Edit /\ c \in DOMAIN memory.chats
    /\ memory' = [memory EXCEPT !.chats = Less(@, {c})]
    /\ \/ /\ table' = [table EXCEPT !.chats = Less(@, {c})]
          /\ cache' = [cache EXCEPT !.chats = Less(@, {c})]
          /\ left' = left \ {c} /\ NoFault
       \/ /\ left' = left \cup {c} /\ Fault
          /\ UNCHANGED <<table, cache>>
    /\ UNCHANGED <<loggedIn, late, blind, used>>

HasExpiring(chats) == {c \in DOMAIN chats : DOMAIN chats[c].rows \cap Expiring # {}}
RowsExpired == [table EXCEPT !.chats = RowsGone(@, Expiring)]

\* prune_expired_messages: in memory, then in all chats of the table.
Expire ==
    /\ loggedIn /\ late' = TRUE
    /\ memory' = [memory EXCEPT !.chats = RowsGone(@, Expiring)]
    /\ \/ /\ table' = RowsExpired
          /\ cache' = [cache EXCEPT !.chats = Less(@, HasExpiring(table.chats))]
          /\ NoFault
       \/ UNCHANGED <<table, cache>> /\ Fault
    /\ UNCHANGED <<loggedIn, left, blind, used, edits>>

-----------------------------------------------------------------------------
(* Loading.                                                                  *)

Page(c) == table.chats[c].rows
StoredThread(c) == table.chats[c]

\* Opening a chat loads its page, over the rows memory has; a chat that is only in the table
\* is taken from there.
OpenChat(c) ==
    /\ loggedIn /\ c \in DOMAIN table.chats
    /\ Memory(c, IF c \in DOMAIN memory.chats
                 THEN [memory.chats[c] EXCEPT !.rows = Over(Page(c), @)]
                 ELSE StoredThread(c))
    /\ UNCHANGED <<table, cache, loggedIn, late, blind, used, left, edits, faults>>

\* The newest row of every chat, the page of the one that was active.
LoadThreads(t, active) ==
    [c \in DOMAIN t.chats |->
        [t.chats[c] EXCEPT !.rows =
            IF c = active \/ DOMAIN @ = {} THEN @
            ELSE LET newest == CHOOSE m \in DOMAIN @ : TRUE IN [m \in {newest} |-> @[m]]]]

\* The window in the order of its numbers; equal numbers in some order.
InOrder(t) ==
    {s \in [1 .. Cardinality(SeenIn(t)) -> SeenIn(t)] :
        /\ Elements(s) = SeenIn(t)
        /\ \A i, j \in DOMAIN s : i < j => t.seen[s[i]] <= t.seen[s[j]]}

LastOf(s) == IF Len(s) <= MaxSeen THEN s ELSE SubSeq(s, Len(s) - MaxSeen + 1, Len(s))
Highest(t) == CHOOSE n \in {0} \cup {t.seen[e] : e \in SeenEvents} : \A e \in SeenEvents : t.seen[e] <= n

\* start_session of a new process, or after a logout: rows that have expired are deleted
\* first.  A load that fails is taken for an empty table.
LoadTables ==
    LET t == IF late THEN RowsExpired ELSE table IN
    /\ ~loggedIn /\ loggedIn' = TRUE
    /\ \/ /\ t.slices # NeverWritten
          /\ \E active \in Chats, order \in InOrder(t) :
                memory' = [slices |-> t.slices, chats |-> LoadThreads(t, active),
                           seen |-> LastOf(order)]
          /\ cache' = [cache EXCEPT !.seen = SeenIn(t), !.next = Highest(t) + 1]
          /\ table' = t /\ left' = {} /\ blind' = FALSE /\ NoFault
       \/ /\ t.slices = NeverWritten
          /\ memory' = NoMemory /\ table' = t /\ blind' = FALSE /\ NoFault
          /\ left' = DOMAIN t.chats
          /\ UNCHANGED cache
       \/ /\ memory' = NoMemory /\ blind' = TRUE /\ Fault
          /\ left' = DOMAIN table.chats
          /\ UNCHANGED <<table, cache>>
    /\ UNCHANGED <<late, used, edits>>

\* The process ends: a fresh AppStore has an empty cache.
EndProcess ==
    /\ Fault /\ loggedIn' = FALSE /\ memory' = NoMemory /\ cache' = NoCache
    /\ UNCHANGED <<table, late, blind, used, left, edits>>

\* The tables are emptied and the cache forgotten; an error leaves both.
ClearTables ==
    /\ Edit /\ loggedIn' = FALSE /\ memory' = NoMemory
    /\ \/ table' = NoTable /\ cache' = NoCache /\ left' = {} /\ NoFault
       \/ UNCHANGED <<table, cache, left>> /\ Fault
    /\ UNCHANGED <<late, blind, used>>

StoreNext ==
    \/ Save \/ ChangeSlices \/ Expire \/ LoadTables \/ EndProcess \/ ClearTables
    \/ \E c \in Chats : ChangeThread(c) \/ DeleteThread(c) \/ OpenChat(c)
    \/ \E m \in Local : WriteLocal(m)
    \/ \E m \in Rows : DeleteMessage(m)
    \/ \E m \in Rows \ Local, k \in 1 .. Copies : Arrives(m, k) \/ ArrivesAgain(m, k)

StoreSpec == StoreInit /\ [][StoreNext]_storeVars

-----------------------------------------------------------------------------
(* Properties.                                                               *)

\* A save that succeeds leaves in the table what writing all of memory would: skipping what
\* the fingerprints say is unchanged skips nothing that a failed save, a row written,
\* deleted or expired directly, a page loaded, a restart or a logout has made differ.  Only
\* chats left over by one of three failing writes may differ.
SaveWritesAll ==
    [][ cache' = UpdateCache /\ table' = Apply /\ UNCHANGED memory /\ loggedIn =>
        /\ table'.slices = memory.slices
        /\ DOMAIN memory.chats \subseteq DOMAIN table'.chats
        /\ DOMAIN table'.chats \subseteq DOMAIN memory.chats \cup left
        /\ \A c \in DOMAIN memory.chats \ left : table'.chats[c] = Written(c)
        /\ Elements(memory.seen) \subseteq SeenIn(table')
        /\ ~blind => SeenIn(table') = Elements(memory.seen)
      ]_storeVars
=============================================================================
