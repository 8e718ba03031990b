--------------------------- MODULE AppStoreProofs ---------------------------
(* That a save writes everything that differs, for any messages and bounds. *)
EXTENDS AppStore, FiniteSetTheorems, SequenceTheorems, WellFoundedInduction, TLAPS

-----------------------------------------------------------------------------
(* The inductive invariant, over memory (M), tables (T), fingerprints (C).   *)

Bags == Partial(Chats, Thread)
Windows == [SeenEvents -> Nat]

MemoryType == [slices : {1, 2}, chats : Bags, seen : Seq(SeenEvents)]
TableType == [slices : {0, 1, 2}, chats : Bags, seen : Windows]
CacheType == [slices : {0, 1, 2}, chats : Bags, seen : SUBSET SeenEvents, next : Nat \ {0}]

Types ==
    /\ memory \in MemoryType /\ table \in TableType /\ cache \in CacheType
    /\ left \subseteq Chats /\ used \subseteq Local

\* The slices were written as they are fingerprinted.
SlicesAgree(T, C) == C.slices # NeverWritten => C.slices = T.slices

\* Every fingerprinted window entry is in the table, and every one of the table is
\* fingerprinted unless it could not be loaded.  Rows come with the first save.
WindowsAgree(T, C, loaded) ==
    /\ C.seen \subseteq SeenIn(T)
    /\ loaded => SeenIn(T) \subseteq C.seen
    /\ T.slices = NeverWritten => SeenIn(T) = {}

LoadedRows(M, c) == IF c \in DOMAIN M.chats THEN DOMAIN M.chats[c].rows ELSE {}

\* A thread is stored as fingerprinted where both have it.
Copied(t, f) ==
    /\ t.head = f.head /\ t.draft = f.draft
    /\ \A m \in DOMAIN f.rows \cap DOMAIN t.rows : t.rows[m] = f.rows[m]

\* A fingerprinted row that the table has no more is not in memory either.
Forgotten(t, f, loaded) == \A m \in DOMAIN f.rows : m \in DOMAIN t.rows \/ m \notin loaded

ChatsAgree(M, T, C, L) ==
    /\ DOMAIN C.chats \subseteq DOMAIN T.chats
    /\ \A c \in DOMAIN C.chats : Copied(T.chats[c], C.chats[c])
    /\ \A c \in DOMAIN C.chats \ L : Forgotten(T.chats[c], C.chats[c], LoadedRows(M, c))

\* A message written here is nowhere before it is.
Numbered(chats, U) == \A c \in DOMAIN chats : DOMAIN chats[c].rows \cap Local \subseteq U

LocalKnown(M, T, C, U) == Numbered(M.chats, U) /\ Numbered(T.chats, U) /\ Numbered(C.chats, U)

StoreInv ==
    /\ Types
    /\ SlicesAgree(table, cache)
    /\ WindowsAgree(table, cache, loggedIn /\ ~blind)
    /\ ChatsAgree(memory, table, cache, left)
    /\ LocalKnown(memory, table, cache, used)
    /\ loggedIn => DOMAIN table.chats \subseteq DOMAIN memory.chats \cup left
    /\ ~loggedIn => memory = NoMemory

-----------------------------------------------------------------------------
(* Lemmas about partial functions.                                           *)

LEMMA PartialDef ==
    ASSUME NEW D, NEW R, NEW f
    PROVE  f \in Partial(D, R) <=> DOMAIN f \subseteq D /\ f \in [DOMAIN f -> R]
  BY DEF Partial

LEMMA OverValue ==
    ASSUME NEW f, NEW g
    PROVE  /\ DOMAIN Over(f, g) = DOMAIN f \cup DOMAIN g
           /\ \A x \in DOMAIN f : Over(f, g)[x] = f[x]
           /\ \A x \in DOMAIN g \ DOMAIN f : Over(f, g)[x] = g[x]
  BY DEF Over

LEMMA OverType ==
    ASSUME NEW D, NEW R, NEW f \in Partial(D, R), NEW g \in Partial(D, R)
    PROVE  Over(f, g) \in Partial(D, R)
  <1>1. DOMAIN f \subseteq D /\ f \in [DOMAIN f -> R] /\ DOMAIN g \subseteq D /\ g \in [DOMAIN g -> R]
    BY PartialDef
  <1>2. Over(f, g) \in [DOMAIN f \cup DOMAIN g -> R]
    BY <1>1 DEF Over
  <1>3. DOMAIN Over(f, g) = DOMAIN f \cup DOMAIN g
    BY DEF Over
  <1> QED BY <1>1, <1>2, <1>3, PartialDef

LEMMA LessValue ==
    ASSUME NEW f, NEW S
    PROVE  /\ DOMAIN Less(f, S) = DOMAIN f \ S
           /\ \A x \in DOMAIN f \ S : Less(f, S)[x] = f[x]
  BY DEF Less

LEMMA LessType ==
    ASSUME NEW D, NEW R, NEW f \in Partial(D, R), NEW S
    PROVE  Less(f, S) \in Partial(D, R)
  <1>1. DOMAIN f \subseteq D /\ f \in [DOMAIN f -> R]
    BY PartialDef
  <1>2. Less(f, S) \in [DOMAIN f \ S -> R]
    BY <1>1 DEF Less
  <1>3. DOMAIN Less(f, S) = DOMAIN f \ S
    BY DEF Less
  <1> QED BY <1>1, <1>2, <1>3, PartialDef

LEMMA PutValue ==
    ASSUME NEW f, NEW x, NEW v
    PROVE  /\ DOMAIN Put(f, x, v) = DOMAIN f \cup {x}
           /\ Put(f, x, v)[x] = v
           /\ \A y \in DOMAIN f \ {x} : Put(f, x, v)[y] = f[y]
  BY DEF Put, Over

LEMMA PutType ==
    ASSUME NEW D, NEW R, NEW f \in Partial(D, R), NEW x \in D, NEW v \in R
    PROVE  Put(f, x, v) \in Partial(D, R)
  <1> DEFINE one == [y \in {x} |-> v]
  <1>1. one \in [DOMAIN one -> R] /\ DOMAIN one = {x}
    OBVIOUS
  <1> HIDE DEF one
  <1>2. one \in Partial(D, R)
    BY <1>1, PartialDef
  <1>3. Over(one, f) \in Partial(D, R)
    BY <1>2, OverType
  <1> QED BY <1>3 DEF Put, one

-----------------------------------------------------------------------------
(* Threads and their rows.                                                   *)

LEMMA ThreadParts ==
    ASSUME NEW t \in Thread
    PROVE  /\ t.head \in Bit /\ t.draft \in Bit /\ t.rows \in Partial(Rows, RowValue)
           /\ \A r \in Partial(Rows, RowValue) :
                 /\ [t EXCEPT !.rows = r] \in Thread
                 /\ [t EXCEPT !.rows = r].rows = r
                 /\ [t EXCEPT !.rows = r].head = t.head
                 /\ [t EXCEPT !.rows = r].draft = t.draft
           /\ \A h \in Bit :
                 /\ [t EXCEPT !.head = h] \in Thread /\ [t EXCEPT !.draft = h] \in Thread
                 /\ [t EXCEPT !.head = h].rows = t.rows /\ [t EXCEPT !.draft = h].rows = t.rows
           /\ \A h \in Bit, r \in Partial(Rows, RowValue) :
                 /\ [t EXCEPT !.head = h, !.rows = r] \in Thread
                 /\ [t EXCEPT !.head = h, !.rows = r].rows = r
  BY DEF Thread

\* Two threads are the same when their parts are.
LEMMA SameThread ==
    ASSUME NEW t \in Thread, NEW u \in Thread,
           t.head = u.head, t.draft = u.draft, t.rows = u.rows
    PROVE  t = u
  BY DEF Thread

LEMMA EmptyThreadType == EmptyThread \in Thread
  <1>1. NoRows \in Partial(Rows, RowValue)
    <2>1. NoRows \in [{} -> RowValue] /\ DOMAIN NoRows = {}
      BY DEF NoRows
    <2> QED BY <2>1, PartialDef
  <1> QED BY <1>1 DEF EmptyThread, Thread, Bit

LEMMA NoRowsInBags == NoRows \in Bags /\ DOMAIN NoRows = {}
  <1>1. NoRows \in [{} -> Thread] /\ DOMAIN NoRows = {}
    BY DEF NoRows
  <1> QED BY <1>1, PartialDef DEF Bags

LEMMA ThreadOfBag ==
    ASSUME NEW f \in Bags, NEW c \in DOMAIN f
    PROVE  f[c] \in Thread /\ c \in Chats
  BY PartialDef DEF Bags

\* Rows go from every chat, and nothing else does.
LEMMA RowsGoneValue ==
    ASSUME NEW f \in Bags, NEW G
    PROVE  /\ RowsGone(f, G) \in Bags /\ DOMAIN RowsGone(f, G) = DOMAIN f
           /\ \A c \in DOMAIN f :
                /\ RowsGone(f, G)[c].head = f[c].head /\ RowsGone(f, G)[c].draft = f[c].draft
                /\ DOMAIN RowsGone(f, G)[c].rows = DOMAIN f[c].rows \ G
                /\ \A m \in DOMAIN f[c].rows \ G : RowsGone(f, G)[c].rows[m] = f[c].rows[m]
  <1>1. /\ DOMAIN RowsGone(f, G) = DOMAIN f
        /\ RowsGone(f, G) = [c \in DOMAIN f |-> RowsGone(f, G)[c]]
    BY DEF RowsGone
  <1>2. ASSUME NEW c \in DOMAIN f
        PROVE  /\ RowsGone(f, G)[c] \in Thread
               /\ RowsGone(f, G)[c].head = f[c].head /\ RowsGone(f, G)[c].draft = f[c].draft
               /\ RowsGone(f, G)[c].rows = Less(f[c].rows, G)
    <2> DEFINE t == f[c]
               r == Less(t.rows, G)
    <2>1. t \in Thread
      BY ThreadOfBag
    <2>2. r \in Partial(Rows, RowValue)
      BY <2>1, ThreadParts, LessType
    <2>3. RowsGone(f, G)[c] = [t EXCEPT !.rows = r]
      BY <2>1 DEF RowsGone, Thread
    <2>4. r = Less(f[c].rows, G) /\ t = f[c]
      OBVIOUS
    <2> HIDE DEF r, t
    <2>5. /\ [t EXCEPT !.rows = r] \in Thread /\ [t EXCEPT !.rows = r].rows = r
          /\ [t EXCEPT !.rows = r].head = t.head /\ [t EXCEPT !.rows = r].draft = t.draft
      BY <2>1, <2>2, ThreadParts
    <2> QED BY <2>3, <2>4, <2>5
  <1>3. RowsGone(f, G) \in [DOMAIN f -> Thread]
    BY <1>1, <1>2
  <1>4. RowsGone(f, G) \in Bags
    BY <1>1, <1>3, PartialDef, ThreadOfBag DEF Bags
  <1>5. ASSUME NEW c \in DOMAIN f
        PROVE  /\ DOMAIN RowsGone(f, G)[c].rows = DOMAIN f[c].rows \ G
               /\ \A m \in DOMAIN f[c].rows \ G : RowsGone(f, G)[c].rows[m] = f[c].rows[m]
    <2>1. RowsGone(f, G)[c].rows = Less(f[c].rows, G)
      BY <1>2
    <2> QED BY <2>1 DEF Less
  <1> QED BY <1>1, <1>2, <1>4, <1>5

-----------------------------------------------------------------------------
(* Fingerprints.                                                             *)

\* Rows that go from the table and from memory keep a fingerprint good.
LEMMA RowsForgotten ==
    ASSUME NEW M, NEW T, NEW C, NEW L, NEW N, NEW S, NEW D, NEW K, NEW G,
           ChatsAgree(M, T, C, L), T.chats \in Bags, S.chats = RowsGone(T.chats, G),
           DOMAIN D.chats \subseteq DOMAIN C.chats,
           \A c \in DOMAIN D.chats : D.chats[c] = C.chats[c],
           \A c \in DOMAIN D.chats \ K : \A m \in LoadedRows(N, c) :
              m \in DOMAIN S.chats[c].rows \/ (c \notin L /\ m \in LoadedRows(M, c) \ G)
    PROVE  ChatsAgree(N, S, D, K)
  <1> DEFINE t == T.chats
             s == S.chats
             f == C.chats
             g == D.chats
  <1>1. /\ DOMAIN s = DOMAIN t
        /\ \A c \in DOMAIN t :
             /\ s[c].head = t[c].head /\ s[c].draft = t[c].draft
             /\ DOMAIN s[c].rows = DOMAIN t[c].rows \ G
             /\ \A m \in DOMAIN t[c].rows \ G : s[c].rows[m] = t[c].rows[m]
    BY RowsGoneValue
  <1>2. /\ DOMAIN f \subseteq DOMAIN t
        /\ \A c \in DOMAIN f : Copied(t[c], f[c])
        /\ \A c \in DOMAIN f \ L : Forgotten(t[c], f[c], LoadedRows(M, c))
    BY DEF ChatsAgree
  <1>3. /\ DOMAIN g \subseteq DOMAIN f /\ \A c \in DOMAIN g : g[c] = f[c]
        /\ \A c \in DOMAIN g \ K : \A m \in LoadedRows(N, c) :
              m \in DOMAIN s[c].rows \/ (c \notin L /\ m \in LoadedRows(M, c) \ G)
    OBVIOUS
  <1>4. ChatsAgree(N, S, D, K) <=>
        /\ DOMAIN g \subseteq DOMAIN s
        /\ \A c \in DOMAIN g : Copied(s[c], g[c])
        /\ \A c \in DOMAIN g \ K : Forgotten(s[c], g[c], LoadedRows(N, c))
    BY DEF ChatsAgree
  <1> HIDE DEF t, s, f, g
  <1>5. ASSUME NEW c \in DOMAIN g PROVE Copied(s[c], g[c])
    <2>1. Copied(t[c], g[c]) /\ c \in DOMAIN t
      BY <1>2, <1>3
    <2> QED BY <1>1, <2>1 DEF Copied
  <1>6. ASSUME NEW c \in DOMAIN g \ K PROVE Forgotten(s[c], g[c], LoadedRows(N, c))
    <2>1. c \in DOMAIN t /\ g[c] = f[c] /\ c \in DOMAIN f
      BY <1>2, <1>3
    <2>2. ASSUME NEW m \in DOMAIN g[c].rows, m \in LoadedRows(N, c) PROVE m \in DOMAIN s[c].rows
      <3>1. CASE c \notin L /\ m \in LoadedRows(M, c) \ G
        <4>1. m \in DOMAIN t[c].rows
          BY <1>2, <2>1, <2>2, <3>1 DEF Forgotten
        <4> QED BY <1>1, <2>1, <3>1, <4>1
      <3> QED BY <1>3, <2>2, <3>1
    <2> QED BY <2>2 DEF Forgotten
  <1> QED BY <1>1, <1>2, <1>3, <1>4, <1>5, <1>6

\* Memory of one chat changes, or of none.
LEMMA MemoryAgrees ==
    ASSUME NEW M, NEW N, NEW T, NEW C, NEW L, NEW c, ChatsAgree(M, T, C, L),
           \A d : d # c => LoadedRows(N, d) = LoadedRows(M, d),
           c \in DOMAIN C.chats \ L =>
              \A m \in LoadedRows(N, c) :
                 \/ m \in LoadedRows(M, c) \/ m \in DOMAIN T.chats[c].rows
                 \/ m \notin DOMAIN C.chats[c].rows
    PROVE  ChatsAgree(N, T, C, L)
  <1>1. ASSUME NEW d \in DOMAIN C.chats \ L
        PROVE  Forgotten(T.chats[d], C.chats[d], LoadedRows(N, d))
    <2>1. Forgotten(T.chats[d], C.chats[d], LoadedRows(M, d))
      BY DEF ChatsAgree
    <2>2. CASE d # c
      BY <2>1, <2>2
    <2>3. CASE d = c
      BY <2>1, <2>3 DEF Forgotten
    <2> QED BY <2>2, <2>3
  <1> QED BY <1>1 DEF ChatsAgree

-----------------------------------------------------------------------------
(* What a save writes.                                                       *)

LEMMA WrittenValue ==
    ASSUME Types, NEW c \in DOMAIN memory.chats
    PROVE  /\ Written(c) \in Thread
           /\ Written(c).head = memory.chats[c].head /\ Written(c).draft = memory.chats[c].draft
           /\ Written(c).rows = Over(memory.chats[c].rows,
                                     IF c \in DOMAIN table.chats THEN table.chats[c].rows ELSE NoRows)
  <1> DEFINE t == memory.chats[c]
             old == IF c \in DOMAIN table.chats THEN table.chats[c].rows ELSE NoRows
             r == Over(t.rows, old)
  <1>1. t \in Thread
    BY ThreadOfBag DEF Types, MemoryType
  <1>2. old \in Partial(Rows, RowValue)
    <2>1. CASE c \in DOMAIN table.chats
      <3>1. table.chats \in Bags
        BY DEF Types, TableType
      <3>2. table.chats[c] \in Thread
        BY <2>1, <3>1, ThreadOfBag
      <3>3. table.chats[c].rows \in Partial(Rows, RowValue)
        BY <3>2, ThreadParts
      <3>4. old = table.chats[c].rows
        BY <2>1
      <3> HIDE DEF old
      <3> QED BY <3>3, <3>4
    <2>2. CASE c \notin DOMAIN table.chats
      <3>1. NoRows \in [{} -> RowValue] /\ DOMAIN NoRows = {}
        BY DEF NoRows
      <3> QED BY <2>2, <3>1, PartialDef
    <2> QED BY <2>1, <2>2
  <1>3. r \in Partial(Rows, RowValue)
    BY <1>1, <1>2, ThreadParts, OverType
  <1>4. Written(c) = [t EXCEPT !.rows = r]
    BY <1>1 DEF Written, Thread
  <1> HIDE DEF r
  <1>5. Written(c) \in Thread /\ Written(c).rows = r /\ Written(c).head = t.head /\ Written(c).draft = t.draft
    <2> HIDE DEF t
    <2>1. /\ [t EXCEPT !.rows = r] \in Thread /\ [t EXCEPT !.rows = r].rows = r
          /\ [t EXCEPT !.rows = r].head = t.head /\ [t EXCEPT !.rows = r].draft = t.draft
      BY <1>1, <1>3, ThreadParts
    <2> QED BY <1>4, <2>1
  <1> QED BY <1>5 DEF r

LEMMA ApplyParts ==
    /\ Apply.slices = SlicesRow /\ Apply.seen = SeenRows
    /\ Apply.chats = Over([c \in ThreadsToWrite |-> Written(c)], Less(table.chats, ThreadsToDelete))
  BY DEF Apply

\* The chats of the table after a save.
LEMMA ChatsOfApply ==
    ASSUME Types
    PROVE  /\ DOMAIN Apply.chats = ThreadsToWrite \cup (DOMAIN table.chats \ ThreadsToDelete)
           /\ \A c \in ThreadsToWrite : Apply.chats[c] = Written(c)
           /\ \A c \in DOMAIN table.chats \ (ThreadsToWrite \cup ThreadsToDelete) :
                Apply.chats[c] = table.chats[c]
           /\ Apply.chats \in Bags
  <1> DEFINE new == [c \in ThreadsToWrite |-> Written(c)]
             kept == Less(table.chats, ThreadsToDelete)
  <1>1. Apply.chats = Over(new, kept)
    BY ApplyParts
  <1>2. DOMAIN new = ThreadsToWrite /\ \A c \in ThreadsToWrite : new[c] = Written(c)
    OBVIOUS
  <1>3. ThreadsToWrite \subseteq DOMAIN memory.chats
    BY DEF ThreadsToWrite
  <1>4. new \in Bags
    <2>1. \A c \in ThreadsToWrite : Written(c) \in Thread
      BY <1>3, WrittenValue
    <2>2. new \in [ThreadsToWrite -> Thread]
      BY <2>1
    <2>3. ThreadsToWrite \subseteq Chats
      BY <1>3, ThreadOfBag DEF Types, MemoryType
    <2> HIDE DEF new
    <2> QED BY <2>2, <2>3, <1>2, PartialDef DEF Bags
  <1>5. kept \in Bags
    BY LessType DEF Types, TableType, Bags
  <1>6. DOMAIN kept = DOMAIN table.chats \ ThreadsToDelete /\ \A c \in DOMAIN kept : kept[c] = table.chats[c]
    BY DEF Less
  <1> HIDE DEF new, kept
  <1>7. Apply.chats \in Bags
    BY <1>1, <1>4, <1>5, OverType DEF Bags
  <1>8. DOMAIN Apply.chats = DOMAIN new \cup DOMAIN kept
    <2>1. DOMAIN Over(new, kept) = DOMAIN new \cup DOMAIN kept
      BY OverValue
    <2> QED BY <1>1, <2>1
  <1>9. ASSUME NEW c \in ThreadsToWrite PROVE Apply.chats[c] = Written(c)
    <2>1. c \in DOMAIN new /\ new[c] = Written(c)
      BY <1>2
    <2>2. Over(new, kept)[c] = new[c]
      BY <2>1, OverValue
    <2> QED BY <1>1, <2>1, <2>2
  <1>10. ASSUME NEW c \in DOMAIN table.chats \ (ThreadsToWrite \cup ThreadsToDelete)
         PROVE  Apply.chats[c] = table.chats[c]
    <2>1. c \in DOMAIN kept \ DOMAIN new
      BY <1>2, <1>6
    <2> QED BY <1>1, <1>6, <2>1 DEF Over
  <1> QED BY <1>2, <1>6, <1>7, <1>8, <1>9, <1>10

LEMMA SequenceIsPositive ==
    ASSUME Types, NEW i
    PROVE  Cardinality(ToInsert) \in Nat /\ Sequence(i) \in Nat /\ Sequence(i) > 0
  <1>1. Len(memory.seen) \in Nat /\ DOMAIN memory.seen = 1 .. Len(memory.seen)
    BY LenProperties DEF Types, MemoryType
  <1>2. IsFiniteSet(DOMAIN memory.seen)
    BY <1>1, FS_Interval
  <1>3. IsFiniteSet(ToInsert)
    BY <1>2, FS_Subset DEF ToInsert
  <1> DEFINE before == {j \in ToInsert : j < i}
  <1>4. before \subseteq ToInsert
    OBVIOUS
  <1>5. Sequence(i) = cache.next + Cardinality(before)
    BY DEF Sequence
  <1> HIDE DEF before
  <1>6. IsFiniteSet(before)
    BY <1>3, <1>4, FS_Subset
  <1>7. Cardinality(before) \in Nat /\ Cardinality(ToInsert) \in Nat
    BY <1>3, <1>6, FS_CardinalityType
  <1>8. cache.next \in Nat \ {0}
    BY DEF Types, CacheType
  <1> QED BY <1>5, <1>7, <1>8

LEMMA SeenEntries ==
    ASSUME Types
    PROVE  /\ Elements(memory.seen) \subseteq SeenEvents
           /\ \A e \in Elements(memory.seen) \ cache.seen : \E i \in ToInsert : memory.seen[i] = e
           /\ \A i \in ToInsert : memory.seen[i] \in Elements(memory.seen)
  <1>1. DOMAIN memory.seen = 1 .. Len(memory.seen) /\ memory.seen \in Seq(SeenEvents)
    BY LenProperties DEF Types, MemoryType
  <1>2. \A i \in DOMAIN memory.seen : memory.seen[i] \in SeenEvents
    BY <1>1, ElementOfSeq
  <1> QED BY <1>1, <1>2 DEF Elements, ToInsert

\* The window after a save.
LEMMA WindowOfApply ==
    ASSUME Types, WindowsAgree(table, cache, loggedIn /\ ~blind)
    PROVE  /\ SeenRows \in Windows
           /\ Elements(memory.seen) \subseteq SeenIn(Apply)
           /\ loggedIn /\ ~blind => SeenIn(Apply) = Elements(memory.seen)
  <1>1. \A e \in SeenEvents : table.seen[e] \in Nat
    BY DEF Types, TableType, Windows
  <1> DEFINE new(e) == Sequence(CHOOSE i \in ToInsert : memory.seen[i] = e)
             row(e) == IF e \in SeenIn(table)
                       THEN IF e \in cache.seen \ Elements(memory.seen) THEN 0 ELSE table.seen[e]
                       ELSE IF \E i \in ToInsert : memory.seen[i] = e THEN new(e) ELSE 0
  <1>2. \A e \in SeenEvents : new(e) \in Nat /\ new(e) > 0
    BY SequenceIsPositive
  <1>3. \A e \in SeenEvents : SeenRows[e] = row(e)
    BY DEF SeenRows
  <1>4. \A e \in SeenEvents : row(e) \in Nat
    <2> HIDE DEF new
    <2> QED BY <1>1, <1>2
  <1>5. SeenRows \in Windows
    <2>1. SeenRows = [e \in SeenEvents |-> row(e)]
      BY DEF SeenRows
    <2> HIDE DEF row
    <2> QED BY <1>4, <2>1 DEF Windows
  <1>6. \A e : e \in SeenIn(Apply) <=> e \in SeenEvents /\ row(e) > 0
    <2>1. Apply.seen = SeenRows
      BY ApplyParts
    <2> HIDE DEF row
    <2> QED BY <1>3, <2>1 DEF SeenIn
  <1>7. \A e \in SeenIn(table) : e \in SeenEvents /\ table.seen[e] > 0
    BY DEF SeenIn
  <1> HIDE DEF new
  <1>8. ASSUME NEW e \in Elements(memory.seen) PROVE row(e) > 0 /\ e \in SeenEvents
    <2>1. e \in SeenEvents
      BY SeenEntries
    <2>2. CASE e \in SeenIn(table)
      BY <1>7, <2>2
    <2>3. CASE e \notin SeenIn(table)
      <3>1. e \notin cache.seen
        BY <2>3 DEF WindowsAgree
      <3>2. \E i \in ToInsert : memory.seen[i] = e
        BY <3>1, SeenEntries
      <3> QED BY <1>2, <2>1, <2>3, <3>2
    <2> QED BY <2>1, <2>2, <2>3
  <1>9. ASSUME loggedIn, ~blind, NEW e \in SeenEvents, row(e) > 0
        PROVE  e \in Elements(memory.seen)
    <2>1. CASE e \in SeenIn(table)
      <3>1. e \in cache.seen
        BY <1>9, <2>1 DEF WindowsAgree
      <3> QED BY <1>9, <2>1, <3>1
    <2>2. CASE e \notin SeenIn(table)
      <3>1. \E i \in ToInsert : memory.seen[i] = e
        BY <1>9, <2>2
      <3> QED BY <3>1, SeenEntries
    <2> QED BY <2>1, <2>2
  <1> HIDE DEF row
  <1> QED BY <1>5, <1>6, <1>8, <1>9

\* A chat that is not left over is stored as memory has it.
LEMMA ChatsAfterSave ==
    ASSUME StoreInv, loggedIn
    PROVE  /\ DOMAIN memory.chats \subseteq DOMAIN Apply.chats
           /\ DOMAIN Apply.chats \subseteq DOMAIN memory.chats \cup left
           /\ \A c \in DOMAIN memory.chats \ left : Apply.chats[c] = Written(c)
  <1>1. Types /\ ChatsAgree(memory, table, cache, left)
    BY DEF StoreInv
  <1>2. \A c \in DOMAIN memory.chats : c \notin ThreadsToDelete
    BY DEF ThreadsToDelete
  <1>3. \A c \in DOMAIN memory.chats \ ThreadsToWrite : c \in DOMAIN table.chats
    BY <1>1 DEF ThreadsToWrite, ChatsAgree
  <1>4. DOMAIN memory.chats \subseteq DOMAIN Apply.chats
    BY <1>1, <1>2, <1>3, ChatsOfApply
  <1>5. DOMAIN Apply.chats \subseteq DOMAIN memory.chats \cup left
    <2>1. ThreadsToWrite \subseteq DOMAIN memory.chats
      BY DEF ThreadsToWrite
    <2>2. DOMAIN table.chats \subseteq DOMAIN memory.chats \cup left
      BY DEF StoreInv
    <2> QED BY <1>1, <2>1, <2>2, ChatsOfApply
  <1>6. ASSUME NEW c \in DOMAIN memory.chats \ left, c \notin ThreadsToWrite
        PROVE  Apply.chats[c] = Written(c)
    <2>1. c \in DOMAIN cache.chats /\ cache.chats[c] = memory.chats[c]
      BY <1>6 DEF ThreadsToWrite
    <2>2. Apply.chats[c] = table.chats[c] /\ c \in DOMAIN table.chats
      BY <1>1, <1>2, <1>3, <1>6, ChatsOfApply
    <2>3. /\ Copied(table.chats[c], memory.chats[c])
          /\ Forgotten(table.chats[c], memory.chats[c], DOMAIN memory.chats[c].rows)
      BY <1>1, <2>1 DEF ChatsAgree, LoadedRows
    <2> DEFINE t == table.chats[c]
               f == memory.chats[c]
               w == Written(c)
    <2>4. t \in Thread /\ f \in Thread /\ w \in Thread
      <3>1. table.chats \in Bags /\ memory.chats \in Bags
        BY <1>1 DEF Types, TableType, MemoryType
      <3> QED BY <1>1, <2>2, <3>1, WrittenValue, ThreadOfBag
    <2>5. t.head = w.head /\ t.draft = w.draft /\ w.rows = Over(f.rows, t.rows)
      BY <1>1, <2>2, <2>3, WrittenValue DEF Copied
    <2>6. DOMAIN f.rows \subseteq DOMAIN t.rows /\ \A m \in DOMAIN f.rows : t.rows[m] = f.rows[m]
      BY <2>3 DEF Copied, Forgotten
    <2> HIDE DEF t, f, w
    <2>7. t.rows \in Partial(Rows, RowValue) /\ f.rows \in Partial(Rows, RowValue)
      BY <2>4, ThreadParts
    <2>8. Over(f.rows, t.rows) = t.rows
      <3> DEFINE r == f.rows
                 u == t.rows
      <3>1. u \in [DOMAIN u -> RowValue]
        BY <2>7, PartialDef
      <3>2. DOMAIN r \subseteq DOMAIN u /\ \A m \in DOMAIN r : u[m] = r[m]
        BY <2>6
      <3> HIDE DEF r, u
      <3>3. DOMAIN Over(r, u) = DOMAIN u /\ \A m \in DOMAIN u : Over(r, u)[m] = u[m]
        BY <3>2 DEF Over
      <3>4. Over(r, u) = [m \in DOMAIN u |-> Over(r, u)[m]]
        BY <3>3 DEF Over
      <3>5. Over(r, u) = u
        BY <3>1, <3>3, <3>4
      <3> QED BY <3>5 DEF r, u
    <2>9. t = w
      BY <2>4, <2>5, <2>8, SameThread
    <2> QED BY <2>2, <2>9 DEF t, w
  <1>7. \A c \in ThreadsToWrite : Apply.chats[c] = Written(c)
    BY <1>1, ChatsOfApply
  <1> QED BY <1>4, <1>5, <1>6, <1>7

\* Slices that look unchanged are stored.
LEMMA SlicesAfterSave ==
    ASSUME StoreInv
    PROVE  Apply.slices = memory.slices
  <1>1. memory.slices # NeverWritten /\ SlicesAgree(table, cache)
    BY DEF StoreInv, Types, MemoryType, NeverWritten
  <1>2. Apply.slices = SlicesRow
    BY ApplyParts
  <1> QED BY <1>1, <1>2 DEF SlicesRow, SlicesChanged, SlicesAgree

-----------------------------------------------------------------------------
(* Changes of the chats.                                                     *)

LEMMA WithChats ==
    ASSUME NEW b \in Bags
    PROVE  /\ \A M \in MemoryType :
                /\ [M EXCEPT !.chats = b] \in MemoryType
                /\ [M EXCEPT !.chats = b].chats = b
           /\ \A T \in TableType :
                /\ [T EXCEPT !.chats = b] \in TableType
                /\ [T EXCEPT !.chats = b].chats = b
                /\ [T EXCEPT !.chats = b].slices = T.slices
                /\ [T EXCEPT !.chats = b].seen = T.seen
           /\ \A C \in CacheType :
                /\ [C EXCEPT !.chats = b] \in CacheType
                /\ [C EXCEPT !.chats = b].chats = b
                /\ [C EXCEPT !.chats = b].slices = C.slices
                /\ [C EXCEPT !.chats = b].seen = C.seen
  BY DEF MemoryType, TableType, CacheType

LEMMA ChatTypes ==
    ASSUME Types
    PROVE  memory.chats \in Bags /\ table.chats \in Bags /\ cache.chats \in Bags
  BY DEF Types, MemoryType, TableType, CacheType

\* One chat of memory gets another value.
LEMMA PutMemory ==
    ASSUME NEW M \in MemoryType, NEW N \in MemoryType, NEW c \in Chats, NEW t \in Thread,
           N.chats = Put(M.chats, c, t)
    PROVE  /\ N.chats \in Bags /\ DOMAIN N.chats = DOMAIN M.chats \cup {c}
           /\ LoadedRows(N, c) = DOMAIN t.rows
           /\ \A d : d # c => LoadedRows(N, d) = LoadedRows(M, d)
           /\ \A U : Numbered(M.chats, U) /\ DOMAIN t.rows \cap Local \subseteq U => Numbered(N.chats, U)
  <1> DEFINE f == M.chats
             g == Put(f, c, t)
  <1>0. f \in Partial(Chats, Thread) /\ N.chats = g /\ M.chats = f
    BY DEF Bags, MemoryType
  <1> HIDE DEF f
  <1>1. g \in Bags
    BY <1>0, PutType DEF Bags
  <1>2. DOMAIN g = DOMAIN f \cup {c} /\ g[c] = t /\ \A d \in DOMAIN f \ {c} : g[d] = f[d]
    BY DEF Put, Over
  <1>3. N.chats = g /\ M.chats = f
    BY <1>0
  <1> HIDE DEF g
  <1>4. LoadedRows(N, c) = DOMAIN t.rows
    BY <1>2, <1>3 DEF LoadedRows
  <1>5. ASSUME NEW d, d # c PROVE LoadedRows(N, d) = LoadedRows(M, d)
    BY <1>2, <1>3, <1>5 DEF LoadedRows
  <1>6. ASSUME NEW U, Numbered(f, U), DOMAIN t.rows \cap Local \subseteq U PROVE Numbered(g, U)
    <2>1. ASSUME NEW d \in DOMAIN g PROVE DOMAIN g[d].rows \cap Local \subseteq U
      <3>1. CASE d = c
        BY <1>2, <1>6, <3>1
      <3>2. CASE d # c
        <4>1. d \in DOMAIN f /\ g[d] = f[d]
          BY <1>2, <3>2
        <4> QED BY <1>6, <4>1 DEF Numbered
      <3> QED BY <3>1, <3>2
    <2> QED BY <2>1 DEF Numbered
  <1> QED BY <1>1, <1>2, <1>3, <1>4, <1>5, <1>6

\* A step that leaves tables and fingerprints alone.
LEMMA MemoryMoves ==
    ASSUME StoreInv, table' = table, cache' = cache, blind' = blind,
           loggedIn, loggedIn' = loggedIn, memory' \in MemoryType,
           left \subseteq left', left' \subseteq Chats, used \subseteq used', used' \subseteq Local,
           ChatsAgree(memory', table, cache, left'), Numbered(memory'.chats, used'),
           DOMAIN table.chats \subseteq DOMAIN memory'.chats \cup left'
    PROVE  StoreInv'
  <1>1. Types'
    BY DEF StoreInv, Types
  <1>2. SlicesAgree(table, cache)' /\ WindowsAgree(table, cache, loggedIn /\ ~blind)'
    BY DEF StoreInv, SlicesAgree, WindowsAgree, SeenIn
  <1>3. ChatsAgree(memory, table, cache, left)'
    BY DEF ChatsAgree, LoadedRows, Copied, Forgotten
  <1>4. LocalKnown(memory, table, cache, used)'
    BY DEF StoreInv, LocalKnown, Numbered
  <1> QED BY <1>1, <1>2, <1>3, <1>4 DEF StoreInv

\* A change of one chat in memory that adds no row its fingerprint could still have.
LEMMA ChatMoves ==
    ASSUME StoreInv, table' = table, cache' = cache, blind' = blind,
           loggedIn, loggedIn' = loggedIn, memory' \in MemoryType,
           left \subseteq left', left' \subseteq Chats, used \subseteq used', used' \subseteq Local,
           NEW c \in Chats, NEW t \in Thread, memory'.chats = Put(memory.chats, c, t),
           c \in DOMAIN cache.chats \ left' =>
              \A m \in DOMAIN t.rows :
                 \/ m \in LoadedRows(memory, c) \/ m \in DOMAIN table.chats[c].rows
                 \/ m \notin DOMAIN cache.chats[c].rows,
           DOMAIN t.rows \cap Local \subseteq used'
    PROVE  StoreInv'
  <1> DEFINE N == memory'
  <1>1. memory \in MemoryType
    BY DEF StoreInv, Types
  <1>2. N.chats = Put(memory.chats, c, t) /\ N \in MemoryType
    OBVIOUS
  <1> HIDE DEF N
  <1>3. /\ DOMAIN N.chats = DOMAIN memory.chats \cup {c}
        /\ LoadedRows(N, c) = DOMAIN t.rows
        /\ \A d : d # c => LoadedRows(N, d) = LoadedRows(memory, d)
        /\ \A U : Numbered(memory.chats, U) /\ DOMAIN t.rows \cap Local \subseteq U => Numbered(N.chats, U)
    <2> DEFINE M == memory
    <2>1. M \in MemoryType /\ N.chats = Put(M.chats, c, t) /\ M = memory
      BY <1>1, <1>2
    <2> HIDE DEF M
    <2>2. DOMAIN N.chats = DOMAIN M.chats \cup {c}
      <3> DEFINE f == M.chats
                 g == N.chats
      <3>1. g = Put(f, c, t)
        BY <2>1
      <3> HIDE DEF f, g
      <3>2. DOMAIN g = DOMAIN f \cup {c}
        BY <3>1, PutValue
      <3> QED BY <3>2 DEF f, g
    <2>4. LoadedRows(N, c) = DOMAIN t.rows
      BY <1>2, <2>1, PutMemory
    <2>5. ASSUME NEW d, d # c PROVE LoadedRows(N, d) = LoadedRows(M, d)
      BY <1>2, <2>1, <2>5, PutMemory
    <2>3. ASSUME NEW U, Numbered(M.chats, U), DOMAIN t.rows \cap Local \subseteq U
          PROVE  Numbered(N.chats, U)
      BY <1>2, <2>1, <2>3, PutMemory
    <2> QED BY <2>1, <2>2, <2>3, <2>4, <2>5
  <1>4. ChatsAgree(memory, table, cache, left')
    BY DEF StoreInv, ChatsAgree
  <1>5. ChatsAgree(N, table, cache, left')
    BY <1>3, <1>4, MemoryAgrees
  <1>6. Numbered(memory.chats, used')
    BY DEF StoreInv, LocalKnown, Numbered
  <1>7. Numbered(N.chats, used')
    BY <1>3, <1>6
  <1>8. DOMAIN table.chats \subseteq DOMAIN N.chats \cup left'
    BY <1>3 DEF StoreInv
  <1> QED BY <1>2, <1>5, <1>7, <1>8, MemoryMoves DEF N

-----------------------------------------------------------------------------
(* Steps in memory.                                                          *)

LEMMA MemoryIs ==
    ASSUME Types, NEW c \in Chats, NEW t \in Thread, Memory(c, t)
    PROVE  memory' \in MemoryType /\ memory'.chats = Put(memory.chats, c, t)
  <1> DEFINE b == Put(memory.chats, c, t)
  <1>1. b \in Bags
    <2> DEFINE f == memory.chats
    <2>1. f \in Partial(Chats, Thread)
      BY ChatTypes DEF Bags
    <2> HIDE DEF f
    <2>2. Put(f, c, t) \in Bags
      BY <2>1, PutType DEF Bags
    <2> QED BY <2>2 DEF f
  <1>2. memory' = [memory EXCEPT !.chats = b] /\ memory \in MemoryType
    BY DEF Memory, Types
  <1>3. b = Put(memory.chats, c, t)
    OBVIOUS
  <1> HIDE DEF b
  <1> QED BY <1>1, <1>2, <1>3, WithChats

\* The chat of memory a message is put into.
LEMMA InMemoryType ==
    ASSUME StoreInv, NEW c
    PROVE  /\ InMemory(c) \in Thread /\ DOMAIN InMemory(c).rows = LoadedRows(memory, c)
           /\ DOMAIN InMemory(c).rows \cap Local \subseteq used
  <1>1. memory.chats \in Bags /\ Numbered(memory.chats, used)
    BY ChatTypes DEF StoreInv, LocalKnown
  <1>2. CASE c \in DOMAIN memory.chats
    BY <1>1, <1>2, ThreadOfBag DEF InMemory, LoadedRows, Numbered
  <1>3. CASE c \notin DOMAIN memory.chats
    BY <1>3, EmptyThreadType DEF InMemory, LoadedRows, EmptyThread, NoRows
  <1> QED BY <1>2, <1>3

\* A row is put into a thread.
LEMMA PutRow ==
    ASSUME NEW t \in Thread, NEW m \in Rows, NEW v \in RowValue
    PROVE  /\ Put(t.rows, m, v) \in Partial(Rows, RowValue)
           /\ DOMAIN Put(t.rows, m, v) = DOMAIN t.rows \cup {m}
  <1> DEFINE r == t.rows
  <1>1. r \in Partial(Rows, RowValue)
    BY ThreadParts
  <1> HIDE DEF r
  <1>2. Put(r, m, v) \in Partial(Rows, RowValue) /\ DOMAIN Put(r, m, v) = DOMAIN r \cup {m}
    BY <1>1, PutType, PutValue
  <1> QED BY <1>2 DEF r

LEMMA ChatOfRow ==
    ASSUME NEW m \in Rows
    PROVE  ChatOf[m] \in Chats
  BY DEF Chats

LEMMA ChangeSlicesKeeps ==
    ASSUME StoreInv, ChangeSlices
    PROVE  StoreInv'
  <1>1. memory \in MemoryType
    BY DEF StoreInv, Types
  <1>2. memory' \in MemoryType /\ memory'.chats = memory.chats
    BY <1>1 DEF ChangeSlices, MemoryType
  <1>3. ChatsAgree(memory', table, cache, left)
    BY <1>2 DEF StoreInv, ChatsAgree, LoadedRows
  <1> QED BY <1>2, <1>3, MemoryMoves DEF ChangeSlices, Edit, StoreInv, Types, LocalKnown

LEMMA ChangeThreadKeeps ==
    ASSUME StoreInv, NEW c \in Chats, ChangeThread(c)
    PROVE  StoreInv'
  <1> DEFINE t == memory.chats[c]
  <1>1. c \in DOMAIN memory.chats /\ loggedIn
    BY DEF ChangeThread, Edit
  <1>2. t \in Thread /\ memory.chats \in Bags
    BY <1>1, ChatTypes, ThreadOfBag DEF StoreInv
  <1>3. \E u \in Thread : Memory(c, u) /\ DOMAIN u.rows = DOMAIN t.rows
    <2> HIDE DEF t
    <2>1. CASE Memory(c, [t EXCEPT !.head = 1 - @])
      <3>1. 1 - t.head \in Bit
        BY <1>2 DEF Thread, Bit
      <3>2. [t EXCEPT !.head = 1 - @] = [t EXCEPT !.head = 1 - t.head]
        BY <1>2 DEF Thread
      <3> QED BY <1>2, <2>1, <3>1, <3>2, ThreadParts
    <2>2. CASE Memory(c, [t EXCEPT !.draft = 1 - @])
      <3>1. 1 - t.draft \in Bit
        BY <1>2 DEF Thread, Bit
      <3>2. [t EXCEPT !.draft = 1 - @] = [t EXCEPT !.draft = 1 - t.draft]
        BY <1>2 DEF Thread
      <3> QED BY <1>2, <2>2, <3>1, <3>2, ThreadParts
    <2>3. ASSUME NEW m \in DOMAIN t.rows, Memory(c, [t EXCEPT !.rows[m].mark = 1 - @])
          PROVE  \E u \in Thread : Memory(c, u) /\ DOMAIN u.rows = DOMAIN t.rows
      <3> DEFINE r == [t.rows EXCEPT ![m].mark = 1 - @]
      <3>1. t.rows \in [DOMAIN t.rows -> RowValue] /\ DOMAIN t.rows \subseteq Rows
        BY <1>2, ThreadParts, PartialDef
      <3>2. [t.rows[m] EXCEPT !.mark = 1 - @] \in RowValue
        BY <3>1 DEF RowValue, Bit
      <3>3. r \in [DOMAIN t.rows -> RowValue] /\ DOMAIN r = DOMAIN t.rows
        BY <3>1, <3>2
      <3>4. [t EXCEPT !.rows[m].mark = 1 - @] = [t EXCEPT !.rows = r]
        BY <1>2 DEF Thread
      <3> HIDE DEF r
      <3>5. r \in Partial(Rows, RowValue)
        BY <3>1, <3>3, PartialDef
      <3>6. [t EXCEPT !.rows = r] \in Thread /\ [t EXCEPT !.rows = r].rows = r
        BY <1>2, <3>5, ThreadParts
      <3> QED BY <2>3, <3>3, <3>4, <3>6
    <2> QED BY <2>1, <2>2, <2>3 DEF ChangeThread, t
  <1>4. PICK u \in Thread : Memory(c, u) /\ DOMAIN u.rows = DOMAIN t.rows
    BY <1>3
  <1>5. memory' \in MemoryType /\ memory'.chats = Put(memory.chats, c, u)
    BY <1>4, MemoryIs DEF StoreInv
  <1>6. DOMAIN u.rows = LoadedRows(memory, c) /\ DOMAIN u.rows \cap Local \subseteq used
    BY <1>1, <1>4 DEF LoadedRows, StoreInv, LocalKnown, Numbered
  <1>7. StoreInv /\ loggedIn /\ left \subseteq Chats /\ used \subseteq Local
    BY <1>1 DEF StoreInv, Types
  <1>8. /\ table' = table /\ cache' = cache /\ blind' = blind /\ loggedIn' = loggedIn
        /\ left' = left /\ used' = used
    BY DEF ChangeThread
  <1> QED BY <1>5, <1>6, <1>7, <1>8, ChatMoves

LEMMA WriteLocalKeeps ==
    ASSUME StoreInv, StoreAssumption, NEW m \in Local, WriteLocal(m)
    PROVE  StoreInv'
  <1> DEFINE c == ChatOf[m]
             t == InMemory(c)
             v == [copy |-> 0, mark |-> 0]
             r == Put(t.rows, m, v)
             u == [t EXCEPT !.rows = r]
  <1>1. m \in Rows /\ c \in Chats /\ m \notin used
    BY ChatOfRow DEF StoreAssumption, WriteLocal
  <1>2. t \in Thread /\ DOMAIN t.rows = LoadedRows(memory, c) /\ DOMAIN t.rows \cap Local \subseteq used
    BY InMemoryType
  <1>3. v \in RowValue
    BY DEF StoreAssumption, RowValue, Bit
  <1>4. r \in Partial(Rows, RowValue) /\ DOMAIN r = DOMAIN t.rows \cup {m}
    BY <1>1, <1>2, <1>3, PutRow
  <1>5. Memory(c, u)
    BY <1>2 DEF WriteLocal, Thread
  <1>6. c \in DOMAIN cache.chats => m \notin DOMAIN cache.chats[c].rows
    BY <1>1 DEF StoreInv, LocalKnown, Numbered
  <1>7. StoreInv /\ loggedIn /\ left \subseteq Chats /\ used \subseteq Local
    BY DEF StoreInv, Types, WriteLocal, Edit
  <1>8. /\ table' = table /\ cache' = cache /\ blind' = blind /\ loggedIn' = loggedIn
        /\ left' = left /\ used' = used \cup {m}
    BY DEF WriteLocal
  <1> HIDE DEF c, t, v, r
  <1>9. u \in Thread /\ u.rows = r
    BY <1>2, <1>4, ThreadParts
  <1> HIDE DEF u
  <1>10. memory' \in MemoryType /\ memory'.chats = Put(memory.chats, c, u)
    BY <1>1, <1>5, <1>7, <1>9, MemoryIs DEF StoreInv
  <1>11. /\ left \subseteq left' /\ left' \subseteq Chats /\ used \subseteq used' /\ used' \subseteq Local
         /\ DOMAIN u.rows \cap Local \subseteq used'
    BY <1>2, <1>4, <1>7, <1>8, <1>9
  <1>12. c \in DOMAIN cache.chats \ left' =>
            \A n \in DOMAIN u.rows :
               \/ n \in LoadedRows(memory, c) \/ n \in DOMAIN table.chats[c].rows
               \/ n \notin DOMAIN cache.chats[c].rows
    BY <1>2, <1>4, <1>6, <1>9
  <1> QED BY <1>1, <1>7, <1>8, <1>9, <1>10, <1>11, <1>12, ChatMoves

LEMMA RememberedType ==
    ASSUME Types, NEW e \in SeenEvents
    PROVE  Remembered(e) \in Seq(SeenEvents)
  <1> DEFINE all == Append(memory.seen, e)
  <1>1. all \in Seq(SeenEvents) /\ all # << >>
    BY AppendProperties DEF Types, MemoryType
  <1>2. Remembered(e) = all \/ Remembered(e) = Tail(all)
    BY DEF Remembered
  <1> HIDE DEF all
  <1> QED BY <1>1, <1>2, HeadTailProperties

LEMMA OpenChatKeeps ==
    ASSUME StoreInv, NEW c \in Chats, OpenChat(c)
    PROVE  StoreInv'
  <1> DEFINE t == IF c \in DOMAIN memory.chats
                  THEN [memory.chats[c] EXCEPT !.rows = Over(Page(c), @)] ELSE StoredThread(c)
  <1>1. c \in DOMAIN table.chats /\ loggedIn /\ Memory(c, t)
    BY DEF OpenChat
  <1>2. table.chats[c] \in Thread
    BY <1>1, ChatTypes, ThreadOfBag DEF StoreInv
  <1>3. /\ t \in Thread
        /\ DOMAIN t.rows \subseteq LoadedRows(memory, c) \cup DOMAIN table.chats[c].rows
    <2>1. CASE c \in DOMAIN memory.chats
      <3> DEFINE f == memory.chats[c]
                 r == Over(Page(c), f.rows)
      <3>1. f \in Thread
        BY <2>1, ChatTypes, ThreadOfBag DEF StoreInv
      <3>2. t = [f EXCEPT !.rows = r]
        BY <2>1, <3>1 DEF Thread
      <3>3. r \in Partial(Rows, RowValue)
        BY <1>2, <3>1, ThreadParts, OverType DEF Page
      <3>4. DOMAIN r = DOMAIN table.chats[c].rows \cup LoadedRows(memory, c)
        BY <2>1, OverValue DEF Page, LoadedRows
      <3> HIDE DEF f, r, t
      <3>5. [f EXCEPT !.rows = r] \in Thread /\ [f EXCEPT !.rows = r].rows = r
        BY <3>1, <3>3, ThreadParts
      <3> QED BY <3>2, <3>4, <3>5
    <2>2. CASE c \notin DOMAIN memory.chats
      BY <1>2, <2>2 DEF StoredThread
    <2> QED BY <2>1, <2>2
  <1> HIDE DEF t
  <1>4. memory' \in MemoryType /\ memory'.chats = Put(memory.chats, c, t)
    BY <1>1, <1>3, MemoryIs DEF StoreInv
  <1>5. DOMAIN t.rows \cap Local \subseteq used
    <2>1. LoadedRows(memory, c) \cap Local \subseteq used
      BY DEF StoreInv, LocalKnown, Numbered, LoadedRows
    <2>2. DOMAIN table.chats[c].rows \cap Local \subseteq used
      BY <1>1 DEF StoreInv, LocalKnown, Numbered
    <2> QED BY <1>3, <2>1, <2>2
  <1>6. StoreInv /\ loggedIn /\ left \subseteq Chats /\ used \subseteq Local
    BY <1>1 DEF StoreInv, Types
  <1>7. /\ table' = table /\ cache' = cache /\ blind' = blind /\ loggedIn' = loggedIn
        /\ left' = left /\ used' = used
    BY DEF OpenChat
  <1> QED BY <1>3, <1>4, <1>5, <1>6, <1>7, ChatMoves

LEMMA ArrivesAgainKeeps ==
    ASSUME StoreInv, NEW m \in Rows \ Local, NEW k \in 1 .. Copies, ArrivesAgain(m, k)
    PROVE  StoreInv'
  <1> DEFINE c == ChatOf[m]
             seen == Remembered(<<m, k>>)
             b == IF c \in DOMAIN memory.chats THEN memory.chats ELSE Put(memory.chats, c, table.chats[c])
  <1>1. c \in Chats /\ loggedIn
    BY ChatOfRow DEF ArrivesAgain, Edit
  <1>2. seen \in Seq(SeenEvents)
    BY RememberedType DEF StoreInv, SeenEvents
  <1>3. memory \in MemoryType /\ memory' = [memory EXCEPT !.chats = b, !.seen = seen]
    BY DEF ArrivesAgain, StoreInv, Types, MemoryType
  <1>4. StoreInv /\ left \subseteq Chats /\ used \subseteq Local
    BY DEF StoreInv, Types
  <1>5. /\ table' = table /\ cache' = cache /\ blind' = blind /\ loggedIn' = loggedIn
        /\ left' = left /\ used' = used
    BY DEF ArrivesAgain
  <1>6. CASE c \in DOMAIN memory.chats
    <2>1. memory' \in MemoryType /\ memory'.chats = memory.chats
      <3>1. memory' = [memory EXCEPT !.chats = memory.chats, !.seen = seen]
        BY <1>3, <1>6
      <3> HIDE DEF b, seen
      <3> QED BY <1>2, <1>3, <3>1 DEF MemoryType
    <2>2. ChatsAgree(memory', table, cache, left)
      BY <2>1 DEF StoreInv, ChatsAgree, LoadedRows
    <2>3. Numbered(memory'.chats, used) /\ DOMAIN table.chats \subseteq DOMAIN memory'.chats \cup left
      BY <1>1, <2>1 DEF StoreInv, LocalKnown
    <2> QED BY <1>1, <1>4, <1>5, <2>1, <2>2, <2>3, MemoryMoves
  <1>7. CASE c \notin DOMAIN memory.chats
    <2> DEFINE t == table.chats[c]
    <2>1. c \in DOMAIN table.chats
      BY <1>7 DEF ArrivesAgain, Known
    <2>2. t \in Thread
      BY <2>1, ChatTypes, ThreadOfBag DEF StoreInv
    <2>3. b \in Bags /\ b = Put(memory.chats, c, t)
      <3> DEFINE f == memory.chats
      <3>1. f \in Partial(Chats, Thread) /\ b = Put(f, c, t)
        BY <1>7, ChatTypes DEF StoreInv, Bags
      <3> HIDE DEF f, b, t, c
      <3>2. b \in Bags
        BY <1>1, <2>2, <3>1, PutType DEF Bags
      <3> QED BY <3>1, <3>2 DEF f
    <2>4. memory' \in MemoryType /\ memory'.chats = b
      <3> HIDE DEF b, seen
      <3> QED BY <1>2, <1>3, <2>3 DEF MemoryType
    <2>5. DOMAIN t.rows \cap Local \subseteq used
      BY <2>1 DEF StoreInv, LocalKnown, Numbered
    <2>6. memory'.chats = Put(memory.chats, c, t) /\ t = table.chats[c]
      BY <2>3, <2>4
    <2> HIDE DEF c, t, b, seen
    <2> QED BY <1>1, <1>4, <1>5, <2>2, <2>4, <2>5, <2>6, ChatMoves
  <1> QED BY <1>6, <1>7

\* A message comes whose row could not be written.
LEMMA UnwrittenKeeps ==
    ASSUME StoreInv, StoreAssumption, NEW m \in Rows \ Local, NEW u \in Thread, NEW c \in Chats,
           loggedIn, loggedIn' = loggedIn, table' = table, cache' = cache, blind' = blind,
           used' = used, left' = left \cup (IF StillCounted(c, m) THEN {c} ELSE {}),
           memory' \in MemoryType, memory'.chats = Put(memory.chats, c, u),
           DOMAIN u.rows = LoadedRows(memory, c) \cup {m}
    PROVE  StoreInv'
  <1>1. DOMAIN u.rows \cap Local \subseteq used
    BY DEF StoreInv, LocalKnown, Numbered, LoadedRows
  <1>2. left \subseteq Chats /\ used \subseteq Local
    BY DEF StoreInv, Types
  <1>3. left \subseteq left' /\ left' \subseteq Chats
    BY <1>2
  <1>4. c \in DOMAIN cache.chats \ left' => m \notin DOMAIN cache.chats[c].rows
    BY DEF StillCounted
  <1>5. c \in DOMAIN cache.chats \ left' =>
            \A n \in DOMAIN u.rows :
               \/ n \in LoadedRows(memory, c) \/ n \in DOMAIN table.chats[c].rows
               \/ n \notin DOMAIN cache.chats[c].rows
    BY <1>4
  <1> QED BY <1>1, <1>2, <1>3, <1>5, ChatMoves

-----------------------------------------------------------------------------
(* Steps that write rows or chats of their own.                              *)

\* The types of a state whose chats changed, and what does not depend on chats.
LEMMA TablesMove ==
    ASSUME StoreInv, memory' \in MemoryType, NEW b \in Bags, NEW f \in Bags,
           table' = [table EXCEPT !.chats = b], cache' = [cache EXCEPT !.chats = f],
           blind' = blind, loggedIn' = loggedIn, used' = used, left' \subseteq Chats,
           ChatsAgree(memory', table', cache', left'),
           Numbered(memory'.chats, used), Numbered(b, used), Numbered(f, used),
           loggedIn, DOMAIN b \subseteq DOMAIN memory'.chats \cup left'
    PROVE  StoreInv'
  <1>1. table \in TableType /\ cache \in CacheType /\ used \subseteq Local
    BY DEF StoreInv, Types
  <1>2. /\ table' \in TableType /\ table'.chats = b
        /\ table'.slices = table.slices /\ table'.seen = table.seen
        /\ cache' \in CacheType /\ cache'.chats = f
        /\ cache'.slices = cache.slices /\ cache'.seen = cache.seen
    BY <1>1, WithChats
  <1>3. Types'
    BY <1>1, <1>2 DEF Types
  <1>4. SlicesAgree(table, cache)' /\ WindowsAgree(table, cache, loggedIn /\ ~blind)'
    BY <1>2 DEF StoreInv, SlicesAgree, WindowsAgree, SeenIn
  <1>5. ChatsAgree(memory, table, cache, left)'
    BY DEF ChatsAgree, LoadedRows, Copied, Forgotten
  <1>6. LocalKnown(memory, table, cache, used)'
    BY <1>2 DEF LocalKnown, Numbered
  <1> QED BY <1>2, <1>3, <1>4, <1>5, <1>6 DEF StoreInv

LEMMA PreviewValue ==
    ASSUME StoreInv, NEW c \in Chats, NEW m \in Rows \ Local, NEW h \in Bit, NEW v \in RowValue
    PROVE  /\ Preview(c, m, h, v) \in Bags
           /\ DOMAIN Preview(c, m, h, v) = DOMAIN table.chats \cup {c}
           /\ \A d \in DOMAIN table.chats \ {c} : Preview(c, m, h, v)[d] = table.chats[d]
           /\ Numbered(Preview(c, m, h, v), used)
  <1> DEFINE t == IF c \in DOMAIN table.chats THEN table.chats[c] ELSE EmptyThread
             r == PreviewRow(t.rows, m, v)
             g == IF m \in DOMAIN t.rows THEN t.head ELSE h
             u == [t EXCEPT !.head = g, !.rows = r]
             f == table.chats
  <1>1. f \in Partial(Chats, Thread) /\ Numbered(f, used)
    BY ChatTypes DEF StoreInv, LocalKnown, Bags
  <1>2. t \in Thread /\ DOMAIN t.rows \cap Local \subseteq used
    <2>1. CASE c \in DOMAIN table.chats
      BY <1>1, <2>1, ThreadOfBag DEF Numbered, Bags
    <2>2. CASE c \notin DOMAIN table.chats
      BY <2>2, EmptyThreadType DEF EmptyThread, NoRows
    <2> QED BY <2>1, <2>2
  <1>3. Preview(c, m, h, v) = Put(f, c, u)
    BY <1>2 DEF Preview, Thread
  <1> HIDE DEF t, f
  <1>4. r \in Partial(Rows, RowValue) /\ DOMAIN r = DOMAIN t.rows \cup {m}
    <2> DEFINE o == [n \in {m} |-> v]
    <2>1. o \in [DOMAIN o -> RowValue] /\ DOMAIN o = {m}
      OBVIOUS
    <2> HIDE DEF o
    <2>2. o \in Partial(Rows, RowValue) /\ t.rows \in Partial(Rows, RowValue)
      <3>1. o \in Partial(Rows, RowValue)
        BY <2>1, PartialDef
      <3>2. t.rows \in Partial(Rows, RowValue)
        BY <1>2, ThreadParts
      <3> QED BY <3>1, <3>2
    <2>3. r = Over(t.rows, o)
      BY DEF PreviewRow, o
    <2>4. Over(t.rows, o) \in Partial(Rows, RowValue)
      BY <2>2, OverType
    <2>5. DOMAIN Over(t.rows, o) = DOMAIN t.rows \cup {m}
      BY <2>1 DEF Over
    <2> QED BY <2>3, <2>4, <2>5
  <1>5. g \in Bit
    BY <1>2 DEF Thread
  <1> HIDE DEF r, g
  <1>6. u \in Thread /\ u.rows = r
    BY <1>2, <1>4, <1>5, ThreadParts
  <1> HIDE DEF u
  <1>7. /\ Put(f, c, u) \in Bags /\ DOMAIN Put(f, c, u) = DOMAIN f \cup {c}
        /\ Put(f, c, u)[c] = u /\ \A d \in DOMAIN f \ {c} : Put(f, c, u)[d] = f[d]
    <2>1. Put(f, c, u) \in Bags
      BY <1>1, <1>6, PutType DEF Bags
    <2>2. /\ DOMAIN Put(f, c, u) = DOMAIN f \cup {c}
          /\ Put(f, c, u)[c] = u /\ \A d \in DOMAIN f \ {c} : Put(f, c, u)[d] = f[d]
      BY DEF Put, Over
    <2> QED BY <2>1, <2>2
  <1> DEFINE p == Put(f, c, u)
  <1>8. Numbered(p, used)
    <2>1. ASSUME NEW d \in DOMAIN p PROVE DOMAIN p[d].rows \cap Local \subseteq used
      <3>1. CASE d = c
        BY <1>2, <1>4, <1>6, <1>7, <3>1
      <3>2. CASE d # c
        BY <1>1, <1>7, <2>1, <3>2 DEF Numbered
      <3> QED BY <3>1, <3>2
    <2> QED BY <2>1 DEF Numbered
  <1> QED BY <1>3, <1>7, <1>8 DEF f

\* A fingerprint is forgotten, and only that chat changes in table and memory.
LEMMA ForgetsChat ==
    ASSUME NEW M, NEW T, NEW C, NEW L, NEW N, NEW S, NEW D, NEW K, NEW c, ChatsAgree(M, T, C, L),
           L \ {c} \subseteq K, D.chats = Less(C.chats, {c}),
           DOMAIN T.chats \ {c} \subseteq DOMAIN S.chats,
           \A d \in DOMAIN T.chats \ {c} : S.chats[d] = T.chats[d],
           \A d : d # c => LoadedRows(N, d) = LoadedRows(M, d)
    PROVE  ChatsAgree(N, S, D, K)
  <1>1. DOMAIN D.chats = DOMAIN C.chats \ {c} /\ \A d \in DOMAIN D.chats : D.chats[d] = C.chats[d]
    BY DEF Less
  <1>2. DOMAIN D.chats \subseteq DOMAIN S.chats
    BY <1>1 DEF ChatsAgree
  <1>3. ASSUME NEW d \in DOMAIN D.chats
        PROVE  d \in DOMAIN C.chats /\ D.chats[d] = C.chats[d] /\ S.chats[d] = T.chats[d] /\ d # c
    BY <1>1 DEF ChatsAgree
  <1>4. \A d \in DOMAIN D.chats : Copied(S.chats[d], D.chats[d])
    BY <1>3 DEF ChatsAgree
  <1>5. ASSUME NEW d \in DOMAIN D.chats \ K
        PROVE  Forgotten(S.chats[d], D.chats[d], LoadedRows(N, d))
    <2>1. d \notin L
      BY <1>3
    <2>2. Forgotten(T.chats[d], C.chats[d], LoadedRows(M, d))
      BY <1>3, <2>1 DEF ChatsAgree
    <2> QED BY <1>3, <2>2
  <1> QED BY <1>2, <1>4, <1>5 DEF ChatsAgree

LEMMA LessNumbered ==
    ASSUME NEW f \in Bags, NEW S, NEW U, Numbered(f, U)
    PROVE  Less(f, S) \in Bags /\ Numbered(Less(f, S), U)
  <1>1. Less(f, S) \in Bags
    BY LessType DEF Bags
  <1>2. Numbered(Less(f, S), U)
    BY DEF Numbered, Less
  <1> QED BY <1>1, <1>2

LEMMA ArrivesKeeps ==
    ASSUME StoreInv, StoreAssumption, NEW m \in Rows \ Local, NEW k \in 1 .. Copies, Arrives(m, k)
    PROVE  StoreInv'
  <1> DEFINE c == ChatOf[m]
             row == [copy |-> k, mark |-> 0]
             t == InMemory(c)
             h == 1 - t.head
             r == Put(t.rows, m, row)
             u == [t EXCEPT !.head = h, !.rows = r]
             seen == Remembered(<<m, k>>)
             b == Put(memory.chats, c, u)
  <1>1. c \in Chats /\ loggedIn /\ row \in RowValue
    BY ChatOfRow DEF StoreAssumption, Arrives, Edit, RowValue, Bit
  <1>2. t \in Thread /\ DOMAIN t.rows = LoadedRows(memory, c) /\ DOMAIN t.rows \cap Local \subseteq used
    BY InMemoryType
  <1>3. r \in Partial(Rows, RowValue) /\ DOMAIN r = DOMAIN t.rows \cup {m}
    BY <1>1, <1>2, PutRow
  <1>4. h \in Bit
    BY <1>2 DEF Thread, Bit
  <1>5. seen \in Seq(SeenEvents)
    BY RememberedType DEF StoreInv, SeenEvents
  <1>6. u = [t EXCEPT !.head = 1 - @, !.rows = Put(@, m, row)]
    BY <1>2 DEF Thread
  <1>7. memory' = [memory EXCEPT !.chats = b, !.seen = seen]
    BY <1>6 DEF Arrives, StoreInv, Types, MemoryType
  <1>8. u \in Thread /\ u.rows = r /\ u.head = h
    <2> HIDE DEF t, h, r
    <2>1. t \in Thread /\ h \in Bit /\ r \in Partial(Rows, RowValue)
      BY <1>2, <1>3, <1>4
    <2>3. u \in Thread /\ u.rows = r
      BY <2>1, ThreadParts
    <2>2. u.head = h
      BY <1>2 DEF Thread
    <2> QED BY <2>2, <2>3
  <1>9. \/ /\ table' = [table EXCEPT !.chats = Preview(c, m, u.head, row)]
           /\ cache' = [cache EXCEPT !.chats = Less(cache.chats, {c})]
           /\ left' = left
        \/ /\ left' = left \cup (IF StillCounted(c, m) THEN {c} ELSE {})
           /\ table' = table /\ cache' = cache
    BY <1>6 DEF Arrives, StoreInv, Types, CacheType
  <1>10. blind' = blind /\ used' = used /\ loggedIn' = loggedIn
    BY DEF Arrives
  <1>20. loggedIn' /\ memory.chats \in Bags /\ table.chats \in Bags /\ cache.chats \in Bags
    BY <1>1, ChatTypes DEF StoreInv, Arrives
  <1> HIDE DEF c, row, t, h, r, u, seen
  <1>11. b \in Bags
    <2> DEFINE f == memory.chats
    <2>1. f \in Partial(Chats, Thread)
      BY ChatTypes DEF StoreInv, Bags
    <2> HIDE DEF f
    <2>2. Put(f, c, u) \in Bags
      BY <1>1, <1>8, <2>1, PutType DEF Bags
    <2> QED BY <2>2 DEF f
  <1>12. memory' \in MemoryType /\ memory'.chats = b /\ b = Put(memory.chats, c, u)
    <2>1. b = Put(memory.chats, c, u)
      OBVIOUS
    <2> HIDE DEF b
    <2> QED BY <1>5, <1>7, <1>11, <2>1 DEF StoreInv, Types, MemoryType
  <1>13. CASE left' = left \cup (IF StillCounted(c, m) THEN {c} ELSE {}) /\ table' = table /\ cache' = cache
    <2>1. DOMAIN u.rows = LoadedRows(memory, c) \cup {m}
      BY <1>2, <1>3, <1>8
    <2> QED BY <1>1, <1>8, <1>10, <1>12, <1>13, <2>1, UnwrittenKeeps
  <1>14. CASE /\ table' = [table EXCEPT !.chats = Preview(c, m, u.head, row)]
              /\ cache' = [cache EXCEPT !.chats = Less(cache.chats, {c})]
              /\ left' = left
    <2> DEFINE p == Preview(c, m, u.head, row)
               f == Less(cache.chats, {c})
               N == memory'
    <2>1. /\ p \in Bags /\ DOMAIN p = DOMAIN table.chats \cup {c}
          /\ \A d \in DOMAIN table.chats \ {c} : p[d] = table.chats[d]
          /\ Numbered(p, used)
      BY <1>1, <1>4, <1>8, PreviewValue
    <2>2. f \in Bags /\ Numbered(f, used)
      BY <1>20, LessNumbered DEF StoreInv, LocalKnown
    <2>3. table'.chats = p /\ cache'.chats = f
      <3> HIDE DEF p, f
      <3> QED BY <1>14, <2>1, <2>2, WithChats DEF StoreInv, Types, p, f
    <2>4. N \in MemoryType /\ N.chats = Put(memory.chats, c, u) /\ memory \in MemoryType
      BY <1>12 DEF StoreInv, Types
    <2> HIDE DEF N, p
    <2>5. \A d : d # c => LoadedRows(N, d) = LoadedRows(memory, d)
      BY <1>1, <1>8, <2>4, PutMemory
    <2>6. DOMAIN N.chats = DOMAIN memory.chats \cup {c}
      BY <1>1, <1>8, <2>4, PutMemory
    <2>7. Numbered(N.chats, used)
      <3>1. Numbered(memory.chats, used)
        BY DEF StoreInv, LocalKnown
      <3>2. DOMAIN u.rows \cap Local \subseteq used
        BY <1>2, <1>3, <1>8
      <3> QED BY <1>1, <1>8, <2>4, <3>1, <3>2, PutMemory
    <2>8. ChatsAgree(N, table', cache', left)
      <3>1. /\ ChatsAgree(memory, table, cache, left) /\ left \ {c} \subseteq left
            /\ cache'.chats = Less(cache.chats, {c})
            /\ DOMAIN table.chats \ {c} \subseteq DOMAIN table'.chats
            /\ \A d \in DOMAIN table.chats \ {c} : table'.chats[d] = table.chats[d]
        BY <2>1, <2>3 DEF StoreInv
      <3> DEFINE M == memory
                 T == table
                 C == cache
                 S == table'
                 D == cache'
      <3>2. /\ ChatsAgree(M, T, C, left) /\ left \ {c} \subseteq left /\ D.chats = Less(C.chats, {c})
            /\ DOMAIN T.chats \ {c} \subseteq DOMAIN S.chats
            /\ \A d \in DOMAIN T.chats \ {c} : S.chats[d] = T.chats[d]
            /\ \A d : d # c => LoadedRows(N, d) = LoadedRows(M, d)
        BY <2>5, <3>1
      <3>3. S = table' /\ D = cache'
        OBVIOUS
      <3> HIDE DEF M, T, C, S, D
      <3>4. ChatsAgree(N, S, D, left)
        BY <3>2, ForgetsChat
      <3> QED BY <3>3, <3>4
    <2>9. DOMAIN p \subseteq DOMAIN N.chats \cup left
      BY <1>1, <2>1, <2>6 DEF StoreInv
    <2>10. /\ table' = [table EXCEPT !.chats = p] /\ cache' = [cache EXCEPT !.chats = f]
           /\ left' \subseteq Chats /\ N = memory' /\ left' = left
      BY <1>14 DEF StoreInv, Types, p, N
    <2> HIDE DEF f
    <2> QED BY <1>1, <1>10, <2>1, <2>2, <2>4, <2>7, <2>8, <2>9, <2>10, TablesMove
  <1> QED BY <1>9, <1>13, <1>14

\* Rows go from memory.
LEMMA MemoryLoses ==
    ASSUME StoreInv, NEW G, NEW N, N = [memory EXCEPT !.chats = RowsGone(memory.chats, G)]
    PROVE  /\ N \in MemoryType /\ DOMAIN N.chats = DOMAIN memory.chats
           /\ \A c : LoadedRows(N, c) = LoadedRows(memory, c) \ G
           /\ Numbered(N.chats, used)
  <1> DEFINE f == memory.chats
             b == RowsGone(f, G)
  <1>1. f \in Bags /\ Numbered(f, used) /\ memory \in MemoryType
    BY ChatTypes DEF StoreInv, LocalKnown, Types
  <1>2. f = memory.chats /\ N = [memory EXCEPT !.chats = b]
    OBVIOUS
  <1> HIDE DEF f
  <1>3. /\ b \in Bags /\ DOMAIN b = DOMAIN f
        /\ \A c \in DOMAIN f : DOMAIN b[c].rows = DOMAIN f[c].rows \ G
    <2>1. b \in Bags /\ DOMAIN b = DOMAIN f
      BY <1>1, RowsGoneValue
    <2>2. ASSUME NEW c \in DOMAIN f PROVE DOMAIN b[c].rows = DOMAIN f[c].rows \ G
      BY <1>1, RowsGoneValue
    <2> QED BY <2>1, <2>2
  <1> HIDE DEF b
  <1>4. N \in MemoryType /\ N.chats = b
    <2>1. [memory EXCEPT !.chats = b] \in MemoryType /\ [memory EXCEPT !.chats = b].chats = b
      BY <1>1, <1>3, WithChats
    <2> QED BY <1>2, <2>1
  <1>5. ASSUME NEW c PROVE LoadedRows(N, c) = LoadedRows(memory, c) \ G
    BY <1>2, <1>3, <1>4 DEF LoadedRows
  <1>6. Numbered(b, used)
    BY <1>1, <1>3 DEF Numbered
  <1> QED BY <1>2, <1>3, <1>4, <1>5, <1>6

LEMMA GoneNumbered ==
    ASSUME NEW f \in Bags, NEW G, NEW U, Numbered(f, U)
    PROVE  Numbered(RowsGone(f, G), U)
  <1> DEFINE b == RowsGone(f, G)
  <1>1. DOMAIN b = DOMAIN f /\ \A c \in DOMAIN f : DOMAIN b[c].rows = DOMAIN f[c].rows \ G
    BY RowsGoneValue
  <1> HIDE DEF b
  <1>2. Numbered(b, U)
    BY <1>1 DEF Numbered
  <1> QED BY <1>2 DEF b

\* Rows go from memory while the table stays, or from both while some fingerprints go.
LEMMA RowsGoneKeeps ==
    ASSUME StoreInv, NEW G, NEW X, loggedIn, loggedIn' = loggedIn, blind' = blind,
           used' = used, left' = left,
           memory' = [memory EXCEPT !.chats = RowsGone(memory.chats, G)],
           \/ table' = table /\ cache' = cache
           \/ /\ table' = [table EXCEPT !.chats = RowsGone(table.chats, G)]
              /\ cache' = [cache EXCEPT !.chats = Less(cache.chats, X)]
    PROVE  StoreInv'
  <1> DEFINE N == memory'
  <1>1. /\ N \in MemoryType /\ DOMAIN N.chats = DOMAIN memory.chats
        /\ \A c : LoadedRows(N, c) = LoadedRows(memory, c) \ G
        /\ Numbered(N.chats, used)
    BY MemoryLoses
  <1>2. /\ StoreInv /\ left \subseteq Chats /\ used \subseteq Local
        /\ memory.chats \in Bags /\ table.chats \in Bags /\ cache.chats \in Bags
    BY ChatTypes DEF StoreInv, Types
  <1>3. DOMAIN table.chats \subseteq DOMAIN N.chats \cup left
    BY <1>1 DEF StoreInv
  <1>4. N = memory'
    OBVIOUS
  <1> HIDE DEF N
  <1>5. CASE table' = table /\ cache' = cache
    <2>1. ChatsAgree(N, table, cache, left)
      BY <1>1 DEF StoreInv, ChatsAgree, Forgotten
    <2> QED BY <1>1, <1>2, <1>3, <1>4, <1>5, <2>1, MemoryMoves
  <1>6. CASE /\ table' = [table EXCEPT !.chats = RowsGone(table.chats, G)]
             /\ cache' = [cache EXCEPT !.chats = Less(cache.chats, X)]
    <2> DEFINE b == RowsGone(table.chats, G)
               f == Less(cache.chats, X)
               M == memory
               T == table
               C == cache
               S == table'
               D == cache'
    <2>1. /\ b \in Bags /\ DOMAIN b = DOMAIN table.chats /\ Numbered(b, used)
      BY <1>2, RowsGoneValue, GoneNumbered DEF StoreInv, LocalKnown
    <2>2. f \in Bags /\ Numbered(f, used)
      BY <1>2, LessNumbered DEF StoreInv, LocalKnown
    <2>3. S.chats = b /\ D.chats = f
      <3> HIDE DEF b, f
      <3> QED BY <1>6, <2>1, <2>2, WithChats DEF StoreInv, Types, b, f
    <2>4. /\ ChatsAgree(M, T, C, left) /\ T.chats \in Bags /\ S.chats = RowsGone(T.chats, G)
          /\ DOMAIN D.chats \subseteq DOMAIN C.chats
          /\ \A c \in DOMAIN D.chats : D.chats[c] = C.chats[c]
      <3>1. DOMAIN f \subseteq DOMAIN cache.chats /\ \A c \in DOMAIN f : f[c] = cache.chats[c]
        BY DEF Less
      <3> HIDE DEF f
      <3> QED BY <1>2, <2>3, <3>1 DEF StoreInv
    <2>5. \A c : LoadedRows(N, c) = LoadedRows(M, c) \ G
      BY <1>1
    <2>6. /\ table' = [table EXCEPT !.chats = b] /\ cache' = [cache EXCEPT !.chats = f]
          /\ S = table' /\ D = cache'
      BY <1>6
    <2> HIDE DEF b, f, M, T, C, S, D
    <2>7. ChatsAgree(N, S, D, left)
      BY <2>4, <2>5, RowsForgotten
    <2>8. DOMAIN b \subseteq DOMAIN N.chats \cup left
      BY <1>3, <2>1
    <2> QED BY <1>1, <1>2, <1>4, <2>1, <2>2, <2>6, <2>7, <2>8, TablesMove
  <1> QED BY <1>5, <1>6

LEMMA DeleteMessageKeeps ==
    ASSUME StoreInv, NEW m \in Rows, DeleteMessage(m)
    PROVE  StoreInv'
  <1>1. /\ memory \in MemoryType /\ table \in TableType /\ cache \in CacheType /\ cache.chats \in Bags
    BY ChatTypes DEF StoreInv, Types
  <1>2. memory' = [memory EXCEPT !.chats = RowsGone(memory.chats, {m})]
    BY <1>1 DEF DeleteMessage, MemoryType
  <1>3. cache = [cache EXCEPT !.chats = Less(cache.chats, {})]
    <2> DEFINE f == cache.chats
    <2>1. f \in [DOMAIN f -> Thread]
      BY <1>1, PartialDef DEF Bags
    <2> HIDE DEF f
    <2>2. Less(f, {}) = f
      BY <2>1 DEF Less
    <2>3. cache = [cache EXCEPT !.chats = cache.chats]
      BY <1>1 DEF CacheType
    <2> QED BY <2>2, <2>3 DEF f
  <1>4. \/ table' = table /\ cache' = cache
        \/ /\ table' = [table EXCEPT !.chats = RowsGone(table.chats, {m})]
           /\ cache' = [cache EXCEPT !.chats = Less(cache.chats, {})]
    BY <1>1, <1>3 DEF DeleteMessage, TableType
  <1>5. loggedIn /\ loggedIn' = loggedIn /\ blind' = blind /\ used' = used /\ left' = left
    BY DEF DeleteMessage, Edit
  <1> QED BY <1>2, <1>4, <1>5, RowsGoneKeeps

LEMMA ExpireKeeps ==
    ASSUME StoreInv, Expire
    PROVE  StoreInv'
  <1>1. /\ memory \in MemoryType /\ table \in TableType /\ cache \in CacheType
    BY DEF StoreInv, Types
  <1>2. memory' = [memory EXCEPT !.chats = RowsGone(memory.chats, Expiring)]
    BY <1>1 DEF Expire, MemoryType
  <1>3. \/ table' = table /\ cache' = cache
        \/ /\ table' = [table EXCEPT !.chats = RowsGone(table.chats, Expiring)]
           /\ cache' = [cache EXCEPT !.chats = Less(cache.chats, HasExpiring(table.chats))]
    BY <1>1 DEF Expire, RowsExpired, TableType, CacheType
  <1>4. loggedIn /\ loggedIn' = loggedIn /\ blind' = blind /\ used' = used /\ left' = left
    BY DEF Expire
  <1> QED BY <1>2, <1>3, <1>4, RowsGoneKeeps

LEMMA DeleteThreadKeeps ==
    ASSUME StoreInv, NEW c \in Chats, DeleteThread(c)
    PROVE  StoreInv'
  <1> DEFINE a == Less(memory.chats, {c})
             N == memory'
  <1>1. /\ memory \in MemoryType /\ table \in TableType /\ cache \in CacheType
        /\ memory.chats \in Bags /\ table.chats \in Bags /\ cache.chats \in Bags
        /\ left \subseteq Chats /\ used \subseteq Local
        /\ Numbered(memory.chats, used) /\ Numbered(table.chats, used) /\ Numbered(cache.chats, used)
    BY ChatTypes DEF StoreInv, Types, LocalKnown
  <1>2. loggedIn /\ loggedIn' = loggedIn /\ blind' = blind /\ used' = used
    BY DEF DeleteThread, Edit
  <1>3. memory' = [memory EXCEPT !.chats = a]
    BY <1>1 DEF DeleteThread, MemoryType
  <1>4. a \in Bags /\ Numbered(a, used)
    BY <1>1, LessNumbered
  <1>5. DOMAIN a = DOMAIN memory.chats \ {c} /\ \A d \in DOMAIN a : a[d] = memory.chats[d]
    BY DEF Less
  <1>6. N \in MemoryType /\ N.chats = a
    <2> HIDE DEF a
    <2> QED BY <1>1, <1>3, <1>4, WithChats
  <1>7. N = memory'
    OBVIOUS
  <1> HIDE DEF a, N
  <1>8. \A d : d # c => LoadedRows(N, d) = LoadedRows(memory, d)
    BY <1>5, <1>6 DEF LoadedRows
  <1>9. DOMAIN table.chats \subseteq DOMAIN memory.chats \cup left
    BY <1>2 DEF StoreInv
  <1>10. CASE left' = left \cup {c} /\ table' = table /\ cache' = cache
    <2>1. ChatsAgree(N, table, cache, left \cup {c})
      BY <1>8 DEF StoreInv, ChatsAgree
    <2>2. DOMAIN table.chats \subseteq DOMAIN N.chats \cup left'
      BY <1>5, <1>6, <1>9, <1>10
    <2>3. left \subseteq left' /\ left' \subseteq Chats /\ Numbered(N.chats, used)
      BY <1>1, <1>4, <1>6, <1>10
    <2> QED BY <1>1, <1>2, <1>6, <1>7, <1>10, <2>1, <2>2, <2>3, MemoryMoves
  <1>11. CASE /\ table' = [table EXCEPT !.chats = Less(table.chats, {c})]
              /\ cache' = [cache EXCEPT !.chats = Less(cache.chats, {c})]
              /\ left' = left \ {c}
    <2> DEFINE b == Less(table.chats, {c})
               f == Less(cache.chats, {c})
               M == memory
               T == table
               C == cache
               S == table'
               D == cache'
    <2>1. b \in Bags /\ Numbered(b, used) /\ f \in Bags /\ Numbered(f, used)
      BY <1>1, LessNumbered
    <2>2. DOMAIN b = DOMAIN table.chats \ {c} /\ \A d \in DOMAIN table.chats \ {c} : b[d] = table.chats[d]
      BY DEF Less
    <2>3. S.chats = b /\ D.chats = f
      <3> HIDE DEF b, f
      <3> QED BY <1>1, <1>11, <2>1, WithChats DEF b, f
    <2>4. /\ ChatsAgree(M, T, C, left) /\ left \ {c} \subseteq left \ {c} /\ D.chats = Less(C.chats, {c})
          /\ DOMAIN T.chats \ {c} \subseteq DOMAIN S.chats
          /\ \A d \in DOMAIN T.chats \ {c} : S.chats[d] = T.chats[d]
          /\ \A d : d # c => LoadedRows(N, d) = LoadedRows(M, d)
      BY <1>8, <2>2, <2>3 DEF StoreInv
    <2>5. /\ table' = [table EXCEPT !.chats = b] /\ cache' = [cache EXCEPT !.chats = f]
          /\ S = table' /\ D = cache'
      BY <1>11
    <2>6. DOMAIN b \subseteq DOMAIN N.chats \cup left' /\ left' \subseteq Chats
      BY <1>1, <1>5, <1>6, <1>9, <1>11, <2>2
    <2> HIDE DEF b, f, M, T, C, S, D
    <2>7. ChatsAgree(N, S, D, left \ {c})
      BY <2>4, ForgetsChat
    <2> QED BY <1>1, <1>2, <1>4, <1>6, <1>7, <1>11, <2>1, <2>5, <2>6, <2>7, TablesMove
  <1> QED BY <1>1, <1>10, <1>11 DEF DeleteThread, TableType, CacheType

-----------------------------------------------------------------------------
(* Saving, and the start and end of sessions.                                *)

LEMMA WrittenIsCopied ==
    ASSUME Types, NEW c \in DOMAIN memory.chats
    PROVE  /\ Copied(Written(c), memory.chats[c])
           /\ Forgotten(Written(c), memory.chats[c], LoadedRows(memory, c))
  <1> DEFINE f == memory.chats[c].rows
             o == IF c \in DOMAIN table.chats THEN table.chats[c].rows ELSE NoRows
  <1>1. /\ Written(c).head = memory.chats[c].head /\ Written(c).draft = memory.chats[c].draft
        /\ Written(c).rows = Over(f, o)
    BY WrittenValue
  <1> HIDE DEF o
  <1>2. DOMAIN f \subseteq DOMAIN Over(f, o) /\ \A m \in DOMAIN f : Over(f, o)[m] = f[m]
    BY DEF Over
  <1> QED BY <1>1, <1>2 DEF Copied, Forgotten

LEMMA SavedChat ==
    ASSUME StoreInv, loggedIn, NEW c \in DOMAIN memory.chats
    PROVE  /\ Copied(Apply.chats[c], memory.chats[c])
           /\ c \notin left => Forgotten(Apply.chats[c], memory.chats[c], LoadedRows(memory, c))
  <1>1. Types /\ ChatsAgree(memory, table, cache, left)
    BY DEF StoreInv
  <1>2. c \notin left => Apply.chats[c] = Written(c)
    BY ChatsAfterSave
  <1>3. CASE c \in ThreadsToWrite
    BY <1>1, <1>3, ChatsOfApply, WrittenIsCopied
  <1>4. CASE c \notin ThreadsToWrite
    <2>1. c \in DOMAIN cache.chats /\ cache.chats[c] = memory.chats[c] /\ c \notin ThreadsToDelete
      BY <1>4 DEF ThreadsToWrite, ThreadsToDelete
    <2>2. Apply.chats[c] = table.chats[c]
      BY <1>1, <1>4, <2>1, ChatsOfApply DEF ChatsAgree
    <2>3. Copied(table.chats[c], memory.chats[c])
      BY <1>1, <2>1 DEF ChatsAgree
    <2> QED BY <1>1, <1>2, <2>2, <2>3, WrittenIsCopied
  <1> QED BY <1>3, <1>4

LEMMA SavedRows ==
    ASSUME StoreInv, loggedIn, NEW c \in DOMAIN Apply.chats
    PROVE  DOMAIN Apply.chats[c].rows \cap Local \subseteq used
  <1>1. Types /\ Numbered(memory.chats, used) /\ Numbered(table.chats, used)
    BY DEF StoreInv, LocalKnown
  <1>2. CASE c \in ThreadsToWrite
    <2> DEFINE f == memory.chats[c].rows
               o == IF c \in DOMAIN table.chats THEN table.chats[c].rows ELSE NoRows
    <2>1. c \in DOMAIN memory.chats
      BY <1>2 DEF ThreadsToWrite
    <2>2. Apply.chats[c].rows = Over(f, o)
      BY <1>1, <1>2, <2>1, ChatsOfApply, WrittenValue
    <2>3. DOMAIN f \cap Local \subseteq used
      BY <1>1, <2>1 DEF Numbered
    <2>4. DOMAIN o \cap Local \subseteq used
      BY <1>1 DEF Numbered, NoRows
    <2> HIDE DEF f, o
    <2>5. DOMAIN Over(f, o) = DOMAIN f \cup DOMAIN o
      BY OverValue
    <2> QED BY <2>2, <2>3, <2>4, <2>5
  <1>3. CASE c \notin ThreadsToWrite
    <2>1. Apply.chats[c] = table.chats[c] /\ c \in DOMAIN table.chats
      BY <1>1, <1>3, ChatsOfApply
    <2> QED BY <1>1, <2>1 DEF Numbered
  <1> QED BY <1>2, <1>3

LEMMA SaveKeeps ==
    ASSUME StoreInv, Save
    PROVE  StoreInv'
  <1>1. loggedIn /\ loggedIn' /\ memory' = memory /\ blind' = blind /\ used' = used /\ left' = left
    BY DEF Save
  <1>2. Types /\ memory \in MemoryType /\ table \in TableType /\ cache \in CacheType
    BY DEF StoreInv, Types
  <1>3. CASE table' = table /\ cache' = cache
    BY <1>1, <1>3 DEF StoreInv, Types, SlicesAgree, WindowsAgree, SeenIn, ChatsAgree, LoadedRows,
        Copied, Forgotten, LocalKnown, Numbered
  <1>4. CASE table' = Apply /\ cache' = UpdateCache
    <2>1. Apply.slices = memory.slices
      BY SlicesAfterSave
    <2>2. Apply.seen = SeenRows /\ SeenRows \in Windows
      BY <1>2, ApplyParts, WindowOfApply DEF StoreInv
    <2>3. Apply.chats \in Bags
      BY <1>2, ChatsOfApply
    <2>4. Apply \in TableType
      <3>1. Apply = [slices |-> Apply.slices, chats |-> Apply.chats, seen |-> Apply.seen]
        BY DEF Apply
      <3> QED BY <1>2, <2>1, <2>2, <2>3, <3>1 DEF TableType, MemoryType
    <2>5. /\ UpdateCache.slices = memory.slices /\ UpdateCache.chats = memory.chats
          /\ UpdateCache.seen = Elements(memory.seen)
      BY DEF UpdateCache
    <2>6. UpdateCache \in CacheType
      <3>1. Cardinality(ToInsert) \in Nat /\ Elements(memory.seen) \subseteq SeenEvents
        BY <1>2, SequenceIsPositive, SeenEntries
      <3>2. cache.next + Cardinality(ToInsert) \in Nat \ {0}
        BY <1>2, <3>1 DEF CacheType
      <3> QED BY <1>2, <3>1, <3>2 DEF CacheType, MemoryType, UpdateCache
    <2>7. Types'
      BY <1>1, <1>2, <1>4, <2>4, <2>6 DEF Types
    <2>8. SlicesAgree(table, cache)'
      BY <1>4, <2>1, <2>5 DEF SlicesAgree
    <2>9. WindowsAgree(table, cache, loggedIn /\ ~blind)'
      <3>1. Elements(memory.seen) \subseteq SeenIn(Apply) /\ (loggedIn /\ ~blind => SeenIn(Apply) = Elements(memory.seen))
        BY <1>2, WindowOfApply DEF StoreInv
      <3>2. Apply.slices # NeverWritten
        BY <1>2, <2>1 DEF MemoryType, NeverWritten
      <3> QED BY <1>1, <1>4, <2>5, <3>1, <3>2 DEF WindowsAgree
    <2>10. /\ DOMAIN memory.chats \subseteq DOMAIN Apply.chats
           /\ DOMAIN Apply.chats \subseteq DOMAIN memory.chats \cup left
           /\ \A c \in DOMAIN memory.chats \ left : Apply.chats[c] = Written(c)
      BY <1>1, ChatsAfterSave
    <2>11. ChatsAgree(memory, table, cache, left)'
      <3>1. ASSUME NEW c \in DOMAIN memory.chats
            PROVE  /\ Copied(Apply.chats[c], memory.chats[c])
                   /\ c \notin left => Forgotten(Apply.chats[c], memory.chats[c], LoadedRows(memory, c))
        BY <1>1, SavedChat
      <3> QED BY <1>1, <1>4, <2>5, <2>10, <3>1 DEF ChatsAgree, LoadedRows
    <2>12. LocalKnown(memory, table, cache, used)'
      <3>1. ASSUME NEW c \in DOMAIN Apply.chats
            PROVE  DOMAIN Apply.chats[c].rows \cap Local \subseteq used
        BY <1>1, SavedRows
      <3> QED BY <1>1, <1>4, <2>5, <3>1 DEF LocalKnown, Numbered, StoreInv
    <2> QED BY <1>1, <1>4, <2>7, <2>8, <2>9, <2>10, <2>11, <2>12 DEF StoreInv
  <1> QED BY <1>3, <1>4 DEF Save

LEMMA NoTypes ==
    /\ NoMemory \in MemoryType /\ NoTable \in TableType /\ NoCache \in CacheType
    /\ NoMemory.chats = NoRows /\ NoTable.chats = NoRows /\ NoCache.chats = NoRows
    /\ NoCache.slices = NeverWritten /\ NoCache.seen = {}
    /\ NoTable.slices = NeverWritten /\ SeenIn(NoTable) = {}
  <1>1. <<>> \in Seq(SeenEvents)
    BY EmptySeq
  <1>2. NoRows \in Bags
    BY NoRowsInBags
  <1>3. [e \in SeenEvents |-> 0] \in Windows
    BY DEF Windows
  <1> QED BY <1>1, <1>2, <1>3 DEF NoMemory, NoTable, NoCache, MemoryType, TableType, CacheType,
             NeverWritten, SeenIn

\* Nothing in memory, nothing fingerprinted.
LEMMA EmptyAgrees ==
    ASSUME NEW T, NEW C, NEW L, NEW U
    PROVE  /\ ChatsAgree(NoMemory, T, NoCache, L)
           /\ Numbered(NoRows, U)
           /\ \A M, K : ChatsAgree(M, T, C, K) => ChatsAgree(NoMemory, T, C, L)
  <1>1. DOMAIN NoRows = {}
    BY NoRowsInBags
  <1>2. NoMemory.chats = NoRows /\ NoCache.chats = NoRows
    BY NoTypes
  <1>3. \A c : LoadedRows(NoMemory, c) = {}
    BY <1>1, <1>2 DEF LoadedRows
  <1>4. ChatsAgree(NoMemory, T, NoCache, L)
    BY <1>1, <1>2 DEF ChatsAgree
  <1>5. Numbered(NoRows, U)
    BY <1>1 DEF Numbered
  <1>6. ASSUME NEW M, NEW K, ChatsAgree(M, T, C, K) PROVE ChatsAgree(NoMemory, T, C, L)
    <2>1. \A c \in DOMAIN C.chats \ L : Forgotten(T.chats[c], C.chats[c], LoadedRows(NoMemory, c))
      BY <1>3 DEF Forgotten
    <2> QED BY <1>6, <2>1 DEF ChatsAgree
  <1> QED BY <1>4, <1>5, <1>6

LEMMA StoreInitInv ==
    ASSUME StoreInit
    PROVE  StoreInv
  <1>1. memory = NoMemory /\ table = NoTable /\ cache = NoCache /\ left = {} /\ used = {}
    BY DEF StoreInit
  <1>2. Types
    BY <1>1, NoTypes DEF Types
  <1>3. SlicesAgree(table, cache) /\ WindowsAgree(table, cache, loggedIn /\ ~blind)
    BY <1>1, NoTypes DEF SlicesAgree, WindowsAgree
  <1>4. ChatsAgree(memory, table, cache, left) /\ LocalKnown(memory, table, cache, used)
    BY <1>1, NoTypes, EmptyAgrees DEF LocalKnown
  <1>5. DOMAIN table.chats \subseteq DOMAIN memory.chats \cup left
    BY <1>1, NoTypes
  <1> QED BY <1>1, <1>2, <1>3, <1>4, <1>5 DEF StoreInv

LEMMA EndProcessKeeps ==
    ASSUME StoreInv, EndProcess
    PROVE  StoreInv'
  <1>1. /\ ~loggedIn' /\ memory' = NoMemory /\ cache' = NoCache /\ table' = table
        /\ used' = used /\ left' = left
    BY DEF EndProcess
  <1>2. Types'
    BY <1>1, NoTypes DEF StoreInv, Types
  <1>3. SlicesAgree(table, cache)'
    BY <1>1, NoTypes DEF SlicesAgree
  <1>4. WindowsAgree(table, cache, loggedIn /\ ~blind)'
    BY <1>1, NoTypes DEF StoreInv, WindowsAgree, SeenIn
  <1>5. ChatsAgree(memory, table, cache, left)'
    <2>1. ChatsAgree(NoMemory, table, NoCache, left)
      BY EmptyAgrees
    <2> QED BY <1>1, <2>1 DEF ChatsAgree, LoadedRows, Copied, Forgotten
  <1>6. LocalKnown(memory, table, cache, used)'
    BY <1>1, NoTypes, EmptyAgrees DEF StoreInv, LocalKnown, Numbered
  <1> QED BY <1>1, <1>2, <1>3, <1>4, <1>5, <1>6 DEF StoreInv

LEMMA ClearTablesKeeps ==
    ASSUME StoreInv, ClearTables
    PROVE  StoreInv'
  <1>1. ~loggedIn' /\ memory' = NoMemory /\ used' = used
    BY DEF ClearTables
  <1>2. CASE table' = NoTable /\ cache' = NoCache /\ left' = {}
    <2>1. Types'
      BY <1>1, <1>2, NoTypes DEF StoreInv, Types
    <2>2. SlicesAgree(table, cache)' /\ WindowsAgree(table, cache, loggedIn /\ ~blind)'
      BY <1>1, <1>2, NoTypes DEF SlicesAgree, WindowsAgree
    <2>3. ChatsAgree(memory, table, cache, left)'
      <3>1. ChatsAgree(NoMemory, NoTable, NoCache, {})
        BY EmptyAgrees
      <3> QED BY <1>1, <1>2, <3>1 DEF ChatsAgree, LoadedRows, Copied, Forgotten
    <2>4. LocalKnown(memory, table, cache, used)'
      BY <1>1, <1>2, NoTypes, EmptyAgrees DEF LocalKnown
    <2> QED BY <1>1, <1>2, <2>1, <2>2, <2>3, <2>4 DEF StoreInv
  <1>3. CASE table' = table /\ cache' = cache /\ left' = left
    <2>1. Types'
      BY <1>1, <1>3, NoTypes DEF StoreInv, Types
    <2>2. SlicesAgree(table, cache)' /\ WindowsAgree(table, cache, loggedIn /\ ~blind)'
      BY <1>1, <1>3 DEF StoreInv, SlicesAgree, WindowsAgree, SeenIn
    <2>3. ChatsAgree(memory, table, cache, left)'
      <3>1. ChatsAgree(NoMemory, table, cache, left)
        BY EmptyAgrees DEF StoreInv
      <3> QED BY <1>1, <1>3, <3>1 DEF ChatsAgree, LoadedRows, Copied, Forgotten
    <2>4. LocalKnown(memory, table, cache, used)'
      BY <1>1, <1>3, NoTypes, EmptyAgrees DEF StoreInv, LocalKnown, Numbered
    <2> QED BY <1>1, <1>3, <2>1, <2>2, <2>3, <2>4 DEF StoreInv
  <1> QED BY <1>2, <1>3 DEF ClearTables

\* A set of numbers has a least one, and a finite one has a greatest.
LEMMA Least ==
    ASSUME NEW T, T \subseteq Nat, T # {}
    PROVE  \E x \in T : \A y \in T : x <= y
  <1> DEFINE R == {ss \in Nat \X Nat : ss[1] < ss[2]}
  <1>1. R = OpToRel(<, Nat)
    BY DEF OpToRel
  <1>2. IsWellFoundedOn(R, Nat)
    BY <1>1, NatLessThanWellFounded
  <1>3. \A x, y \in Nat : y < x => <<y, x>> \in R
    OBVIOUS
  <1> HIDE DEF R
  <1>4. PICK x \in T : \A y \in T : <<y, x>> \notin R
    BY <1>2, WFMin
  <1>5. ASSUME NEW y \in T PROVE x <= y
    <2>1. x \in Nat /\ y \in Nat /\ <<y, x>> \notin R
      BY <1>4
    <2>2. ~(y < x)
      BY <1>3, <2>1
    <2> QED BY <2>1, <2>2
  <1> QED BY <1>5

LEMMA Greatest ==
    ASSUME NEW S, IsFiniteSet(S), S \subseteq Nat, S # {}
    PROVE  \E x \in S : \A y \in S : y <= x
  <1> DEFINE Tops(A) == \E x \in A : \A y \in A : y <= x
             Bad == {Cardinality(A) : A \in {B \in SUBSET S : B # {} /\ ~Tops(B)}}
  <1>1. \A A \in SUBSET S : IsFiniteSet(A) /\ Cardinality(A) \in Nat
    BY FS_Subset, FS_CardinalityType
  <1>2. Bad \subseteq Nat
    BY <1>1
  <1>3. ASSUME Bad # {} PROVE FALSE
    <2>1. PICK n \in Bad : \A k \in Bad : n <= k
      <3> HIDE DEF Bad
      <3> QED BY <1>2, <1>3, Least
    <2>2. PICK A \in SUBSET S : A # {} /\ ~Tops(A) /\ Cardinality(A) = n
      BY <2>1
    <2>3. PICK a \in A : TRUE
      BY <2>2
    <2> DEFINE B == A \ {a}
    <2>4. IsFiniteSet(A) /\ Cardinality(B) = n - 1 /\ n \in Nat
      BY <1>1, <2>2, <2>3, FS_RemoveElement
    <2>5. CASE B = {}
      <3>1. A = {a}
        BY <2>3, <2>5
      <3>2. a \in Nat
        BY <2>3
      <3> QED BY <2>2, <3>1, <3>2
    <2>6. CASE B # {}
      <3>1. n - 1 \notin Bad
        <4> HIDE DEF Bad
        <4> QED BY <2>1, <2>4
      <3>2. B \in SUBSET S
        OBVIOUS
      <3>3. Tops(B)
        BY <2>4, <2>6, <3>1, <3>2
      <3>4. PICK b \in B : \A y \in B : y <= b
        BY <3>3
      <3>5. a \in Nat /\ b \in Nat /\ B \subseteq Nat /\ A = B \cup {a} /\ b \in A
        BY <2>3, <3>4
      <3> HIDE DEF B
      <3>6. CASE a <= b
        <4>1. \A y \in A : y <= b
          BY <3>4, <3>5, <3>6
        <4> QED BY <2>2, <3>5, <4>1
      <3>7. CASE ~(a <= b)
        <4>1. \A y \in A : y <= a
          BY <3>4, <3>5, <3>7
        <4> QED BY <2>2, <2>3, <4>1
      <3> QED BY <3>6, <3>7
    <2> QED BY <2>5, <2>6
  <1>4. Tops(S)
    BY <1>3
  <1> QED BY <1>4

LEMMA WindowFinite ==
    ASSUME StoreAssumption
    PROVE  IsFiniteSet(SeenEvents)
  <1>1. IsFiniteSet(Rows \ Local)
    BY FS_Subset DEF StoreAssumption
  <1>2. IsFiniteSet(1 .. Copies)
    BY FS_Interval DEF StoreAssumption
  <1> QED BY <1>1, <1>2, FS_Product DEF SeenEvents

LEMMA HighestType ==
    ASSUME StoreAssumption, NEW t \in TableType
    PROVE  Highest(t) \in Nat
  <1> DEFINE f == t.seen
             S == {f[e] : e \in SeenEvents}
             N == {0} \cup S
  <1>1. f \in [SeenEvents -> Nat]
    BY DEF TableType, Windows
  <1>2. S \subseteq Nat
    BY <1>1
  <1>3. IsFiniteSet(S)
    <2> DEFINE g == [e \in SeenEvents |-> f[e]]
    <2>1. g \in Surjection(SeenEvents, S)
      BY DEF Surjection
    <2> HIDE DEF g, S
    <2> QED BY <2>1, WindowFinite, FS_Surjection
  <1>4. IsFiniteSet(N) /\ N \subseteq Nat /\ N # {}
    <2> HIDE DEF S
    <2>1. IsFiniteSet(S \cup {0})
      BY <1>3, FS_AddElement
    <2> QED BY <1>2, <2>1
  <1>5. PICK n \in N : \A y \in N : y <= n
    <2> HIDE DEF N
    <2> QED BY <1>4, Greatest
  <1>6. n \in N /\ \A e \in SeenEvents : f[e] <= n
    BY <1>5
  <1>7. Highest(t) = CHOOSE k \in N : \A e \in SeenEvents : f[e] <= k
    BY DEF Highest
  <1> HIDE DEF N, f
  <1>8. Highest(t) \in N
    BY <1>6, <1>7
  <1> QED BY <1>4, <1>8

\* The window a session starts with.
LEMMA LoadedWindow ==
    ASSUME StoreAssumption, NEW t \in TableType, NEW s \in InOrder(t)
    PROVE  LastOf(s) \in Seq(SeenEvents)
  <1>1. SeenIn(t) \subseteq SeenEvents
    BY DEF SeenIn
  <1> DEFINE n == Cardinality(SeenIn(t))
  <1>2. n \in Nat
    BY <1>1, WindowFinite, FS_Subset, FS_CardinalityType
  <1>3. s \in [1 .. n -> SeenIn(t)]
    BY DEF InOrder
  <1> HIDE DEF n
  <1>4. s \in [1 .. n -> SeenEvents]
    BY <1>1, <1>3
  <1>5. s \in Seq(SeenEvents)
    BY <1>2, <1>4, SeqDef
  <1>6. Len(s) = n
    BY <1>2, <1>4, <1>5, LenProperties
  <1>7. CASE Len(s) <= MaxSeen
    BY <1>5, <1>7 DEF LastOf
  <1>8. CASE ~(Len(s) <= MaxSeen)
    <2> DEFINE k == Len(s) - MaxSeen + 1
    <2>1. k \in Int /\ k >= 1 /\ MaxSeen \in Nat
      BY <1>2, <1>6, <1>8 DEF StoreAssumption
    <2>2. \A i \in k .. n : s[i] \in SeenEvents
      BY <1>2, <1>4, <2>1
    <2>3. LastOf(s) = SubSeq(s, k, n)
      BY <1>6, <1>8 DEF LastOf
    <2> HIDE DEF k
    <2> QED BY <1>2, <2>1, <2>2, <2>3, SubSeqProperties
  <1> QED BY <1>7, <1>8

\* The rows a session starts with are some of the table's.
LEMMA LoadedThreads ==
    ASSUME NEW t \in TableType, NEW active
    PROVE  /\ LoadThreads(t, active) \in Bags
           /\ DOMAIN LoadThreads(t, active) = DOMAIN t.chats
           /\ \A c \in DOMAIN t.chats :
                DOMAIN LoadThreads(t, active)[c].rows \subseteq DOMAIN t.chats[c].rows
  <1> DEFINE some(c) ==
        LET old == t.chats[c].rows IN
        IF c = active \/ DOMAIN old = {} THEN old
        ELSE LET newest == CHOOSE m \in DOMAIN old : TRUE IN [m \in {newest} |-> old[m]]
             f == t.chats
             g == LoadThreads(t, active)
  <1>1. f \in Bags
    BY DEF TableType
  <1>2. ASSUME NEW c \in DOMAIN f
        PROVE  /\ some(c) \in Partial(Rows, RowValue)
               /\ DOMAIN some(c) \subseteq DOMAIN f[c].rows /\ f[c] \in Thread
    <2> DEFINE old == f[c].rows
               newest == CHOOSE m \in DOMAIN old : TRUE
               one == [m \in {newest} |-> old[m]]
    <2>1. f[c] \in Thread
      BY <1>1, ThreadOfBag
    <2>2. old \in Partial(Rows, RowValue)
      BY <2>1, ThreadParts
    <2>3. some(c) = IF c = active \/ DOMAIN old = {} THEN old ELSE one
      OBVIOUS
    <2>4. old \in [DOMAIN old -> RowValue] /\ DOMAIN old \subseteq Rows
      BY <2>2, PartialDef
    <2>5. CASE c = active \/ DOMAIN old = {}
      BY <2>1, <2>2, <2>3, <2>5
    <2>6. CASE ~(c = active \/ DOMAIN old = {})
      <3>1. newest \in DOMAIN old
        BY <2>6
      <3> HIDE DEF newest, old
      <3>2. one \in [{newest} -> RowValue] /\ DOMAIN one = {newest}
        BY <2>4, <3>1
      <3>3. one \in Partial(Rows, RowValue)
        BY <2>4, <3>1, <3>2, PartialDef
      <3>4. some(c) = one
        BY <2>3, <2>6 DEF old, newest
      <3> HIDE DEF one, some
      <3> QED BY <2>1, <3>1, <3>2, <3>3, <3>4 DEF old
    <2> QED BY <2>5, <2>6
  <1>3. DOMAIN g = DOMAIN f /\ g = [c \in DOMAIN f |-> g[c]]
    BY DEF LoadThreads
  <1>4. \A c \in DOMAIN f : g[c] = [f[c] EXCEPT !.rows = some(c)]
    <2> TAKE c \in DOMAIN f
    <2>1. f[c] \in Thread
      BY <1>2
    <2> QED BY <2>1 DEF LoadThreads, Thread
  <1> HIDE DEF some, g, f
  <1>5. ASSUME NEW c \in DOMAIN f
        PROVE  g[c] \in Thread /\ g[c].rows = some(c)
    <2> DEFINE r == some(c)
               th == f[c]
    <2>1. r \in Partial(Rows, RowValue) /\ th \in Thread
      BY <1>2
    <2>3. g[c] = [th EXCEPT !.rows = r] /\ r = some(c)
      BY <1>4
    <2> HIDE DEF r, th
    <2>2. [th EXCEPT !.rows = r] \in Thread /\ [th EXCEPT !.rows = r].rows = r
      BY <2>1, ThreadParts
    <2> QED BY <2>2, <2>3
  <1>6. g \in [DOMAIN f -> Thread]
    BY <1>3, <1>5
  <1>7. g \in Bags
    BY <1>1, <1>3, <1>6, PartialDef, ThreadOfBag DEF Bags
  <1> QED BY <1>2, <1>3, <1>5, <1>7 DEF f, g

\* The tables a session is loaded from, without what has expired.
LEMMA LoadedTable ==
    ASSUME StoreInv, NEW t, t = IF late THEN RowsExpired ELSE table
    PROVE  /\ t \in TableType /\ t.slices = table.slices /\ SeenIn(t) = SeenIn(table)
           /\ DOMAIN t.chats = DOMAIN table.chats /\ Numbered(t.chats, used)
           /\ \A N, D, K :
                /\ D.chats = cache.chats
                /\ \A c \in DOMAIN t.chats : LoadedRows(N, c) \subseteq DOMAIN t.chats[c].rows
                => ChatsAgree(N, t, D, K)
  <1>1. table \in TableType /\ table.chats \in Bags /\ Numbered(table.chats, used)
    BY ChatTypes DEF StoreInv, Types, LocalKnown
  <1>2. ChatsAgree(memory, table, cache, left)
    BY DEF StoreInv
  <1>3. CASE ~late
    <2>1. t = table
      BY <1>3
    <2>2. ASSUME NEW N, NEW D, NEW K, D.chats = cache.chats,
                 \A c \in DOMAIN table.chats : LoadedRows(N, c) \subseteq DOMAIN table.chats[c].rows
          PROVE  ChatsAgree(N, table, D, K)
      BY <1>2, <2>2 DEF ChatsAgree, Forgotten
    <2> QED BY <1>1, <2>1, <2>2
  <1>4. CASE late
    <2> DEFINE b == RowsGone(table.chats, Expiring)
    <2>1. t = [table EXCEPT !.chats = b]
      BY <1>1, <1>4 DEF RowsExpired, TableType
    <2>2. b \in Bags /\ DOMAIN b = DOMAIN table.chats /\ Numbered(b, used)
      BY <1>1, RowsGoneValue, GoneNumbered
    <2>3. b = RowsGone(table.chats, Expiring)
      OBVIOUS
    <2> HIDE DEF b
    <2>4. /\ [table EXCEPT !.chats = b] \in TableType /\ [table EXCEPT !.chats = b].chats = b
          /\ [table EXCEPT !.chats = b].slices = table.slices
          /\ [table EXCEPT !.chats = b].seen = table.seen
      BY <1>1, <2>2, WithChats
    <2>5. t \in TableType /\ t.chats = b /\ t.slices = table.slices /\ t.seen = table.seen
      BY <2>1, <2>4
    <2>6. ASSUME NEW N, NEW D, NEW K, D.chats = cache.chats,
                 \A c \in DOMAIN t.chats : LoadedRows(N, c) \subseteq DOMAIN t.chats[c].rows
          PROVE  ChatsAgree(N, t, D, K)
      <3> DEFINE f == cache.chats
                 g == table.chats
      <3>1. /\ DOMAIN f \subseteq DOMAIN g /\ g \in Bags
            /\ \A c \in DOMAIN f : Copied(g[c], f[c])
        BY <1>1, <1>2 DEF ChatsAgree
      <3>2. b = RowsGone(g, Expiring) /\ D.chats = f
        BY <2>3, <2>6
      <3> HIDE DEF f, g
      <3>3. DOMAIN b = DOMAIN g
        BY <3>1, <3>2, RowsGoneValue
      <3>4. ASSUME NEW c \in DOMAIN f PROVE Copied(b[c], f[c])
        <4>1. /\ b[c].head = g[c].head /\ b[c].draft = g[c].draft
              /\ DOMAIN b[c].rows = DOMAIN g[c].rows \ Expiring
              /\ \A m \in DOMAIN g[c].rows \ Expiring : b[c].rows[m] = g[c].rows[m]
          BY <3>1, <3>2, RowsGoneValue
        <4> QED BY <3>1, <4>1 DEF Copied
      <3>5. ASSUME NEW c \in DOMAIN f PROVE Forgotten(b[c], f[c], LoadedRows(N, c))
        BY <2>5, <2>6, <3>1, <3>3 DEF Forgotten
      <3> QED BY <2>5, <3>1, <3>2, <3>3, <3>4, <3>5 DEF ChatsAgree
    <2> QED BY <2>2, <2>5, <2>6 DEF SeenIn
  <1> QED BY <1>3, <1>4

LEMMA LoadTablesKeeps ==
    ASSUME StoreInv, StoreAssumption, LoadTables
    PROVE  StoreInv'
  <1> DEFINE t == IF late THEN RowsExpired ELSE table
  <1>1. /\ t \in TableType /\ t.slices = table.slices /\ SeenIn(t) = SeenIn(table)
        /\ DOMAIN t.chats = DOMAIN table.chats /\ Numbered(t.chats, used)
        /\ \A N, D, K :
             /\ D.chats = cache.chats
             /\ \A c \in DOMAIN t.chats : LoadedRows(N, c) \subseteq DOMAIN t.chats[c].rows
             => ChatsAgree(N, t, D, K)
    BY LoadedTable
  <1>2. /\ memory = NoMemory /\ cache \in CacheType /\ table \in TableType /\ used \subseteq Local
        /\ SlicesAgree(table, cache) /\ cache.seen \subseteq SeenIn(table)
        /\ table.slices = NeverWritten => SeenIn(table) = {}
        /\ Numbered(cache.chats, used) /\ Numbered(table.chats, used)
        /\ ChatsAgree(memory, table, cache, left)
    BY DEF StoreInv, Types, LoadTables, WindowsAgree, LocalKnown
  <1>3. loggedIn' /\ used' = used
    BY DEF LoadTables
  <1>4. DOMAIN t.chats \subseteq Chats /\ DOMAIN table.chats \subseteq Chats
    <2> DEFINE f == t.chats
               g == table.chats
    <2>1. f \in Bags /\ g \in Bags
      BY <1>1, <1>2 DEF TableType
    <2> HIDE DEF f, g
    <2>2. DOMAIN f \subseteq Chats /\ DOMAIN g \subseteq Chats
      BY <2>1, PartialDef DEF Bags
    <2> QED BY <2>2 DEF f, g
  <1>5. ASSUME t.slices # NeverWritten, NEW active \in Chats, NEW order \in InOrder(t),
               memory' = [slices |-> t.slices, chats |-> LoadThreads(t, active), seen |-> LastOf(order)],
               cache' = [cache EXCEPT !.seen = SeenIn(t), !.next = Highest(t) + 1],
               table' = t, left' = {}
        PROVE  StoreInv'
    <2> DEFINE a == LoadThreads(t, active)
               N == memory'
               D == cache'
    <2>1. LastOf(order) \in Seq(SeenEvents) /\ Highest(t) \in Nat
      <3> HIDE DEF t
      <3> QED BY <1>1, LoadedWindow, HighestType
    <2>2. /\ a \in Bags /\ DOMAIN a = DOMAIN t.chats
          /\ \A c \in DOMAIN t.chats : DOMAIN a[c].rows \subseteq DOMAIN t.chats[c].rows
      <3> HIDE DEF t
      <3> QED BY <1>1, LoadedThreads
    <2>3. SeenIn(t) \subseteq SeenEvents
      BY DEF SeenIn
    <2>4. N \in MemoryType /\ N.chats = a
      <3>1. t.slices \in {1, 2}
        <4> HIDE DEF t
        <4> QED BY <1>1, <1>5 DEF TableType, NeverWritten
      <3>2. memory' = [slices |-> t.slices, chats |-> a, seen |-> LastOf(order)]
        BY <1>5
      <3> HIDE DEF a, t
      <3> QED BY <2>1, <2>2, <3>1, <3>2 DEF MemoryType
    <2>5. D \in CacheType /\ D.chats = cache.chats /\ D.slices = cache.slices /\ D.seen = SeenIn(t)
      <3> DEFINE n == Highest(t) + 1
                 w == SeenIn(t)
      <3>1. n \in Nat \ {0} /\ w \subseteq SeenEvents
        BY <2>1, <2>3
      <3>2. D = [cache EXCEPT !.seen = w, !.next = n] /\ w = SeenIn(t)
        BY <1>5
      <3> HIDE DEF n, w, D
      <3>3. /\ [cache EXCEPT !.seen = w, !.next = n] \in CacheType
            /\ [cache EXCEPT !.seen = w, !.next = n].chats = cache.chats
            /\ [cache EXCEPT !.seen = w, !.next = n].slices = cache.slices
            /\ [cache EXCEPT !.seen = w, !.next = n].seen = w
        BY <1>2, <3>1 DEF CacheType
      <3> QED BY <3>2, <3>3
    <2>6. N = memory' /\ D = cache'
      OBVIOUS
    <2> HIDE DEF a, N, D, t
    <2>7. Types'
      BY <1>1, <1>2, <1>3, <1>5, <2>4, <2>5, <2>6 DEF Types
    <2>8. SlicesAgree(table, cache)'
      BY <1>1, <1>2, <1>5, <2>5, <2>6 DEF SlicesAgree
    <2>9. WindowsAgree(table, cache, loggedIn /\ ~blind)'
      BY <1>1, <1>2, <1>5, <2>5, <2>6 DEF WindowsAgree
    <2>10. ChatsAgree(memory, table, cache, left)'
      <3>1. \A c \in DOMAIN t.chats : LoadedRows(N, c) \subseteq DOMAIN t.chats[c].rows
        BY <2>2, <2>4 DEF LoadedRows
      <3>2. ChatsAgree(N, t, D, {})
        BY <1>1, <2>5, <3>1
      <3> QED BY <1>5, <2>6, <3>2 DEF ChatsAgree, LoadedRows, Copied, Forgotten
    <2>11. LocalKnown(memory, table, cache, used)'
      <3>1. Numbered(a, used)
        BY <1>1, <2>2 DEF Numbered
      <3> QED BY <1>1, <1>2, <1>3, <1>5, <2>4, <2>5, <2>6, <3>1 DEF LocalKnown, Numbered
    <2>12. DOMAIN table'.chats \subseteq DOMAIN memory'.chats
      BY <1>5, <2>2, <2>4, <2>6
    <2> QED BY <1>3, <2>7, <2>8, <2>9, <2>10, <2>11, <2>12 DEF StoreInv
  <1>6. ASSUME memory' = NoMemory, cache' = cache, table' = t \/ table' = table,
               left' = DOMAIN table'.chats,
               table' = t => t.slices = NeverWritten \/ blind', table' # t => blind'
        PROVE  StoreInv'
    <2> DEFINE s == table'
    <2>1. /\ s \in TableType /\ s.slices = table.slices /\ SeenIn(s) = SeenIn(table)
          /\ Numbered(s.chats, used) /\ DOMAIN s.chats \subseteq Chats
          /\ s = table'
      BY <1>1, <1>2, <1>4, <1>6
    <2>2. blind' \/ s.slices = NeverWritten
      BY <1>1, <1>6
    <2>3. ChatsAgree(NoMemory, s, cache, DOMAIN s.chats)
      <3>1. CASE s = table
        <4>1. ChatsAgree(NoMemory, table, cache, DOMAIN table.chats)
          BY <1>2, EmptyAgrees
        <4> QED BY <3>1, <4>1
      <3>2. CASE s = t
        <4>1. \A c : LoadedRows(NoMemory, c) = {}
          BY NoTypes, NoRowsInBags DEF LoadedRows
        <4>2. ChatsAgree(NoMemory, t, cache, DOMAIN t.chats)
          <5> HIDE DEF t
          <5> QED BY <1>1, <4>1
        <4> QED BY <3>2, <4>2
      <3> QED BY <1>6, <3>1, <3>2
    <2> HIDE DEF s, t
    <2>4. Types'
      BY <1>2, <1>3, <1>6, <2>1, NoTypes DEF Types
    <2>5. SlicesAgree(table, cache)'
      BY <1>2, <1>6, <2>1 DEF SlicesAgree
    <2>6. WindowsAgree(table, cache, loggedIn /\ ~blind)'
      BY <1>2, <1>6, <2>1, <2>2 DEF WindowsAgree
    <2>7. ChatsAgree(memory, table, cache, left)'
      BY <1>6, <2>1, <2>3 DEF ChatsAgree, LoadedRows, Copied, Forgotten
    <2>8. LocalKnown(memory, table, cache, used)'
      BY <1>2, <1>3, <1>6, <2>1, NoTypes, EmptyAgrees DEF LocalKnown, Numbered
    <2> QED BY <1>3, <1>6, <2>1, <2>4, <2>5, <2>6, <2>7, <2>8 DEF StoreInv
  <1>7. \/ /\ t.slices # NeverWritten
           /\ \E active \in Chats, order \in InOrder(t) :
                memory' = [slices |-> t.slices, chats |-> LoadThreads(t, active), seen |-> LastOf(order)]
           /\ cache' = [cache EXCEPT !.seen = SeenIn(t), !.next = Highest(t) + 1]
           /\ table' = t /\ left' = {}
        \/ /\ t.slices = NeverWritten
           /\ memory' = NoMemory /\ table' = t /\ left' = DOMAIN t.chats /\ cache' = cache
        \/ /\ memory' = NoMemory /\ blind' /\ left' = DOMAIN table.chats
           /\ table' = table /\ cache' = cache
    BY DEF LoadTables
  <1>8. CASE /\ t.slices # NeverWritten
             /\ \E active \in Chats, order \in InOrder(t) :
                  memory' = [slices |-> t.slices, chats |-> LoadThreads(t, active), seen |-> LastOf(order)]
             /\ cache' = [cache EXCEPT !.seen = SeenIn(t), !.next = Highest(t) + 1]
             /\ table' = t /\ left' = {}
    <2> HIDE DEF t
    <2> QED BY <1>5, <1>8
  <1> HIDE DEF t
  <1> QED BY <1>6, <1>7, <1>8

\* A save that succeeds leaves in the table what writing all of memory would.
THEOREM StoreWritesAll == StoreSpec => SaveWritesAll
<1>1. StoreInit => StoreInv
  BY StoreInitInv
<1>2. StoreInv /\ [StoreNext]_storeVars => StoreInv'
  <2> SUFFICES ASSUME StoreInv, [StoreNext]_storeVars
               PROVE  StoreInv'
    OBVIOUS
  <2>1. StoreAssumption
    BY StoreAssumption
  <2>2. CASE Save \/ ChangeSlices \/ Expire \/ LoadTables \/ EndProcess \/ ClearTables
    BY <2>1, <2>2, SaveKeeps, ChangeSlicesKeeps, ExpireKeeps, LoadTablesKeeps, EndProcessKeeps,
       ClearTablesKeeps
  <2>3. ASSUME NEW c \in Chats, ChangeThread(c) \/ DeleteThread(c) \/ OpenChat(c)
        PROVE  StoreInv'
    BY <2>3, ChangeThreadKeeps, DeleteThreadKeeps, OpenChatKeeps
  <2>4. ASSUME NEW m \in Local, WriteLocal(m) PROVE StoreInv'
    BY <2>1, <2>4, WriteLocalKeeps
  <2>5. ASSUME NEW m \in Rows, DeleteMessage(m) PROVE StoreInv'
    BY <2>5, DeleteMessageKeeps
  <2>6. ASSUME NEW m \in Rows \ Local, NEW k \in 1 .. Copies, Arrives(m, k) \/ ArrivesAgain(m, k)
        PROVE  StoreInv'
    BY <2>1, <2>6, ArrivesKeeps, ArrivesAgainKeeps
  <2>7. CASE UNCHANGED storeVars
    BY <2>7 DEF storeVars, StoreInv, Types, SlicesAgree, WindowsAgree, SeenIn, ChatsAgree, LoadedRows,
        Copied, Forgotten, LocalKnown, Numbered
  <2> QED BY <2>2, <2>3, <2>4, <2>5, <2>6, <2>7 DEF StoreNext
<1>3. StoreInv => (cache' = UpdateCache /\ table' = Apply /\ UNCHANGED memory /\ loggedIn =>
        /\ table'.slices = memory.slices
        /\ DOMAIN memory.chats \subseteq DOMAIN table'.chats
        /\ DOMAIN table'.chats \subseteq DOMAIN memory.chats \cup left
        /\ \A c \in DOMAIN memory.chats \ left : table'.chats[c] = Written(c)
        /\ Elements(memory.seen) \subseteq SeenIn(table')
        /\ ~blind => SeenIn(table') = Elements(memory.seen))
  <2> SUFFICES ASSUME StoreInv, table' = Apply, loggedIn
               PROVE  /\ table'.slices = memory.slices
                      /\ DOMAIN memory.chats \subseteq DOMAIN table'.chats
                      /\ DOMAIN table'.chats \subseteq DOMAIN memory.chats \cup left
                      /\ \A c \in DOMAIN memory.chats \ left : table'.chats[c] = Written(c)
                      /\ Elements(memory.seen) \subseteq SeenIn(table')
                      /\ ~blind => SeenIn(table') = Elements(memory.seen)
    OBVIOUS
  <2>1. Types /\ WindowsAgree(table, cache, loggedIn /\ ~blind)
    BY DEF StoreInv
  <2>2. SeenIn(table') = SeenIn(Apply)
    OBVIOUS
  <2> QED BY <2>1, <2>2, SlicesAfterSave, ChatsAfterSave, WindowOfApply
<1> QED BY <1>1, <1>2, <1>3, PTL DEF StoreSpec, SaveWritesAll

=============================================================================
