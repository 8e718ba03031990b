----------------------- MODULE GroupSenderKeysProofs -----------------------
(***************************************************************************)
(* Theorems about GroupSenderKeys.                                         *)
(*                                                                         *)
(* The operators on the engine are dealt with one by one first: what they   *)
(* leave alone and what they take or add.  The invariants are stated about *)
(* values, so that a step is judged by the engines it leads from and to.    *)
(***************************************************************************)
EXTENDS GroupSenderKeys, TLAPS

-----------------------------------------------------------------------------
(* What the operators do to an engine.                                     *)

\* An engine in which only a request that is kept has a date.
Engines == {e \in EngineType : e.asked \subseteq e.repairs}

\* f differs from e in its requests only.
SameQueue(e, f) ==
    /\ f.keys = e.keys /\ f.rev = e.rev /\ f.inputs = e.inputs
    /\ f.waiting = e.waiting /\ f.acks = e.acks /\ f.used = e.used

LEMMA PositionTypes ==
    ASSUME NEW m \in Messages
    PROVE  /\ Position(m) \in Positions /\ Sender(m) \in Senders
           /\ Time[m] \in Nat /\ m # NoMessage
BY MessageAssumption DEF Position, Positions, Sender

LEMMA ClearRepairsTypes ==
    ASSUME NEW e \in Engines, NEW s, NEW at
    PROVE  LET f == ClearRepairs(e, s, at)
           IN  /\ f \in Engines /\ SameQueue(e, f)
               /\ f.repairs = {r \in e.repairs : r.sender # s \/ (at # Anywhere /\ r.at # at)}
BY DEF Engines, EngineType, ClearRepairs, SameQueue

LEMMA AskedTypes ==
    ASSUME NEW e \in Engines, NEW r \in Repairs
    PROVE  /\ Asked(e, r) \in Engines /\ SameQueue(e, Asked(e, r))
           /\ Member(e) => Asked(e, r).repairs = e.repairs \cup {r}
<1>1. CASE Member(e)
  BY <1>1 DEF Engines, EngineType, Asked, SameQueue
<1>2. CASE ~Member(e)
  BY <1>2, ClearRepairsTypes DEF Asked
<1>q. QED BY <1>1, <1>2

LEMMA NotAskedTypes ==
    ASSUME NEW e \in Engines, NEW r \in Repairs
    PROVE  /\ NotAsked(e, r) \in Engines /\ SameQueue(e, NotAsked(e, r))
           /\ NotAsked(e, r).repairs = e.repairs \cup {r}
BY DEF Engines, EngineType, NotAsked, SameQueue

\* A request for a message that waits for something is a request.
LEMMA RepairForTypes ==
    ASSUME NEW e \in Engines, NEW m \in Messages, Pending(e, m)
    PROVE  /\ RepairFor(e, m) \in Repairs
           /\ RepairFor(e, m).sender = Sender(m) /\ RepairFor(e, m).at = Position(m)
BY PositionTypes DEF Repairs, RepairFor, Pending

LEMMA SentTypes ==
    ASSUME NEW e \in Engines, NEW r \in Repairs
    PROVE  Sent(e, r) \subseteq Repairs
BY DEF Sent

LEMMA HandledTypes ==
    ASSUME NEW e \in Engines, NEW m \in Messages
    PROVE  LET f == Handled(e, m)
           IN  /\ f \in Engines
               /\ f.keys = e.keys /\ f.rev = e.rev /\ f.inputs = e.inputs
               /\ f.waiting = e.waiting /\ f.acks = e.acks
               /\ f.used = IF Outcome(e, m) = "gone" THEN e.used ELSE e.used \cup {m}
               /\ f.repairs = {r \in e.repairs : \/ r.sender # Sender(m)
                                                 \/ (Position(m) # Anywhere /\ r.at # Position(m))}
<1> DEFINE g == [e EXCEPT !.used = IF Outcome(e, m) = "gone" THEN @ ELSE @ \cup {m}]
<1>1. /\ g \in Engines
      /\ g.keys = e.keys /\ g.rev = e.rev /\ g.inputs = e.inputs
      /\ g.waiting = e.waiting /\ g.acks = e.acks /\ g.repairs = e.repairs
      /\ g.used = IF Outcome(e, m) = "gone" THEN e.used ELSE e.used \cup {m}
  BY DEF Engines, EngineType
<1>2. Handled(e, m) = ClearRepairs(g, Sender(m), Position(m))
  BY DEF Handled
<1> HIDE DEF g
<1>q. QED BY <1>1, <1>2, ClearRepairsTypes DEF SameQueue

\* What has been delivered is taken from the queue, by sender and second; and
\* requests go where nothing of the sender is left in it.
LEMMA AcknowledgedTypes ==
    ASSUME NEW e \in Engines, NEW M \in SUBSET Messages
    PROVE  LET f == Acknowledged(e, M)
           IN  /\ f \in Engines
               /\ f.keys = e.keys /\ f.rev = e.rev /\ f.inputs = e.inputs /\ f.used = e.used
               /\ f.waiting \subseteq e.waiting /\ e.acks \subseteq f.acks
               /\ \A n \in e.waiting \ f.waiting : <<Sender(n), Time[n]>> \in f.acks
               /\ \A r \in e.repairs \ f.repairs, n \in f.waiting : Sender(n) # r.sender
<1> DEFINE Of     == {m \in M : Mapped(e, m)}
           rest   == {n \in e.waiting : \A m \in Of : Sender(n) = Sender(m) => Time[n] # Time[m]}
           Free(r) == /\ \E n \in e.waiting \ rest : Sender(n) = r.sender
                      /\ \A n \in rest : Sender(n) # r.sender
           A      == e.acks \cup {<<Sender(m), Time[m]>> : m \in Of}
           R      == {r \in e.repairs : ~Free(r)}
           D      == {r \in e.asked : ~Free(r)}
<1>1. Acknowledged(e, M) =
          [e EXCEPT !.acks = A, !.waiting = rest, !.repairs = R, !.asked = D]
  BY DEF Acknowledged, Engines, EngineType
<1>2. A \subseteq Senders \X Nat
  <2>1. \A m \in Of : <<Sender(m), Time[m]>> \in Senders \X Nat
    BY PositionTypes
  <2>2. e.acks \subseteq Senders \X Nat
    BY DEF Engines, EngineType
  <2>q. QED BY <2>1, <2>2
<1>3. rest \subseteq e.waiting /\ R \subseteq e.repairs /\ D \subseteq R
  BY DEF Engines
<1>4. \A n \in e.waiting \ rest : <<Sender(n), Time[n]>> \in A
  OBVIOUS
<1>5. \A r \in e.repairs \ R, n \in rest : Sender(n) # r.sender
  OBVIOUS
<1>6. e.acks \subseteq A
  OBVIOUS
<1> HIDE DEF A, rest, R, D
<1> DEFINE f == [e EXCEPT !.acks = A, !.waiting = rest, !.repairs = R, !.asked = D]
<1>7. /\ f.keys = e.keys /\ f.rev = e.rev /\ f.inputs = e.inputs /\ f.used = e.used
      /\ f.acks = A /\ f.waiting = rest /\ f.repairs = R /\ f.asked = D
  BY DEF Engines, EngineType
<1>8. f \in Engines
  BY <1>2, <1>3 DEF Engines, EngineType
<1>9. Acknowledged(e, M) = f
  BY <1>1
<1> HIDE DEF f
<1>q. QED BY <1>3, <1>4, <1>5, <1>6, <1>7, <1>8, <1>9

\* A message is queued, or the engine has given it up.
LEMMA QueuedTypes ==
    ASSUME NEW e \in Engines, NEW m \in Messages
    PROVE  LET f == Queued(e, m)
           IN  /\ f \in Engines
               /\ f.keys = e.keys /\ f.rev = e.rev /\ f.inputs = e.inputs
               /\ f.acks = e.acks /\ f.used = e.used
               /\ e.waiting \subseteq f.waiting /\ f.waiting \subseteq e.waiting \cup {m}
               /\ \/ m \in f.waiting
                  \/ Mapped(e, m) /\ <<Sender(m), Time[m]>> \in e.acks
                  \/ Mapped(e, m) /\ ~Member(e)
               /\ \/ f.repairs = e.repairs
                  \/ Mapped(e, m) /\ ~Member(e)
                  \/ \A n \in f.waiting : Sender(n) # Sender(m)
                     /\ f.waiting = e.waiting
                     /\ \A r \in e.repairs \ f.repairs : r.sender = Sender(m)
<1>1. CASE Mapped(e, m) /\ <<Sender(m), Time[m]>> \in e.acks
  <2> DEFINE alone == \A n \in e.waiting : Sender(n) # Sender(m)
             c == ClearRepairs(e, Sender(m), Anywhere)
  <2>1. Queued(e, m) = IF alone THEN c ELSE e
    BY <1>1 DEF Queued
  <2>2. /\ c \in Engines /\ SameQueue(e, c)
        /\ \A r \in e.repairs \ c.repairs : r.sender = Sender(m)
    BY ClearRepairsTypes
  <2> HIDE DEF c
  <2>3. CASE alone
    BY <1>1, <2>1, <2>2, <2>3 DEF SameQueue
  <2>4. CASE ~alone
    BY <1>1, <2>1, <2>4
  <2>q. QED BY <2>3, <2>4
<1>2. CASE /\ ~(Mapped(e, m) /\ <<Sender(m), Time[m]>> \in e.acks)
           /\ Mapped(e, m) /\ ~Member(e)
  BY <1>2, ClearRepairsTypes DEF Queued, SameQueue
<1>3. CASE /\ ~(Mapped(e, m) /\ <<Sender(m), Time[m]>> \in e.acks)
           /\ ~(Mapped(e, m) /\ ~Member(e))
  <2>1. Queued(e, m) = [e EXCEPT !.waiting = @ \cup {m}]
    BY <1>3 DEF Queued
  <2>q. QED BY <2>1 DEF Engines, EngineType
<1>q. QED BY <1>1, <1>2, <1>3

LEMMA AskedAgainTypes ==
    ASSUME NEW e \in Engines
    PROVE  /\ AskedAgain(e) \in Engines /\ SameQueue(e, AskedAgain(e))
           /\ Member(e) => AskedAgain(e).repairs = e.repairs
<1>1. CASE Member(e)
  BY <1>1 DEF AskedAgain, Engines, EngineType, SameQueue
<1>2. CASE ~Member(e)
  <2> DEFINE Other(R) == {r \in R : \A d \in Due(e) :
                              d.sender = r.sender => d.at \notin {Anywhere, r.at}}
             R == Other(e.repairs)
             D == Other(e.asked)
  <2>1. AskedAgain(e) = [e EXCEPT !.repairs = R, !.asked = D]
    BY <1>2 DEF AskedAgain
  <2>2. R \subseteq e.repairs /\ D \subseteq R
    BY DEF Engines
  <2> HIDE DEF R, D
  <2>q. QED BY <1>2, <2>1, <2>2 DEF Engines, EngineType, SameQueue
<1>q. QED BY <1>1, <1>2

LEMMA PrunedTypes ==
    ASSUME NEW e \in Engines
    PROVE  LET f == Pruned(e)
           IN  /\ f \in Engines
               /\ f.keys = e.keys /\ f.rev = e.rev /\ f.inputs = e.inputs
               /\ f.acks = e.acks /\ f.used = e.used
               /\ f.waiting \subseteq e.waiting
               /\ Member(e) => f = e
BY DEF Pruned, Engines, EngineType, Member

-----------------------------------------------------------------------------
(* The types.                                                              *)

LEMMA TypesOfEngines == TypeOK => engine \in Engines /\ disk \in Engines
BY DEF TypeOK, Engines

LEMMA WritesTypes ==
    ASSUME TypeOK, NEW e \in Engines, NEW w, Writes(e, w)
    PROVE  disk' \in Engines /\ dirty' \in BOOLEAN
BY TypesOfEngines DEF Writes

LEMMA BeginTypes ==
    ASSUME NEW e \in Engines, NEW from \in Messages \cup {NoMessage},
           NEW got \in SUBSET Messages, NEW wrote \in BOOLEAN,
           Begin(e, from, got, wrote)
    PROVE  /\ phase' = "retry"
           /\ engine' \in Engines /\ engine' = [e EXCEPT !.waiting = {}]
           /\ engine'.keys = e.keys /\ engine'.rev = e.rev /\ engine'.inputs = e.inputs
           /\ engine'.waiting = {} /\ engine'.acks = e.acks /\ engine'.used = e.used
           /\ engine'.repairs = e.repairs /\ engine'.asked = e.asked
           /\ work' \in WorkType
           /\ work'.todo = e.waiting /\ work'.keep = {} /\ work'.got = got
           /\ work'.wrote = wrote /\ work'.from = from
<1>1. work' = [todo |-> e.waiting, keep |-> {}, got |-> got, asks |-> {},
               wrote |-> wrote, from |-> from]
  BY DEF Begin, NoWork
<1>2. /\ phase' = "retry" /\ engine' = [e EXCEPT !.waiting = {}]
  BY DEF Begin
<1>3. e.waiting \subseteq Messages
  BY DEF Engines, EngineType
<1>4. work' \in WorkType
  BY <1>1, <1>3 DEF WorkType
<1>5. /\ engine' \in Engines
      /\ engine'.keys = e.keys /\ engine'.rev = e.rev /\ engine'.inputs = e.inputs
      /\ engine'.waiting = {} /\ engine'.acks = e.acks /\ engine'.used = e.used
      /\ engine'.repairs = e.repairs /\ engine'.asked = e.asked
  BY <1>2 DEF Engines, EngineType
<1>q. QED BY <1>1, <1>2, <1>4, <1>5

\* The queue put back.
LEMMA PutBackTypes ==
    ASSUME TypeOK
    PROVE  /\ PutBack \in Engines
           /\ PutBack.keys = engine.keys /\ PutBack.rev = engine.rev
           /\ PutBack.waiting = work.keep /\ PutBack.acks = engine.acks
           /\ PutBack.used = engine.used /\ PutBack.repairs = engine.repairs
BY DEF TypeOK, PutBack, Engines, EngineType, WorkType

LEMMA NoWorkTypes ==
    /\ NoWork \in WorkType
    /\ NoWork.todo = {} /\ NoWork.keep = {} /\ NoWork.got = {}
    /\ NoWork.from = NoMessage /\ NoWork.wrote = FALSE
BY DEF NoWork, WorkType

LEMMA InitTypes == ASSUME Init PROVE TypeOK
<1>1. 0 \in 0 .. Revisions
  BY MessageAssumption
<1>2. engine \in EngineType /\ engine.asked \subseteq engine.repairs /\ disk = engine
  BY <1>1 DEF Init, EngineType
<1>3. mail \subseteq Keys \cup 1 .. Revisions
  BY DEF Init
<1>q. QED BY <1>2, <1>3, NoWorkTypes DEF Init, TypeOK, Phases

LEMMA StepTypes ==
    ASSUME TypeOK, [Next]_vars
    PROVE  TypeOK'
<1> USE TypesOfEngines
<1> DEFINE Steady == /\ stored' \subseteq Messages /\ mail' \subseteq Keys \cup 1 .. Revisions
                     /\ asking' \subseteq Repairs /\ throttled' \subseteq Repairs
                     /\ faults' \in Nat /\ direct' \in BOOLEAN
           Rows   == shown' \subseteq Messages /\ seen' \subseteq Messages /\ lost' \subseteq Messages
           Parts  == /\ phase' \in Phases /\ engine' \in Engines /\ disk' \in Engines
                     /\ dirty' \in BOOLEAN
                     /\ work' \in WorkType /\ (phase' # "retry" => work' = NoWork)
<1>a. Steady /\ Rows /\ Parts => TypeOK'
  BY DEF TypeOK, Engines
<1>b. \A kind : Fault(kind) => faults' \in Nat
  BY DEF Fault, TypeOK
<1>c. InBatch => work = NoWork
  BY DEF InBatch, TypeOK
<1> HIDE DEF Steady, Rows, Parts
<1>1. ASSUME NEW m \in Messages, ReceiveUnmapped(m)
      PROVE  TypeOK'
  <2>1. engine' \in Engines /\ phase' = "open"
    BY <1>1 DEF ReceiveUnmapped, Engines, EngineType
  <2>2. disk' \in Engines /\ dirty' \in BOOLEAN
    BY <1>1, <2>1, WritesTypes DEF ReceiveUnmapped
  <2>3. Parts
    BY <1>1, <1>c, <2>1, <2>2 DEF ReceiveUnmapped, TypeOK, Phases, Parts
  <2>4. Steady /\ Rows
    BY <1>1 DEF ReceiveUnmapped, TypeOK, Steady, Rows
  <2>q. QED BY <1>a, <2>3, <2>4
<1>2. ASSUME NEW m \in Messages, ReceivePending(m)
      PROVE  TypeOK'
  <2> DEFINE r == RepairFor(engine, m)
             e == Asked(engine, r)
  <2>1. r \in Repairs
    BY <1>2, RepairForTypes DEF ReceivePending
  <2> HIDE DEF r
  <2>2. e \in Engines
    BY <2>1, AskedTypes
  <2> HIDE DEF e
  <2>3. engine' \in Engines /\ phase' = "open"
    BY <1>2, <2>2, QueuedTypes DEF ReceivePending, r, e
  <2>4. disk' \in Engines /\ dirty' \in BOOLEAN
    BY <1>2, <2>3, WritesTypes DEF ReceivePending
  <2>5. Parts
    BY <1>2, <1>c, <2>3, <2>4 DEF ReceivePending, TypeOK, Phases, Parts
  <2>6. asking' \subseteq Repairs
    BY <1>2, <2>1, SentTypes DEF ReceivePending, TypeOK, r
  <2>7. Steady /\ Rows
    BY <1>2, <2>6 DEF ReceivePending, TypeOK, Steady, Rows
  <2>q. QED BY <1>a, <2>5, <2>7
<1>3. ASSUME NEW m \in Messages, ReceiveAskFails(m)
      PROVE  TypeOK'
  <2>1. engine' \in Engines /\ phase' = "open"
    BY <1>3, RepairForTypes, NotAskedTypes DEF ReceiveAskFails
  <2>2. Parts
    BY <1>3, <1>c, <2>1 DEF ReceiveAskFails, TypeOK, Phases, Parts
  <2>3. Steady /\ Rows
    BY <1>3, <1>b DEF ReceiveAskFails, TypeOK, Steady, Rows
  <2>q. QED BY <1>a, <2>2, <2>3
<1>4. ASSUME NEW m \in Messages, ReceiveHandled(m)
      PROVE  TypeOK'
  <2> DEFINE h == Handled(engine, m)
             e == [h EXCEPT !.waiting = @ \ {m}]
             got == IF Outcome(engine, m) = "text" THEN {m} ELSE {}
  <2>1. h \in Engines
    BY HandledTypes
  <2> HIDE DEF h
  <2>2. e \in Engines
    BY <2>1 DEF Engines, EngineType
  <2>3. got \in SUBSET Messages
    OBVIOUS
  <2>4. /\ Begin(e, m, got, FALSE)
        /\ Writes(e, Outcome(engine, m) # "ignored" \/ m \in engine.waiting)
    BY <1>4 DEF ReceiveHandled, h
  <2> HIDE DEF e, got
  <2>5. disk' \in Engines /\ dirty' \in BOOLEAN
    BY <2>2, <2>4, WritesTypes
  <2>6. phase' = "retry" /\ engine' \in Engines /\ work' \in WorkType
    BY <2>2, <2>3, <2>4, BeginTypes
  <2>7. Parts
    BY <2>5, <2>6 DEF Phases, Parts
  <2>8. Steady /\ Rows
    BY <1>4 DEF ReceiveHandled, TypeOK, Steady, Rows
  <2>q. QED BY <1>a, <2>7, <2>8
<1>5. ASSUME NEW m \in Messages, Copy(m)
      PROVE  TypeOK'
  <2>1. engine' \in Engines /\ phase' = "open"
    BY <1>5, AcknowledgedTypes DEF Copy
  <2>2. disk' \in Engines /\ dirty' \in BOOLEAN
    BY <1>5, <2>1, WritesTypes DEF Copy
  <2>3. Parts
    BY <1>5, <1>c, <2>1, <2>2 DEF Copy, TypeOK, Phases, Parts
  <2>4. Steady /\ Rows
    BY <1>5, <1>b DEF Copy, TypeOK, Steady, Rows
  <2>q. QED BY <1>a, <2>3, <2>4
<1>6. ASSUME NEW m \in Messages, Try(m)
      PROVE  TypeOK'
  <2>1. work \in WorkType /\ phase = "retry"
    BY <1>6 DEF Try, TryDropped, TryUnmapped, TryPending, TryHandled, Tried, TypeOK
  <2>2. phase' = phase /\ Steady /\ Rows
    BY <1>6 DEF Try, TryDropped, TryUnmapped, TryPending, TryHandled, Tried, TypeOK,
                Steady, Rows
  <2>3. CASE TryDropped(m) \/ TryUnmapped(m)
    <3>1. work' \in WorkType
      <4>1. CASE TryDropped(m)
        BY <2>1, <4>1 DEF TryDropped, WorkType
      <4>2. CASE TryUnmapped(m)
        BY <2>1, <4>2 DEF TryUnmapped, WorkType
      <4>q. QED BY <2>3, <4>1, <4>2
    <3>2. Parts
      BY <2>1, <2>2, <2>3, <3>1 DEF TryDropped, TryUnmapped, TypeOK, Parts
    <3>q. QED BY <1>a, <2>2, <3>2
  <2>4. CASE TryPending(m)
    <3> DEFINE r == RepairFor(engine, m)
    <3>1. r \in Repairs
      BY <2>4, RepairForTypes DEF TryPending
    <3>2. Sent(engine, r) \subseteq Repairs /\ Asked(engine, r) \in Engines
      BY <3>1, SentTypes, AskedTypes
    <3> HIDE DEF r
    <3>3. /\ engine' = Asked(engine, r) /\ disk' = disk /\ dirty' = dirty
          /\ work' = [work EXCEPT !.todo = @ \ {m}, !.keep = @ \cup {m},
                                  !.asks = @ \cup Sent(engine, r)]
      BY <2>4 DEF TryPending, r
    <3>4. work' \in WorkType
      BY <2>1, <3>2, <3>3 DEF WorkType
    <3>5. Parts
      BY <2>1, <2>2, <3>2, <3>3, <3>4 DEF TypeOK, Parts
    <3>q. QED BY <1>a, <2>2, <3>5
  <2>5. CASE TryHandled(m)
    <3>1. engine' \in Engines
      BY <2>5, HandledTypes DEF TryHandled
    <3>2. disk' \in Engines /\ dirty' \in BOOLEAN
      BY <2>5, <3>1, WritesTypes DEF TryHandled
    <3>3. work' \in WorkType
      BY <2>1, <2>5 DEF TryHandled, WorkType
    <3>4. Parts
      BY <2>1, <2>2, <3>1, <3>2, <3>3 DEF TypeOK, Parts
    <3>q. QED BY <1>a, <2>2, <3>4
  <2>q. QED BY <1>6, <2>3, <2>4, <2>5 DEF Try
<1>7. ASSUME NEW e \in Engines, Breaks(e), faults' \in Nat
      PROVE  TypeOK'
  <2>1. Parts
    BY <1>7, NoWorkTypes DEF Breaks, TypeOK, Phases, Parts
  <2>2. Steady
    BY <1>7 DEF Breaks, TypeOK, Steady
  <2>3. work.got \subseteq Messages /\ work.todo \subseteq Messages /\ work.keep \subseteq Messages
    BY DEF TypeOK, WorkType
  <2>4. Rows
    BY <1>7, <2>3 DEF Breaks, TypeOK, Rows
  <2>q. QED BY <1>a, <2>1, <2>2, <2>4
<1>8. ASSUME NEW m \in Messages, TryBreaks(m)
      PROVE  TypeOK'
  <2>1. CASE Breaks(engine) /\ UNCHANGED faults
    BY <2>1, <1>7 DEF TypeOK
  <2>2. CASE /\ Pending(engine, m) /\ Fault("ask")
             /\ Breaks(NotAsked(engine, RepairFor(engine, m)))
    <3>1. NotAsked(engine, RepairFor(engine, m)) \in Engines
      BY <2>2, RepairForTypes, NotAskedTypes
    <3>q. QED BY <2>2, <3>1, <1>7, <1>b
  <2>q. QED BY <1>8, <2>1, <2>2 DEF TryBreaks
<1>9. ASSUME NEW D \in SUBSET Due(engine), RetryEndBreaks(D)
      PROVE  TypeOK'
  <2> DEFINE p == PutBack
  <2>1. p \in Engines /\ D \subseteq Due(p)
    BY <1>9, PutBackTypes DEF RetryEndBreaks
  <2>2. Breaks([p EXCEPT !.asked = @ \cup D]) /\ Fault("ask")
    BY <1>9 DEF RetryEndBreaks
  <2> HIDE DEF p
  <2>3. [p EXCEPT !.asked = @ \cup D] \in Engines
    BY <2>1 DEF Due, Engines, EngineType
  <2>q. QED BY <2>2, <2>3, <1>7, <1>b
<1>10. ASSUME RetryEnds
       PROVE  TypeOK'
  <2> DEFINE e == AskedAgain(PutBack)
             asks == work.asks \cup IF Member(e) THEN Due(PutBack) ELSE {}
  <2>1. PutBack \in Engines /\ e \in Engines
    BY PutBackTypes, AskedAgainTypes
  <2>2. Due(PutBack) \subseteq Repairs
    BY <2>1 DEF Due, Engines, EngineType
  <2> HIDE DEF e
  <2>3. /\ work.got \subseteq Messages /\ work.asks \subseteq Repairs
        /\ work.from \in Messages \cup {NoMessage}
    BY DEF TypeOK, WorkType
  <2>4. asks \subseteq Repairs
    BY <2>2, <2>3
  <2>5. /\ phase' = "open" /\ work' = NoWork
        /\ engine' = Acknowledged(e, work.got)
        /\ Writes(engine', work.wrote \/ asks # {} \/ engine' # PutBack)
        /\ asking' = asking \cup asks
    BY <1>10 DEF RetryEnds, e
  <2> HIDE DEF asks
  <2>6. engine' \in Engines
    BY <2>1, <2>3, <2>5, AcknowledgedTypes
  <2>7. disk' \in Engines /\ dirty' \in BOOLEAN
    BY <2>5, <2>6, WritesTypes
  <2>8. Parts
    BY <2>5, <2>6, <2>7, NoWorkTypes DEF Phases, Parts
  <2>9. Steady
    BY <1>10, <2>4, <2>5 DEF RetryEnds, TypeOK, Steady
  <2>10. Rows
    BY <1>10, <2>3 DEF RetryEnds, TypeOK, Rows
  <2>q. QED BY <1>a, <2>8, <2>9, <2>10
<1>11. ASSUME NEW k \in Keys, Distribution(k)
       PROVE  TypeOK'
  <2>1. Steady /\ Rows
    BY <1>11 DEF Distribution, TypeOK, Steady, Rows
  <2>2. CASE engine.rev = 0
    <3> DEFINE e == [engine EXCEPT !.inputs = @ \cup {k}]
    <3>a. e \in Engines
      BY DEF Engines, EngineType
    <3>b. engine' = e /\ phase' = "open" /\ Writes(engine', TRUE) /\ work' = work
      BY <1>11, <2>2 DEF Distribution
    <3>1. engine' \in Engines /\ phase' = "open" /\ Writes(engine', TRUE) /\ work' = work
      BY <3>a, <3>b
    <3>2. disk' \in Engines /\ dirty' \in BOOLEAN
      BY <3>1, WritesTypes
    <3>3. Parts
      BY <1>11, <1>c, <3>1, <3>2 DEF Distribution, TypeOK, Phases, Parts
    <3>q. QED BY <1>a, <2>1, <3>3
  <2>3. CASE engine.rev # 0
    <3> DEFINE e == [engine EXCEPT !.keys = @ \cup {k}]
    <3>1. e \in Engines
      BY DEF Engines, EngineType
    <3>2. Begin(e, NoMessage, {}, TRUE) /\ Writes(engine, TRUE)
      BY <1>11, <2>3 DEF Distribution
    <3> HIDE DEF e
    <3>3. disk' \in Engines /\ dirty' \in BOOLEAN
      BY <3>2, WritesTypes
    <3>4. phase' = "retry" /\ engine' \in Engines /\ work' \in WorkType
      BY <3>1, <3>2, BeginTypes
    <3>5. Parts
      BY <3>3, <3>4 DEF Phases, Parts
    <3>q. QED BY <1>a, <2>1, <3>5
  <2>q. QED BY <2>2, <2>3
<1>12. ASSUME NEW r \in 1 .. Revisions, Metadata(r)
       PROVE  TypeOK'
  <2> DEFINE e == [engine EXCEPT !.rev = r, !.keys = @ \cup engine.inputs, !.inputs = {}]
  <2>a. r \in 0 .. Revisions /\ engine.keys \cup engine.inputs \subseteq Keys
    BY MessageAssumption DEF Engines, EngineType
  <2>1. e \in Engines
    BY <2>a DEF Engines, EngineType
  <2>2. Begin(e, NoMessage, {}, TRUE) /\ Writes(engine, TRUE)
    BY <1>12 DEF Metadata
  <2> HIDE DEF e
  <2>3. disk' \in Engines /\ dirty' \in BOOLEAN
    BY <2>2, WritesTypes
  <2>4. phase' = "retry" /\ engine' \in Engines /\ work' \in WorkType
    BY <2>1, <2>2, BeginTypes
  <2>5. Parts
    BY <2>3, <2>4 DEF Phases, Parts
  <2>6. Steady /\ Rows
    BY <1>12 DEF Metadata, TypeOK, Steady, Rows
  <2>q. QED BY <1>a, <2>5, <2>6
<1>13. ASSUME Retry
       PROVE  TypeOK'
  <2>1. phase' = "retry" /\ engine' \in Engines /\ work' \in WorkType
    BY <1>13, BeginTypes DEF Retry
  <2>2. Parts
    BY <1>13, <2>1 DEF Retry, TypeOK, Phases, Parts
  <2>3. Steady /\ Rows
    BY <1>13 DEF Retry, TypeOK, Steady, Rows
  <2>q. QED BY <1>a, <2>2, <2>3
<1>14. ASSUME FlushEngine \/ SaveApp
       PROVE  TypeOK'
  BY <1>14, <1>a DEF FlushEngine, SaveApp, TypeOK, Phases, Steady, Rows, Parts
<1>15. ASSUME Crash
       PROVE  TypeOK'
  <2>1. Parts
    BY <1>15, NoWorkTypes DEF Crash, TypeOK, Phases, Parts
  <2>2. Steady
    BY <1>15, <1>b DEF Crash, TypeOK, Steady
  <2>3. Rows
    BY <1>15 DEF Crash, InHand, TypeOK, WorkType, Rows
  <2>q. QED BY <1>a, <2>1, <2>2, <2>3
<1>16. ASSUME Restart
       PROVE  TypeOK'
  <2> DEFINE e == Pruned(disk)
  <2>1. e \in Engines
    BY PrunedTypes
  <2>2. /\ phase = "down" /\ direct' = TRUE /\ disk' = e
        /\ IF HasDue(e) THEN Begin(e, NoMessage, {}, FALSE)
           ELSE phase' = "open" /\ engine' = e /\ UNCHANGED work
    BY <1>16 DEF Restart
  <2> HIDE DEF e
  <2>3. Steady /\ Rows /\ dirty' \in BOOLEAN
    BY <1>16, <2>2 DEF Restart, TypeOK, Steady, Rows
  <2>4. CASE HasDue(e)
    <3>1. phase' = "retry" /\ engine' \in Engines /\ work' \in WorkType
      BY <2>1, <2>2, <2>4, BeginTypes
    <3>q. QED BY <1>a, <2>1, <2>2, <2>3, <3>1 DEF Phases, Parts
  <2>5. CASE ~HasDue(e)
    BY <1>a, <2>1, <2>2, <2>3, <2>5 DEF TypeOK, Phases, Parts
  <2>q. QED BY <2>4, <2>5
<1>17. ASSUME NEW R \in SUBSET engine.asked, RequestsAge(R)
       PROVE  TypeOK'
  <2>1. engine' \in Engines
    BY <1>17 DEF RequestsAge, Engines, EngineType
  <2>2. Parts /\ Steady /\ Rows
    BY <1>17, <2>1 DEF RequestsAge, TypeOK, Phases, Steady, Rows, Parts
  <2>q. QED BY <1>a, <2>2
<1>18. ASSUME NEW r \in Repairs, ThrottleEnds(r)
       PROVE  TypeOK'
  BY <1>18, <1>a DEF ThrottleEnds, TypeOK, Phases, Steady, Rows, Parts
<1>19. ASSUME NEW r \in Repairs, NEW arrives \in BOOLEAN, Answer(r, arrives)
       PROVE  TypeOK'
  <2>1. Answers(r) \subseteq Keys \cup 1 .. Revisions
    BY MessageAssumption DEF Answers
  <2>2. mail' \subseteq Keys \cup 1 .. Revisions
    BY <1>19, <2>1 DEF Answer, TypeOK
  <2>3. Parts /\ Rows
    BY <1>19 DEF Answer, TypeOK, Phases, Rows, Parts
  <2>4. Steady
    BY <1>19, <1>b, <2>2 DEF Answer, TypeOK, Steady
  <2>q. QED BY <1>a, <2>3, <2>4
<1>20. CASE UNCHANGED vars
  BY <1>20 DEF vars, TypeOK
<1>q. QED
  BY <1>1, <1>2, <1>3, <1>4, <1>5, <1>6, <1>8, <1>9, <1>10, <1>11, <1>12, <1>13, <1>14,
     <1>15, <1>16, <1>17, <1>18, <1>19, <1>20 DEF Next, Receive, Deliver, RetryStep

\* The variables keep their types: only a request that is kept has a date, and a
\* queue is taken out in a retry only.
THEOREM GroupTypeCorrect == Spec => []TypeOK
<1>1. Init => TypeOK
  BY InitTypes
<1>2. TypeOK /\ [Next]_vars => TypeOK'
  BY StepTypes
<1>q. QED BY <1>1, <1>2, PTL DEF Spec

-----------------------------------------------------------------------------
(* What waits is asked for.                                                *)

\* Of W, what has a known sender is asked for in e, or the requests for it have
\* been cleared.
AskedFor(e, W) ==
    \A m \in W :
        Mapped(e, m) /\ Member(e) =>
            \/ \E r \in e.repairs : r.sender = Sender(m) /\ r.at = Position(m)
            \/ Cleared(e, Sender(m))

\* The engine is done with a message whose key it has and which it has opened, or
\* which is older than the key.
LEMMA GoneMeans ==
    ASSUME NEW e, NEW m \in Messages
    PROVE  Outcome(e, m) = "gone" <=>
               KeyOf[m] \in e.keys /\ (m \in e.used \/ Time[m] < Time[KeyOf[m]])
<1>1. Content[m] # "gone"
  BY MessageAssumption
<1>q. QED BY <1>1 DEF Outcome

LEMMA ClearedStays ==
    ASSUME NEW e, NEW f, e.keys \subseteq f.keys, e.used \subseteq f.used,
           NEW s, Cleared(e, s)
    PROVE  Cleared(f, s)
<1>1. PICK n \in Hidden : Sender(n) = s /\ Outcome(e, n) = "gone"
  BY DEF Cleared
<1>2. n \in Messages
  BY MessageAssumption
<1>3. Outcome(f, n) = "gone"
  BY <1>1, <1>2, GoneMeans
<1>q. QED BY <1>1, <1>3 DEF Cleared

LEMMA AskedForStays ==
    ASSUME NEW e, NEW f, f.keys = e.keys, f.rev = e.rev, e.used \subseteq f.used,
           e.repairs \subseteq f.repairs, NEW W, NEW V \in SUBSET W, AskedFor(e, W)
    PROVE  AskedFor(f, V)
<1> SUFFICES ASSUME NEW m \in V, Mapped(f, m), Member(f)
             PROVE  \/ \E r \in f.repairs : r.sender = Sender(m) /\ r.at = Position(m)
                    \/ Cleared(f, Sender(m))
  BY DEF AskedFor
<1>1. Mapped(e, m) /\ Member(e)
  BY DEF Mapped, KeysOf, Member
<1>2. \/ \E r \in e.repairs : r.sender = Sender(m) /\ r.at = Position(m)
      \/ Cleared(e, Sender(m))
  BY <1>1 DEF AskedFor
<1>q. QED BY <1>2, ClearedStays

\* Taking a message clears the request for it alone, unless its header is hidden.
LEMMA HandledKeepsAsked ==
    ASSUME NEW e \in Engines, NEW m \in Messages,
           Outcome(e, m) \in {"text", "ignored", "gone"},
           NEW W \in SUBSET Messages, m \notin W, AskedFor(e, W)
    PROVE  AskedFor(Handled(e, m), W)
<1> DEFINE f == Handled(e, m)
<1>1. /\ f.keys = e.keys /\ f.rev = e.rev
      /\ f.used = IF Outcome(e, m) = "gone" THEN e.used ELSE e.used \cup {m}
      /\ f.repairs = {r \in e.repairs : \/ r.sender # Sender(m)
                                        \/ (Position(m) # Anywhere /\ r.at # Position(m))}
  BY HandledTypes
<1> HIDE DEF f
<1> SUFFICES ASSUME NEW n \in W, Mapped(f, n), Member(f)
             PROVE  \/ \E r \in f.repairs : r.sender = Sender(n) /\ r.at = Position(n)
                    \/ Cleared(f, Sender(n))
  BY DEF AskedFor, f
<1>2. Mapped(e, n) /\ Member(e)
  BY <1>1 DEF Mapped, KeysOf, Member
<1>3. CASE Cleared(e, Sender(n))
  BY <1>1, <1>3, ClearedStays
<1>4. ASSUME NEW r \in e.repairs, r.sender = Sender(n), r.at = Position(n)
      PROVE  \/ r \in f.repairs
             \/ Cleared(f, Sender(n))
  <2>1. CASE Sender(n) # Sender(m)
    BY <1>1, <1>4, <2>1
  <2>2. CASE Sender(n) = Sender(m) /\ m \in Hidden
    <3>1. KeyOf[m] \in e.keys
      BY MessageAssumption DEF Outcome
    <3>2. Outcome(f, m) = "gone"
      BY <1>1, <3>1, GoneMeans
    <3>q. QED BY <2>2, <3>2 DEF Cleared
  <2>3. CASE Sender(n) = Sender(m) /\ m \notin Hidden
    <3>1. Position(m) = m /\ m # Anywhere /\ Position(n) \in {n, Anywhere} /\ n # m
      BY <2>3, MessageAssumption DEF Position
    <3>q. QED BY <1>1, <1>4, <3>1
  <2>q. QED BY <2>1, <2>2, <2>3
<1>q. QED BY <1>2, <1>3, <1>4 DEF AskedFor

\* A request goes with what is acknowledged only where its sender has nothing left
\* in the queue.
LEMMA AcknowledgedKeepsAsked ==
    ASSUME NEW e \in Engines, NEW M \in SUBSET Messages, AskedFor(e, e.waiting)
    PROVE  AskedFor(Acknowledged(e, M), Acknowledged(e, M).waiting)
<1> DEFINE f == Acknowledged(e, M)
<1>1. /\ f.keys = e.keys /\ f.rev = e.rev /\ f.used = e.used
      /\ f.waiting \subseteq e.waiting
      /\ \A r \in e.repairs \ f.repairs, n \in f.waiting : Sender(n) # r.sender
  BY AcknowledgedTypes
<1> HIDE DEF f
<1> SUFFICES ASSUME NEW n \in f.waiting, Mapped(f, n), Member(f)
             PROVE  \/ \E r \in f.repairs : r.sender = Sender(n) /\ r.at = Position(n)
                    \/ Cleared(f, Sender(n))
  BY DEF AskedFor, f
<1>2. Mapped(e, n) /\ Member(e)
  BY <1>1 DEF Mapped, KeysOf, Member
<1>3. CASE Cleared(e, Sender(n))
  BY <1>1, <1>3, ClearedStays
<1>4. CASE \E r \in e.repairs : r.sender = Sender(n) /\ r.at = Position(n)
  BY <1>1, <1>4
<1>q. QED BY <1>1, <1>2, <1>3, <1>4 DEF AskedFor

LEMMA QueuedKeepsAsked ==
    ASSUME NEW e \in Engines, NEW m \in Messages, AskedFor(e, e.waiting \cup {m})
    PROVE  AskedFor(Queued(e, m), Queued(e, m).waiting)
<1> DEFINE f == Queued(e, m)
<1>1. /\ f.keys = e.keys /\ f.rev = e.rev /\ f.used = e.used
      /\ f.waiting \subseteq e.waiting \cup {m}
      /\ \/ f.repairs = e.repairs
         \/ Mapped(e, m) /\ ~Member(e)
         \/ \A n \in f.waiting : Sender(n) # Sender(m)
            /\ f.waiting = e.waiting
            /\ \A r \in e.repairs \ f.repairs : r.sender = Sender(m)
  BY QueuedTypes
<1> HIDE DEF f
<1> SUFFICES ASSUME NEW n \in f.waiting, Mapped(f, n), Member(f)
             PROVE  \/ \E r \in f.repairs : r.sender = Sender(n) /\ r.at = Position(n)
                    \/ Cleared(f, Sender(n))
  BY DEF AskedFor, f
<1>2. Mapped(e, n) /\ Member(e)
  BY <1>1 DEF Mapped, KeysOf, Member
<1>3. CASE Cleared(e, Sender(n))
  BY <1>1, <1>3, ClearedStays
<1>4. CASE \E r \in e.repairs : r.sender = Sender(n) /\ r.at = Position(n)
  BY <1>1, <1>2, <1>4
<1>q. QED BY <1>1, <1>2, <1>3, <1>4 DEF AskedFor

\* What is kept of a queue that is being tried counts as waiting; it is not tried
\* again.  The stored engine is in order as well: it comes back with a new process.
AskInv ==
    /\ TypeOK
    /\ phase = "retry" => engine.waiting = {}
    /\ work.todo \cap work.keep = {}
    /\ AskedFor(engine, engine.waiting \cup work.keep)
    /\ AskedFor(disk, disk.waiting)

LEMMA WritesKeepsAsked ==
    ASSUME AskInv, NEW e, NEW w, Writes(e, w), AskedFor(e, e.waiting)
    PROVE  AskedFor(disk', disk'.waiting)
BY DEF AskInv, Writes

LEMMA AskInit == ASSUME Init PROVE AskInv
<1>1. engine.waiting = {} /\ disk.waiting = {} /\ work.todo = {} /\ work.keep = {}
  BY NoWorkTypes DEF Init
<1>q. QED BY <1>1, InitTypes DEF AskInv, AskedFor

LEMMA StepAsks ==
    ASSUME AskInv, [Next]_vars
    PROVE  AskInv'
<1> DEFINE Mem == AskedFor(engine', engine'.waiting \cup work'.keep)
           Sto == AskedFor(disk', disk'.waiting)
           Apart == /\ phase' = "retry" => engine'.waiting = {}
                    /\ work'.todo \cap work'.keep = {}
<1>t. TypeOK /\ TypeOK'
  BY StepTypes DEF AskInv
<1>e. engine \in Engines /\ disk \in Engines
  BY <1>t, TypesOfEngines
<1>a. Mem /\ Sto /\ Apart => AskInv'
  BY <1>t DEF AskInv
<1>n. phase # "retry" => work = NoWork /\ work.todo = {} /\ work.keep = {}
  BY <1>t, NoWorkTypes DEF TypeOK
<1>m. AskedFor(engine, engine.waiting) /\ AskedFor(engine, work.keep)
  BY DEF AskInv, AskedFor
<1>s. AskedFor(disk, disk.waiting)
  BY DEF AskInv
<1>w. engine.waiting \subseteq Messages /\ work.todo \subseteq Messages
      /\ work.keep \subseteq Messages /\ work.got \subseteq Messages
  BY <1>t DEF TypeOK, EngineType, WorkType
<1>o. ASSUME phase' = "open", work' = NoWork, Sto, AskedFor(engine', engine'.waiting)
      PROVE  AskInv'
  <2>1. work'.todo = {} /\ work'.keep = {}
    BY <1>o, NoWorkTypes
  <2>2. Mem
    BY <1>o, <2>1
  <2>3. Apart
    BY <1>o, <2>1
  <2>q. QED BY <1>a, <1>o, <2>2, <2>3
<1>r. ASSUME phase' = "retry", Sto, engine'.waiting = {}, work'.keep = {}
      PROVE  AskInv'
  <2>1. Mem
    BY <1>r DEF AskedFor
  <2>2. Apart
    BY <1>r
  <2>q. QED BY <1>a, <1>r, <2>1, <2>2
<1> HIDE DEF Mem, Sto, Apart
<1>1. ASSUME NEW m \in Messages, ReceiveUnmapped(m)
      PROVE  AskInv'
  <2>1. /\ ~Mapped(engine, m) /\ phase' = "open" /\ work' = work
        /\ engine' = [engine EXCEPT !.waiting = @ \cup {m}]
        /\ Writes(engine', m \notin engine.waiting)
    BY <1>1 DEF ReceiveUnmapped
  <2>2. /\ engine'.keys = engine.keys /\ engine'.rev = engine.rev
        /\ engine'.used = engine.used /\ engine'.repairs = engine.repairs
        /\ engine'.waiting = engine.waiting \cup {m}
    BY <1>e, <2>1 DEF Engines, EngineType
  <2>3. AskedFor(engine, engine'.waiting)
    BY <1>m, <2>1, <2>2 DEF AskedFor
  <2>4. AskedFor(engine', engine'.waiting)
    BY <2>2, <2>3, AskedForStays
  <2>5. Sto
    BY <2>1, <2>4, WritesKeepsAsked DEF Sto
  <2>6. work' = NoWork
    BY <1>1, <1>n DEF ReceiveUnmapped, InBatch
  <2>q. QED BY <1>o, <2>1, <2>4, <2>5, <2>6
<1>2. ASSUME NEW m \in Messages, ReceivePending(m)
      PROVE  AskInv'
  <2> DEFINE r == RepairFor(engine, m)
             e == Asked(engine, r)
  <2>1. r \in Repairs /\ r.sender = Sender(m) /\ r.at = Position(m)
    BY <1>2, <1>e, RepairForTypes DEF ReceivePending
  <2> HIDE DEF r
  <2>2. e \in Engines /\ SameQueue(engine, e) /\ (Member(engine) => e.repairs = engine.repairs \cup {r})
    BY <1>e, <2>1, AskedTypes
  <2> HIDE DEF e
  <2>3. /\ phase' = "open" /\ work' = work /\ engine' = Queued(e, m)
        /\ Writes(engine', engine' # e \/ (~Member(e) /\ e # engine))
    BY <1>2 DEF ReceivePending, e, r
  <2>4. AskedFor(e, e.waiting \cup {m})
    <3>1. CASE Member(engine)
      <4>1. AskedFor(e, e.waiting)
        BY <1>m, <2>2, <3>1, AskedForStays DEF SameQueue
      <4>q. QED BY <2>1, <2>2, <3>1, <4>1 DEF AskedFor
    <3>2. CASE ~Member(engine)
      BY <2>2, <3>2 DEF AskedFor, SameQueue, Member
    <3>q. QED BY <3>1, <3>2
  <2>5. AskedFor(engine', engine'.waiting)
    BY <2>2, <2>3, <2>4, QueuedKeepsAsked
  <2>6. Sto
    BY <2>3, <2>5, WritesKeepsAsked DEF Sto
  <2>7. work' = NoWork
    BY <1>2, <1>n DEF ReceivePending, InBatch
  <2>q. QED BY <1>o, <2>3, <2>5, <2>6, <2>7
<1>3. ASSUME NEW m \in Messages, ReceiveAskFails(m)
      PROVE  AskInv'
  <2> DEFINE r == RepairFor(engine, m)
  <2>1. r \in Repairs
    BY <1>3, <1>e, RepairForTypes DEF ReceiveAskFails
  <2>2. /\ phase' = "open" /\ work' = work /\ engine' = NotAsked(engine, r) /\ disk' = disk
    BY <1>3 DEF ReceiveAskFails
  <2> HIDE DEF r
  <2>3. AskedFor(engine', engine'.waiting)
    BY <1>e, <1>m, <2>1, <2>2, NotAskedTypes, AskedForStays DEF SameQueue
  <2>4. Sto
    BY <1>s, <2>2 DEF Sto
  <2>5. work' = NoWork
    BY <1>3, <1>n DEF ReceiveAskFails, InBatch
  <2>q. QED BY <1>o, <2>2, <2>3, <2>4, <2>5
<1>4. ASSUME NEW m \in Messages, ReceiveHandled(m)
      PROVE  AskInv'
  <2> DEFINE h == Handled(engine, m)
             e == [h EXCEPT !.waiting = @ \ {m}]
             got == IF Outcome(engine, m) = "text" THEN {m} ELSE {}
  <2>1. h \in Engines /\ h.waiting = engine.waiting
    BY <1>e, HandledTypes
  <2>2. AskedFor(h, engine.waiting \ {m})
    <3>1. AskedFor(engine, engine.waiting \ {m})
      BY <1>m DEF AskedFor
    <3>q. QED BY <1>4, <1>e, <1>w, <3>1, HandledKeepsAsked DEF ReceiveHandled
  <2>3. /\ Begin(e, m, got, FALSE)
        /\ Writes(e, Outcome(engine, m) # "ignored" \/ m \in engine.waiting)
    BY <1>4 DEF ReceiveHandled
  <2> HIDE DEF h
  <2>4. /\ e \in Engines /\ e.waiting = engine.waiting \ {m}
        /\ e.keys = h.keys /\ e.rev = h.rev /\ e.used = h.used /\ e.repairs = h.repairs
    BY <2>1 DEF Engines, EngineType
  <2>5. got \in SUBSET Messages
    OBVIOUS
  <2> HIDE DEF e, got
  <2>6. AskedFor(e, e.waiting)
    BY <2>2, <2>4, AskedForStays
  <2>7. Sto
    BY <2>3, <2>6, WritesKeepsAsked DEF Sto
  <2>8. phase' = "retry" /\ engine'.waiting = {} /\ work'.keep = {}
    BY <2>3, <2>4, <2>5, BeginTypes
  <2>q. QED BY <1>r, <2>7, <2>8
<1>5. ASSUME NEW m \in Messages, Copy(m)
      PROVE  AskInv'
  <2>1. /\ phase' = "open" /\ work' = work /\ engine' = Acknowledged(engine, {m})
        /\ Writes(engine', TRUE)
    BY <1>5 DEF Copy
  <2>2. AskedFor(engine', engine'.waiting)
    BY <1>e, <1>m, <2>1, AcknowledgedKeepsAsked
  <2>3. Sto
    BY <2>1, <2>2, WritesKeepsAsked DEF Sto
  <2>4. work' = NoWork
    BY <1>5, <1>n DEF Copy, InBatch
  <2>q. QED BY <1>o, <2>1, <2>2, <2>3, <2>4
<1>6. ASSUME NEW m \in Messages, Try(m)
      PROVE  AskInv'
  <2>1. /\ phase = "retry" /\ phase' = phase /\ m \in work.todo /\ m \notin work.keep
        /\ engine.waiting = {}
    BY <1>6 DEF Try, TryDropped, TryUnmapped, TryPending, TryHandled, Tried, AskInv
  <2>2. CASE TryDropped(m)
    <3>1. /\ work'.todo \subseteq work.todo /\ work'.keep = work.keep
          /\ engine' = engine /\ disk' = disk
      BY <1>t, <2>2 DEF TryDropped, TypeOK, WorkType
    <3>2. Mem /\ Sto /\ Apart
      BY <3>1, <2>1 DEF AskInv, Mem, Sto, Apart
    <3>q. QED BY <1>a, <3>2
  <2>3. CASE TryUnmapped(m)
    <3>1. /\ work'.todo = work.todo \ {m} /\ work'.keep = work.keep \cup {m}
          /\ engine' = engine /\ disk' = disk /\ ~Mapped(engine, m)
      BY <1>t, <2>3 DEF TryUnmapped, TypeOK, WorkType
    <3>2. AskedFor(engine, work.keep \cup {m})
      BY <1>m, <3>1 DEF AskedFor
    <3>3. Mem /\ Sto
      BY <1>s, <2>1, <3>1, <3>2 DEF Mem, Sto
    <3>4. Apart
      BY <2>1, <3>1 DEF AskInv, Apart
    <3>q. QED BY <1>a, <3>3, <3>4
  <2>4. CASE TryPending(m)
    <3> DEFINE r == RepairFor(engine, m)
    <3>1. r \in Repairs /\ r.sender = Sender(m) /\ r.at = Position(m)
      BY <2>4, <1>e, RepairForTypes DEF TryPending
    <3>2. engine' = Asked(engine, r) /\ disk' = disk /\ Member(engine)
      BY <2>4 DEF TryPending, Tried
    <3>3. /\ work'.todo = work.todo \ {m} /\ work'.keep = work.keep \cup {m}
      BY <1>t, <2>4 DEF TryPending, TypeOK, WorkType
    <3> HIDE DEF r
    <3>4. SameQueue(engine, engine') /\ engine'.repairs = engine.repairs \cup {r}
      BY <1>e, <3>1, <3>2, AskedTypes
    <3>5. AskedFor(engine', work.keep)
      BY <1>m, <3>4, AskedForStays DEF SameQueue
    <3>6. AskedFor(engine', work.keep \cup {m})
      BY <3>1, <3>4, <3>5 DEF AskedFor
    <3>7. engine'.waiting = {}
      BY <2>1, <3>4 DEF SameQueue
    <3>8. Mem /\ Sto
      BY <1>s, <3>2, <3>3, <3>6, <3>7 DEF Mem, Sto
    <3>9. Apart
      BY <2>1, <3>3, <3>7 DEF AskInv, Apart
    <3>q. QED BY <1>a, <3>8, <3>9
  <2>5. CASE TryHandled(m)
    <3>1. /\ engine' = Handled(engine, m) /\ Outcome(engine, m) \in {"text", "ignored", "gone"}
          /\ Writes(engine', Outcome(engine, m) # "ignored")
      BY <2>5 DEF TryHandled
    <3>2. work'.todo = work.todo \ {m} /\ work'.keep = work.keep
      BY <1>t, <2>5 DEF TryHandled, TypeOK, WorkType
    <3>3. engine'.waiting = {}
      BY <1>e, <2>1, <3>1, HandledTypes
    <3>4. AskedFor(engine', work.keep)
      BY <1>e, <1>m, <1>w, <2>1, <3>1, HandledKeepsAsked
    <3>5. AskedFor(engine', engine'.waiting)
      BY <3>3 DEF AskedFor
    <3>6. Sto
      BY <3>1, <3>5, WritesKeepsAsked DEF Sto
    <3>7. Mem
      BY <3>2, <3>3, <3>4 DEF Mem
    <3>8. Apart
      BY <3>2, <3>3 DEF AskInv, Apart
    <3>q. QED BY <1>a, <3>6, <3>7, <3>8
  <2>q. QED BY <1>6, <2>2, <2>3, <2>4, <2>5 DEF Try
<1>7. ASSUME NEW e, AskedFor(e, e.waiting), Breaks(e)
      PROVE  AskInv'
  <2>1. Sto
    BY <1>s, <1>7 DEF Breaks, Sto
  <2>q. QED BY <1>7, <1>o, <2>1 DEF Breaks
<1>8. ASSUME NEW m \in Messages, TryBreaks(m)
      PROVE  AskInv'
  <2>1. phase = "retry" /\ engine.waiting = {}
    BY <1>8 DEF TryBreaks, Tried, AskInv
  <2>2. CASE Breaks(engine)
    BY <1>m, <1>7, <2>2
  <2>3. CASE Pending(engine, m) /\ Breaks(NotAsked(engine, RepairFor(engine, m)))
    <3>1. NotAsked(engine, RepairFor(engine, m)).waiting = {}
      BY <1>e, <2>1, <2>3, RepairForTypes, NotAskedTypes DEF SameQueue
    <3>2. AskedFor(NotAsked(engine, RepairFor(engine, m)),
                   NotAsked(engine, RepairFor(engine, m)).waiting)
      BY <3>1 DEF AskedFor
    <3>q. QED BY <1>7, <2>3, <3>2
  <2>q. QED BY <1>8, <2>2, <2>3 DEF TryBreaks
<1>p. /\ PutBack \in Engines /\ AskedFor(PutBack, PutBack.waiting)
  <2>1. AskedFor(PutBack, work.keep)
    BY <1>t, <1>m, PutBackTypes, AskedForStays
  <2>q. QED BY <1>t, <2>1, PutBackTypes
<1>9. ASSUME NEW D \in SUBSET Due(engine), RetryEndBreaks(D)
      PROVE  AskInv'
  <2> DEFINE p == PutBack
             e == [p EXCEPT !.asked = @ \cup D]
  <2>1. p \in Engines /\ AskedFor(p, p.waiting)
    BY <1>p
  <2>2. Breaks(e)
    BY <1>9 DEF RetryEndBreaks
  <2> HIDE DEF p
  <2>3. /\ e.keys = p.keys /\ e.rev = p.rev /\ e.used = p.used /\ e.repairs = p.repairs
        /\ e.waiting = p.waiting
    BY <2>1 DEF Engines, EngineType
  <2> HIDE DEF e
  <2>4. AskedFor(e, e.waiting)
    BY <2>1, <2>3, AskedForStays
  <2>q. QED BY <1>7, <2>2, <2>4
<1>10. ASSUME RetryEnds
       PROVE  AskInv'
  <2> DEFINE e == AskedAgain(PutBack)
             asks == work.asks \cup IF Member(e) THEN Due(PutBack) ELSE {}
  <2>1. e \in Engines /\ SameQueue(PutBack, e) /\ (Member(PutBack) => e.repairs = PutBack.repairs)
    BY <1>p, AskedAgainTypes
  <2>2. /\ phase' = "open" /\ work' = NoWork
        /\ engine' = Acknowledged(e, work.got)
        /\ Writes(engine', work.wrote \/ asks # {} \/ engine' # PutBack)
    BY <1>10 DEF RetryEnds
  <2> HIDE DEF e, asks
  <2>3. AskedFor(e, e.waiting)
    <3>1. CASE Member(PutBack)
      BY <1>p, <2>1, <3>1, AskedForStays DEF SameQueue
    <3>2. CASE ~Member(PutBack)
      BY <2>1, <3>2 DEF AskedFor, SameQueue, Member
    <3>q. QED BY <3>1, <3>2
  <2>4. AskedFor(engine', engine'.waiting)
    BY <1>w, <2>1, <2>2, <2>3, AcknowledgedKeepsAsked
  <2>5. Sto
    BY <2>2, <2>4, WritesKeepsAsked DEF Sto
  <2>q. QED BY <1>o, <2>2, <2>4, <2>5
<1>11. ASSUME NEW k \in Keys, Distribution(k)
       PROVE  AskInv'
  <2>1. CASE engine.rev = 0
    <3>1. /\ engine' = [engine EXCEPT !.inputs = @ \cup {k}]
          /\ phase' = "open" /\ Writes(engine', TRUE) /\ work' = work
      BY <1>11, <2>1 DEF Distribution
    <3>2. /\ engine'.keys = engine.keys /\ engine'.rev = engine.rev
          /\ engine'.used = engine.used /\ engine'.repairs = engine.repairs
          /\ engine'.waiting = engine.waiting
      BY <1>e, <3>1 DEF Engines, EngineType
    <3>3. AskedFor(engine', engine'.waiting)
      BY <1>m, <3>2, AskedForStays
    <3>4. Sto
      BY <3>1, <3>3, WritesKeepsAsked DEF Sto
    <3>5. work' = NoWork
      BY <1>11, <1>n, <3>1 DEF Distribution, InBatch
    <3>q. QED BY <1>o, <3>1, <3>3, <3>4, <3>5
  <2>2. CASE engine.rev # 0
    <3> DEFINE e == [engine EXCEPT !.keys = @ \cup {k}]
    <3>1. e \in Engines
      BY <1>e DEF Engines, EngineType
    <3>2. Begin(e, NoMessage, {}, TRUE) /\ Writes(engine, TRUE)
      BY <1>11, <2>2 DEF Distribution
    <3> HIDE DEF e
    <3>3. Sto
      BY <1>m, <3>2, WritesKeepsAsked DEF Sto
    <3>4. phase' = "retry" /\ engine'.waiting = {} /\ work'.keep = {}
      BY <3>1, <3>2, BeginTypes
    <3>q. QED BY <1>r, <3>3, <3>4
  <2>q. QED BY <2>1, <2>2
<1>12. ASSUME NEW r \in 1 .. Revisions, Metadata(r)
       PROVE  AskInv'
  <2> DEFINE e == [engine EXCEPT !.rev = r, !.keys = @ \cup engine.inputs, !.inputs = {}]
  <2>a. r \in 0 .. Revisions /\ engine.keys \cup engine.inputs \subseteq Keys
    BY <1>e, MessageAssumption DEF Engines, EngineType
  <2>1. e \in Engines
    BY <1>e, <2>a DEF Engines, EngineType
  <2>2. Begin(e, NoMessage, {}, TRUE) /\ Writes(engine, TRUE)
    BY <1>12 DEF Metadata
  <2> HIDE DEF e
  <2>3. Sto
    BY <1>m, <2>2, WritesKeepsAsked DEF Sto
  <2>4. phase' = "retry" /\ engine'.waiting = {} /\ work'.keep = {}
    BY <2>1, <2>2, BeginTypes
  <2>q. QED BY <1>r, <2>3, <2>4
<1>13. ASSUME Retry
       PROVE  AskInv'
  <2>1. Begin(engine, NoMessage, {}, FALSE) /\ disk' = disk
    BY <1>13 DEF Retry
  <2>2. phase' = "retry" /\ engine'.waiting = {} /\ work'.keep = {}
    BY <1>e, <2>1, BeginTypes
  <2>3. Sto
    BY <1>s, <2>1 DEF Sto
  <2>q. QED BY <1>r, <2>2, <2>3
<1>14. ASSUME FlushEngine
       PROVE  AskInv'
  <2>1. Sto
    BY <1>m, <1>s, <1>14 DEF FlushEngine, Sto
  <2>2. Mem /\ Apart
    BY <1>14 DEF FlushEngine, AskInv, Mem, Apart
  <2>q. QED BY <1>a, <2>1, <2>2
<1>15. ASSUME Crash
       PROVE  AskInv'
  <2>1. phase' = "down" /\ engine' = disk /\ disk' = disk /\ work' = NoWork
    BY <1>15 DEF Crash
  <2>2. work'.todo = {} /\ work'.keep = {}
    BY <2>1, NoWorkTypes
  <2>q. QED BY <1>a, <1>s, <2>1, <2>2 DEF Mem, Sto, Apart
<1>16. ASSUME Restart
       PROVE  AskInv'
  <2> DEFINE e == Pruned(disk)
  <2>1. /\ e \in Engines /\ e.rev = disk.rev /\ (Member(disk) => e = disk)
    BY <1>e, PrunedTypes
  <2>2. /\ phase = "down" /\ disk' = e
        /\ IF HasDue(e) THEN Begin(e, NoMessage, {}, FALSE)
           ELSE phase' = "open" /\ engine' = e /\ UNCHANGED work
    BY <1>16 DEF Restart
  <2> HIDE DEF e
  <2>3. AskedFor(e, e.waiting)
    <3>1. CASE Member(disk)
      BY <1>s, <2>1, <3>1
    <3>2. CASE ~Member(disk)
      BY <2>1, <3>2 DEF AskedFor, Member
    <3>q. QED BY <3>1, <3>2
  <2>4. Sto
    BY <2>2, <2>3 DEF Sto
  <2>5. CASE HasDue(e)
    <3>1. phase' = "retry" /\ engine'.waiting = {} /\ work'.keep = {}
      BY <2>1, <2>2, <2>5, BeginTypes
    <3>q. QED BY <1>r, <2>4, <3>1
  <2>6. CASE ~HasDue(e)
    BY <1>n, <1>o, <2>2, <2>3, <2>4, <2>6
  <2>q. QED BY <2>5, <2>6
<1>17. ASSUME NEW R \in SUBSET engine.asked, RequestsAge(R)
       PROVE  AskInv'
  <2>1. /\ phase' = phase /\ work' = work /\ disk' = disk
        /\ engine' = [engine EXCEPT !.asked = @ \ R]
    BY <1>17 DEF RequestsAge
  <2>2. /\ engine'.keys = engine.keys /\ engine'.rev = engine.rev
        /\ engine'.used = engine.used /\ engine'.repairs = engine.repairs
        /\ engine'.waiting = engine.waiting
    BY <1>e, <2>1 DEF Engines, EngineType
  <2>3. AskedFor(engine, engine.waiting \cup work.keep)
    BY DEF AskInv
  <2>4. AskedFor(engine', engine.waiting \cup work.keep)
    BY <2>2, <2>3, AskedForStays
  <2>5. Mem /\ Sto
    BY <1>s, <2>1, <2>2, <2>4 DEF Mem, Sto
  <2>6. Apart
    BY <2>1, <2>2 DEF AskInv, Apart
  <2>q. QED BY <1>a, <2>5, <2>6
<1>18. ASSUME \/ SaveApp
              \/ \E r \in Repairs : ThrottleEnds(r)
              \/ \E r \in Repairs, arrives \in BOOLEAN : Answer(r, arrives)
              \/ UNCHANGED vars
       PROVE  AskInv'
  <2>1. /\ UNCHANGED <<engine, disk, work>> /\ (phase' = "retry" => phase = "retry")
    BY <1>18 DEF SaveApp, ThrottleEnds, Answer, vars
  <2>q. QED BY <1>a, <2>1 DEF AskInv, Mem, Sto, Apart
<1>q. QED
  BY <1>1, <1>2, <1>3, <1>4, <1>5, <1>6, <1>8, <1>9, <1>10, <1>11, <1>12, <1>13, <1>14,
     <1>15, <1>16, <1>17, <1>18 DEF Next, Receive, Deliver, RetryStep

LEMMA AskInvMeans == AskInv => WaitingIsAsked
BY DEF AskInv, AskedFor, WaitingIsAsked

\* A message that waits and whose sender is known waits with a request for what it
\* lacks, whatever fails or ends in between, unless the engine is done with another
\* message of the sender whose header is hidden.
THEOREM WaitingHasRequest == Spec => []WaitingIsAsked
<1>1. Init => AskInv
  BY AskInit
<1>2. AskInv /\ [Next]_vars => AskInv'
  BY StepAsks
<1>3. AskInv => WaitingIsAsked
  BY AskInvMeans
<1>q. QED BY <1>1, <1>2, <1>3, PTL DEF Spec

-----------------------------------------------------------------------------
(* No text is lost.                                                        *)

NonText(m) == Content[m] # "text"

\* With the rows R, nothing of m is lost if e is all there is of the engine.
Covers(e, R, m) == m \in R \cup e.waiting \/ NonText(m) \/ GivenUp(e, m)

LEMMA CoversGrows ==
    ASSUME NEW e, NEW f, NEW R, NEW S, R \subseteq S,
           e.keys \subseteq f.keys, e.acks \subseteq f.acks, Member(f) => Member(e),
           NEW m, Covers(e, R, m),
           m \in e.waiting => m \in f.waiting \cup S \/ NonText(m) \/ GivenUp(f, m)
    PROVE  Covers(f, S, m)
<1>1. GivenUp(e, m) => GivenUp(f, m)
  BY DEF GivenUp, KeysOf
<1>q. QED BY <1>1 DEF Covers

\* What was found, or counts as lost; what has been or is about to be remembered
\* as seen; and the queue in the hands of a retry.
Rows    == shown \cup lost
Taken   == seen \cup ({work.from} \ {NoMessage})
InQueue == work.todo \cup work.keep

\* The running retry has written the engine without its queue, and the stored
\* engine gives up what the one in memory does.
WrittenWithout ==
    /\ direct /\ work.wrote
    /\ (Member(disk) => Member(engine)) /\ engine.keys \subseteq disk.keys

Ordered ==
    /\ stored \subseteq seen
    /\ direct => ~dirty
    /\ dirty => phase \in {"open", "retry"}
    /\ phase = "down" => ~direct
    /\ phase = "retry" => engine.waiting = {}

\* The memory has what is seen.
MemoryKeeps ==
    \A m \in Taken : Covers(engine, Rows, m) \/ m \in InQueue \cup work.got

\* So has the stored engine, unless it is about to be written, or holds the batch
\* up until the retry is over.
StoreKeeps ==
    \A m \in Taken \cup engine.waiting \cup InQueue :
        \/ dirty \/ Covers(disk, Rows, m)
        \/ direct /\ m \in work.got
        \/ WrittenWithout /\ m \in InQueue

\* What the app has saved as seen never depends on a write to come.
SavedIsKept == ~direct => \A m \in stored : Covers(disk, Rows, m)

\* What the engine has given up, the stored engine has.
GivenUpAlike ==
    ~dirty => /\ engine.acks \subseteq disk.acks
              /\ \/ Member(disk) => Member(engine)
                 \/ phase = "retry" /\ work.wrote

\* A key opens a message once: what has been opened is a row, or soon will be.
OpenedIsRow ==
    /\ \A m \in engine.used : m \in Rows \cup work.got \/ NonText(m)
    /\ \A m \in disk.used : m \in Rows \/ NonText(m) \/ (direct /\ m \in work.got)

TextInv ==
    /\ TypeOK
    /\ Ordered /\ MemoryKeeps /\ StoreKeeps /\ SavedIsKept /\ GivenUpAlike /\ OpenedIsRow

LEMMA TextInit == ASSUME Init PROVE TextInv
<1>1. /\ phase = "idle" /\ dirty = FALSE /\ direct = FALSE /\ work = NoWork
      /\ seen = {} /\ stored = {} /\ disk = engine
      /\ engine.waiting = {} /\ engine.used = {}
  BY DEF Init
<1>2. Taken = {} /\ InQueue = {}
  BY <1>1, NoWorkTypes DEF Taken, InQueue
<1>q. QED BY <1>1, <1>2, InitTypes DEF TextInv, Ordered, MemoryKeeps, StoreKeeps, SavedIsKept,
                                       GivenUpAlike, OpenedIsRow

\* What is known outside a retry.
LEMMA AtRest ==
    ASSUME TextInv, phase # "retry"
    PROVE  /\ work = NoWork /\ Taken = seen /\ InQueue = {} /\ work.got = {}
           /\ \A m \in seen : Covers(engine, Rows, m)
           /\ \A m \in seen \cup engine.waiting : dirty \/ Covers(disk, Rows, m)
           /\ ~dirty => (engine.acks \subseteq disk.acks) /\ (Member(disk) => Member(engine))
           /\ \A m \in engine.used : m \in Rows \/ NonText(m)
           /\ \A m \in disk.used : m \in Rows \/ NonText(m)
<1>1. work = NoWork
  BY DEF TextInv, TypeOK
<1>2. Taken = seen /\ InQueue = {} /\ work.got = {}
  BY <1>1, NoWorkTypes DEF Taken, InQueue
<1>q. QED BY <1>1, <1>2 DEF TextInv, MemoryKeeps, StoreKeeps, GivenUpAlike, OpenedIsRow

\* Taking a message: it is a row, there is no text in it, or it is older than a key
\* of its sender.
LEMMA TakenMeans ==
    ASSUME NEW e \in Engines, NEW m \in Messages,
           Outcome(e, m) \in {"text", "ignored", "gone"}
    PROVE  \/ Outcome(e, m) = "text" \/ NonText(m) \/ m \in e.used
           \/ \E k \in KeysOf(e, m) : Time[m] < Time[k]
<1>1. CASE Outcome(e, m) = "gone"
  <2>1. KeyOf[m] \in e.keys /\ (m \in e.used \/ Time[m] < Time[KeyOf[m]])
    BY <1>1, GoneMeans
  <2>2. KeyOf[m] \in KeysOf(e, m)
    BY <2>1 DEF KeysOf, Sender
  <2>q. QED BY <2>1, <2>2
<1>2. CASE Outcome(e, m) = "ignored"
  <2>1. Content[m] = "ignored"
    BY <1>2 DEF Outcome
  <2>q. QED BY <2>1 DEF NonText
<1>q. QED BY <1>1, <1>2

\* A step that leaves the actor in a batch, with nothing in hand.
LEMMA OpenStep ==
    ASSUME TextInv, TypeOK', phase' = "open", work' = NoWork, phase # "down",
           UNCHANGED <<direct, stored>>, seen \subseteq seen', Rows \subseteq Rows',
           NEW w \in BOOLEAN, Writes(engine', w),
           \A m \in seen' : Covers(engine', Rows', m),
           ~w => \A m \in seen' \cup engine'.waiting : dirty \/ Covers(disk, Rows', m),
           ~w /\ ~dirty => /\ engine'.acks \subseteq disk.acks
                           /\ Member(disk) => Member(engine'),
           \A m \in engine'.used : m \in Rows' \/ NonText(m),
           ~w => \A m \in disk.used : m \in Rows' \/ NonText(m)
    PROVE  TextInv'
<1>1. Taken' = seen' /\ InQueue' = {} /\ (work.got)' = {}
  BY NoWorkTypes DEF Taken, InQueue
<1>2. Ordered'
  BY DEF TextInv, Ordered, Writes
<1>3. MemoryKeeps'
  BY <1>1 DEF MemoryKeeps
<1>4. /\ w /\ direct => disk' = engine'
      /\ ~(w /\ direct) => disk' = disk
      /\ ~w => dirty' = dirty
      /\ w /\ ~direct => dirty'
  BY DEF Writes, TextInv, TypeOK
<1>5. StoreKeeps'
  <2> SUFFICES ASSUME NEW m \in seen' \cup engine'.waiting
               PROVE  dirty' \/ Covers(disk', Rows', m)
    BY <1>1 DEF StoreKeeps
  <2>1. CASE w /\ direct
    <3>1. CASE m \in seen'
      BY <1>4, <2>1, <3>1
    <3>2. CASE m \in engine'.waiting
      BY <1>4, <2>1, <3>2 DEF Covers
    <3>q. QED BY <3>1, <3>2
  <2>2. CASE w /\ ~direct
    BY <1>4, <2>2
  <2>3. CASE ~w
    BY <1>4, <2>3
  <2>q. QED BY <2>1, <2>2, <2>3
<1>6. SavedIsKept'
  <2> SUFFICES ASSUME ~direct, NEW m \in stored
               PROVE  Covers(disk', Rows', m)
    BY DEF SavedIsKept
  <2>1. Covers(disk, Rows, m)
    BY DEF TextInv, SavedIsKept
  <2>2. disk' = disk
    BY <1>4
  <2>3. Covers(disk, Rows', m)
    BY <2>1 DEF Covers
  <2>q. QED BY <2>2, <2>3
<1>7. GivenUpAlike'
  BY <1>4 DEF GivenUpAlike
<1>8. OpenedIsRow'
  <2>1. CASE w /\ direct
    BY <1>4, <2>1 DEF OpenedIsRow
  <2>2. CASE w /\ ~direct
    <3>1. \A m \in disk.used : m \in Rows \/ NonText(m)
      BY <2>2 DEF TextInv, OpenedIsRow
    <3>q. QED BY <1>4, <2>2, <3>1 DEF OpenedIsRow
  <2>3. CASE ~w
    BY <1>4, <2>3 DEF OpenedIsRow
  <2>q. QED BY <2>1, <2>2, <2>3
<1>q. QED BY <1>2, <1>3, <1>5, <1>6, <1>7, <1>8 DEF TextInv

\* A step that takes the queue of e out, with d written before.
LEMMA BeginStep ==
    ASSUME TextInv, TypeOK', phase \in {"idle", "open"},
           NEW e \in Engines, NEW d \in Engines, NEW from \in Messages \cup {NoMessage},
           NEW got \in SUBSET Messages, NEW wrote \in BOOLEAN, NEW w \in BOOLEAN,
           Begin(e, from, got, wrote), Writes(d, w),
           UNCHANGED <<direct, shown, seen, stored, lost>>,
           \A m \in Taken' : Covers(e, Rows, m) \/ m \in got,
           w => \A m \in Taken' \cup e.waiting : Covers(d, Rows, m) \/ m \in got,
           ~w => \A m \in Taken' \cup e.waiting : dirty \/ Covers(disk, Rows, m),
           w => e.acks \subseteq d.acks /\ ((Member(d) => Member(e)) \/ wrote),
           ~w => e.acks = engine.acks /\ e.rev = engine.rev,
           \A m \in e.used : m \in Rows \cup got \/ NonText(m),
           w => \A m \in d.used : m \in Rows \cup got \/ NonText(m)
    PROVE  TextInv'
<1>a. /\ phase' = "retry" /\ engine' = [e EXCEPT !.waiting = {}]
      /\ work' = [todo |-> e.waiting, keep |-> {}, got |-> got, asks |-> {},
                  wrote |-> wrote, from |-> from]
  BY DEF Begin, NoWork
<1>b. /\ work'.todo = e.waiting /\ work'.keep = {} /\ work'.got = got
      /\ work'.wrote = wrote /\ work'.from = from
  BY <1>a
<1>c. /\ engine'.keys = e.keys /\ engine'.rev = e.rev
      /\ engine'.waiting = {} /\ engine'.acks = e.acks /\ engine'.used = e.used
  BY <1>a DEF Engines, EngineType
<1>1. /\ phase' = "retry"
      /\ engine'.keys = e.keys /\ engine'.rev = e.rev
      /\ engine'.waiting = {} /\ engine'.acks = e.acks /\ engine'.used = e.used
      /\ work'.todo = e.waiting /\ work'.keep = {} /\ work'.got = got
      /\ work'.wrote = wrote /\ work'.from = from
  BY <1>a, <1>b, <1>c
<1>2. InQueue' = e.waiting /\ Rows' = Rows
  BY <1>1 DEF InQueue, Rows
<1>3. Ordered'
  BY <1>1 DEF TextInv, Ordered, Writes
<1>4. /\ w /\ direct => disk' = d
      /\ ~(w /\ direct) => disk' = disk
      /\ ~w => dirty' = dirty
      /\ w /\ ~direct => dirty'
  BY DEF Writes, TextInv, TypeOK
<1>5. MemoryKeeps'
  <2> SUFFICES ASSUME NEW m \in Taken', m \notin got
               PROVE  Covers(engine', Rows', m) \/ m \in InQueue'
    BY <1>1 DEF MemoryKeeps
  <2>1. CASE m \in e.waiting
    BY <1>2, <2>1
  <2>2. CASE m \notin e.waiting
    <3>1. Covers(e, Rows, m)
      OBVIOUS
    <3>2. Member(engine') => Member(e)
      BY <1>1 DEF Member
    <3>q. QED BY <1>1, <1>2, <2>2, <3>1, <3>2, CoversGrows
  <2>q. QED BY <2>1, <2>2
<1>6. StoreKeeps'
  <2> SUFFICES ASSUME NEW m \in Taken' \cup e.waiting
               PROVE  dirty' \/ Covers(disk', Rows, m) \/ (direct' /\ m \in got)
    BY <1>1, <1>2 DEF StoreKeeps
  <2>1. CASE w /\ direct
    BY <1>4, <2>1
  <2>2. CASE w /\ ~direct
    BY <1>4, <2>2
  <2>3. CASE ~w
    BY <1>4, <2>3
  <2>q. QED BY <2>1, <2>2, <2>3
<1>7. SavedIsKept'
  BY <1>2, <1>4 DEF TextInv, SavedIsKept
<1>8. GivenUpAlike'
  <2> SUFFICES ASSUME ~dirty'
               PROVE  /\ engine'.acks \subseteq disk'.acks
                      /\ (Member(disk') => Member(engine')) \/ wrote
    BY <1>1 DEF GivenUpAlike
  <2>0. Member(engine') <=> Member(e)
    BY <1>1 DEF Member
  <2>1. CASE w
    BY <1>1, <1>4, <2>0, <2>1
  <2>2. CASE ~w
    <3>1. disk' = disk /\ ~dirty
      BY <1>4, <2>2
    <3>2. engine.acks \subseteq disk.acks /\ (Member(disk) => Member(engine))
      BY <3>1, AtRest
    <3>3. Member(engine) <=> Member(e)
      BY <2>2 DEF Member
    <3>q. QED BY <1>1, <2>0, <2>2, <3>1, <3>2, <3>3
  <2>q. QED BY <2>1, <2>2
<1>9. OpenedIsRow'
  <2>1. \A m \in engine'.used : m \in Rows' \cup (work.got)' \/ NonText(m)
    BY <1>1, <1>2
  <2>2. \A m \in disk'.used : m \in Rows' \/ NonText(m) \/ (direct' /\ m \in (work.got)')
    <3>1. CASE w /\ direct
      BY <1>1, <1>2, <1>4, <3>1
    <3>2. CASE ~(w /\ direct)
      <4>1. \A m \in disk.used : m \in Rows \/ NonText(m)
        BY AtRest
      <4>q. QED BY <1>2, <1>4, <3>2, <4>1
    <3>q. QED BY <3>1, <3>2
  <2>q. QED BY <2>1, <2>2 DEF OpenedIsRow
<1>q. QED BY <1>3, <1>5, <1>6, <1>7, <1>8, <1>9 DEF TextInv

\* A step of a retry that tries m: what it takes from the queue is covered.
LEMMA TryStep ==
    ASSUME TextInv, TypeOK', NEW m \in Messages, Try(m)
    PROVE  TextInv'
<1>t. /\ engine \in Engines /\ disk \in Engines /\ work \in WorkType
      /\ dirty \in BOOLEAN /\ direct \in BOOLEAN
  BY TypesOfEngines DEF TextInv, TypeOK
<1>1. /\ phase = "retry" /\ phase' = phase /\ m \in work.todo /\ engine.waiting = {}
      /\ UNCHANGED <<direct, shown, seen, stored, lost>>
  BY DEF Try, TryDropped, TryUnmapped, TryPending, TryHandled, Tried, TextInv, Ordered
<1>2. Rows' = Rows
  BY <1>1 DEF Rows
<1>m. \A n \in Taken : Covers(engine, Rows, n) \/ n \in InQueue \cup work.got
  BY DEF TextInv, MemoryKeeps
<1>s. \A n \in Taken \cup InQueue :
          \/ dirty \/ Covers(disk, Rows, n)
          \/ direct /\ n \in work.got
          \/ WrittenWithout /\ n \in InQueue
  BY DEF TextInv, StoreKeeps
<1>k. ~direct => \A n \in stored : Covers(disk, Rows, n)
  BY DEF TextInv, SavedIsKept
<1>d. direct => ~dirty
  BY DEF TextInv, Ordered
<1>p. /\ \A n \in engine.used : n \in Rows \cup work.got \/ NonText(n)
      /\ \A n \in disk.used : n \in Rows \/ NonText(n) \/ (direct /\ n \in work.got)
  BY DEF TextInv, OpenedIsRow
\* The stored engine as it was, and a queue that is no longer.
<1>3. ASSUME engine'.waiting = {}, disk' = disk, dirty' = dirty,
             engine'.keys = engine.keys, engine'.rev = engine.rev,
             engine'.acks = engine.acks, engine'.used = engine.used,
             work'.from = work.from, work'.got = work.got,
             work.wrote => work'.wrote, work'.wrote \/ work'.wrote = work.wrote,
             InQueue' \subseteq InQueue, work'.wrote \/ InQueue' = InQueue,
             \A n \in InQueue \ InQueue' : GivenUp(engine, n)
      PROVE  TextInv'
  <2>1. Taken' = Taken
    BY <1>1, <1>3 DEF Taken
  <2>2. Member(engine') <=> Member(engine)
    BY <1>3 DEF Member
  <2>3. Ordered'
    BY <1>1, <1>3 DEF TextInv, Ordered
  <2>4. MemoryKeeps'
    <3> SUFFICES ASSUME NEW n \in Taken
                 PROVE  Covers(engine', Rows, n) \/ n \in InQueue' \cup work.got
      BY <1>2, <1>3, <2>1 DEF MemoryKeeps
    <3>1. CASE Covers(engine, Rows, n)
      BY <1>1, <1>3, <2>2, <3>1, CoversGrows
    <3>2. CASE n \in InQueue \ InQueue'
      <4>1. Covers(engine, Rows, n)
        BY <1>3, <3>2 DEF Covers
      <4>q. QED BY <1>1, <1>3, <2>2, <4>1, CoversGrows
    <3>q. QED BY <1>m, <3>1, <3>2
  <2>5. StoreKeeps'
    <3> SUFFICES ASSUME NEW n \in Taken \cup InQueue'
                 PROVE  \/ dirty \/ Covers(disk, Rows, n)
                        \/ direct /\ n \in work.got
                        \/ WrittenWithout' /\ n \in InQueue'
      BY <1>1, <1>2, <1>3, <2>1 DEF StoreKeeps
    <3>1. CASE WrittenWithout /\ n \in InQueue
      <4>1. WrittenWithout'
        BY <1>1, <1>3, <2>2, <3>1 DEF WrittenWithout
      <4>2. CASE n \in InQueue'
        BY <4>1, <4>2
      <4>3. CASE n \notin InQueue'
        <5>1. GivenUp(engine, n)
          BY <1>3, <3>1, <4>3
        <5>2. engine.keys \subseteq disk.keys /\ (Member(disk) => Member(engine))
              /\ direct
          BY <3>1 DEF WrittenWithout
        <5>3. engine.acks \subseteq disk.acks
          BY <1>d, <5>2 DEF TextInv, GivenUpAlike
        <5>4. GivenUp(disk, n)
          BY <5>1, <5>2, <5>3 DEF GivenUp, KeysOf
        <5>q. QED BY <5>4 DEF Covers
      <4>q. QED BY <4>2, <4>3
    <3>q. QED BY <1>s, <1>3, <3>1
  <2>6. SavedIsKept'
    BY <1>1, <1>2, <1>3, <1>k DEF SavedIsKept
  <2>7. GivenUpAlike'
    <3> SUFFICES ASSUME ~dirty
                 PROVE  /\ engine.acks \subseteq disk.acks
                        /\ (Member(disk) => Member(engine)) \/ work'.wrote
      BY <1>1, <1>3, <2>2 DEF GivenUpAlike
    <3>q. QED BY <1>3 DEF TextInv, GivenUpAlike
  <2>8. OpenedIsRow'
    BY <1>1, <1>2, <1>3, <1>p DEF OpenedIsRow
  <2>q. QED BY <2>3, <2>4, <2>5, <2>6, <2>7, <2>8 DEF TextInv
<1>4. CASE TryDropped(m)
  <2>1. /\ work' = [work EXCEPT !.todo = @ \ {m}, !.wrote = TRUE]
        /\ engine' = engine /\ disk' = disk /\ dirty' = dirty
        /\ Mapped(engine, m) /\ (~Member(engine) \/ Predates(engine, m))
    BY <1>4 DEF TryDropped
  <2>2. /\ work'.todo = work.todo \ {m} /\ work'.keep = work.keep /\ work'.wrote = TRUE
        /\ work'.from = work.from /\ work'.got = work.got
    BY <1>t, <2>1 DEF WorkType
  <2>3. GivenUp(engine, m)
    <3>1. CASE ~Member(engine)
      BY <3>1 DEF GivenUp
    <3>2. CASE Predates(engine, m)
      BY <3>2 DEF GivenUp, Predates, Mapped
    <3>q. QED BY <2>1, <3>1, <3>2
  <2>4. InQueue' \subseteq InQueue /\ InQueue \ InQueue' \subseteq {m}
    BY <2>2 DEF InQueue
  <2>q. QED BY <1>1, <1>3, <2>1, <2>2, <2>3, <2>4
<1>5. CASE TryUnmapped(m)
  <2>1. /\ work' = [work EXCEPT !.todo = @ \ {m}, !.keep = @ \cup {m}]
        /\ engine' = engine /\ disk' = disk /\ dirty' = dirty
    BY <1>5 DEF TryUnmapped
  <2>2. /\ work'.todo = work.todo \ {m} /\ work'.keep = work.keep \cup {m}
        /\ work'.wrote = work.wrote /\ work'.from = work.from /\ work'.got = work.got
    BY <1>t, <2>1 DEF WorkType
  <2>4. InQueue' = InQueue
    BY <1>1, <2>2 DEF InQueue
  <2>q. QED BY <1>1, <1>3, <2>1, <2>2, <2>4
<1>6. CASE TryPending(m)
  <2> DEFINE r == RepairFor(engine, m)
  <2>1. r \in Repairs
    BY <1>t, <1>6, RepairForTypes DEF TryPending
  <2>2. /\ work' = [work EXCEPT !.todo = @ \ {m}, !.keep = @ \cup {m},
                                !.asks = @ \cup Sent(engine, r)]
        /\ engine' = Asked(engine, r) /\ disk' = disk /\ dirty' = dirty
    BY <1>6 DEF TryPending
  <2> HIDE DEF r
  <2>3. /\ work'.todo = work.todo \ {m} /\ work'.keep = work.keep \cup {m}
        /\ work'.wrote = work.wrote /\ work'.from = work.from /\ work'.got = work.got
    BY <1>t, <2>2 DEF WorkType
  <2>4. InQueue' = InQueue
    BY <1>1, <2>3 DEF InQueue
  <2>5. SameQueue(engine, engine')
    BY <1>t, <2>1, <2>2, AskedTypes
  <2>q. QED BY <1>1, <1>3, <2>2, <2>3, <2>4, <2>5 DEF SameQueue
<1>7. CASE TryHandled(m)
  <2> DEFINE o == Outcome(engine, m)
  <2>1. /\ o \in {"text", "ignored", "gone"} /\ engine' = Handled(engine, m)
        /\ work' = [work EXCEPT !.todo = @ \ {m}, !.wrote = TRUE,
                                !.got = IF o = "text" THEN @ \cup {m} ELSE @]
        /\ Writes(engine', o # "ignored")
    BY <1>7 DEF TryHandled
  <2>2. /\ work'.todo = work.todo \ {m} /\ work'.keep = work.keep
        /\ work'.wrote = TRUE /\ work'.from = work.from
        /\ work'.got = IF o = "text" THEN work.got \cup {m} ELSE work.got
    BY <1>t, <2>1 DEF WorkType
  <2>3. /\ engine'.keys = engine.keys /\ engine'.rev = engine.rev
        /\ engine'.waiting = {} /\ engine'.acks = engine.acks
        /\ engine'.used = IF o = "gone" THEN engine.used ELSE engine.used \cup {m}
    BY <1>t, <1>1, <2>1, HandledTypes
  <2>4. Member(engine') <=> Member(engine)
    BY <2>3 DEF Member
  <2>5. Taken' = Taken /\ InQueue' \subseteq InQueue /\ InQueue \ InQueue' \subseteq {m}
        /\ work.got \subseteq (work.got)'
    BY <1>1, <2>2 DEF Taken, InQueue
  <2>6. \/ m \in (work.got)' \/ NonText(m) \/ m \in Rows
        \/ \E k \in KeysOf(engine, m) : Time[m] < Time[k]
    <3>1. \/ o = "text" \/ NonText(m) \/ m \in engine.used
          \/ \E k \in KeysOf(engine, m) : Time[m] < Time[k]
      BY <1>t, <2>1, TakenMeans
    <3>2. m \in engine.used => m \in Rows \cup work.got \/ NonText(m)
      BY <1>p
    <3>3. o = "text" => m \in (work.got)'
      BY <2>2
    <3>q. QED BY <2>5, <3>1, <3>2, <3>3
  <2>7. o = "ignored" => NonText(m)
    <3>1. ASSUME o = "ignored" PROVE Content[m] = "ignored"
      BY <3>1 DEF Outcome
    <3>q. QED BY <3>1 DEF NonText
  <2>8. /\ o # "ignored" /\ direct => disk' = engine'
        /\ ~(o # "ignored" /\ direct) => disk' = disk
        /\ o = "ignored" \/ direct => dirty' = dirty
        /\ o # "ignored" /\ ~direct => dirty'
    BY <1>t, <2>1 DEF Writes
  <2> HIDE DEF o
  <2>9. MemoryKeeps'
    <3> SUFFICES ASSUME NEW n \in Taken
                 PROVE  Covers(engine', Rows, n) \/ n \in InQueue' \cup (work.got)'
      BY <1>2, <2>5 DEF MemoryKeeps
    <3>1. CASE Covers(engine, Rows, n)
      BY <1>1, <2>3, <2>4, <3>1, CoversGrows
    <3>2. CASE n = m
      <4>1. n \in (work.got)' \/ Covers(engine, Rows, n)
        BY <2>6, <3>2 DEF Covers, GivenUp
      <4>q. QED BY <3>1, <4>1
    <3>q. QED BY <1>m, <2>5, <3>1, <3>2
  <2>10. StoreKeeps'
    <3> SUFFICES ASSUME NEW n \in Taken \cup InQueue'
                 PROVE  \/ dirty' \/ Covers(disk', Rows, n)
                        \/ direct /\ n \in (work.got)'
                        \/ WrittenWithout' /\ n \in InQueue'
      BY <1>1, <1>2, <2>3, <2>5 DEF StoreKeeps
    <3>1. CASE o # "ignored" /\ direct
      <4>1. WrittenWithout'
        BY <1>1, <2>2, <2>3, <2>8, <3>1 DEF WrittenWithout
      <4>2. n \in Taken => Covers(engine', Rows, n) \/ n \in InQueue' \cup (work.got)'
        BY <1>2, <2>5, <2>9 DEF MemoryKeeps
      <4>q. QED BY <2>8, <3>1, <4>1, <4>2
    <3>2. CASE o # "ignored" /\ ~direct
      BY <2>8, <3>2
    <3>3. CASE o = "ignored"
      <4>1. disk' = disk /\ dirty' = dirty
        BY <2>8, <3>3
      <4>2. WrittenWithout => WrittenWithout'
        BY <1>1, <2>2, <2>3, <2>4, <4>1 DEF WrittenWithout
      <4>3. n \in InQueue /\ n \notin InQueue' => Covers(disk, Rows, n)
        BY <2>5, <2>7, <3>3 DEF Covers
      <4>q. QED BY <1>s, <2>5, <4>1, <4>2, <4>3
    <3>q. QED BY <3>1, <3>2, <3>3
  <2>11. SavedIsKept'
    BY <1>1, <1>2, <1>k, <2>8 DEF SavedIsKept
  <2>12. GivenUpAlike'
    <3>1. ~dirty' => engine'.acks \subseteq disk'.acks
      <4>1. CASE o # "ignored" /\ direct
        BY <2>8, <4>1
      <4>2. CASE o # "ignored" /\ ~direct
        BY <2>8, <4>2
      <4>3. CASE o = "ignored"
        BY <2>3, <2>8, <4>3 DEF TextInv, GivenUpAlike
      <4>q. QED BY <4>1, <4>2, <4>3
    <3>q. QED BY <1>1, <2>2, <3>1 DEF GivenUpAlike
  <2>13. \A n \in engine'.used : n \in Rows \cup (work.got)' \/ NonText(n)
    <3> SUFFICES ASSUME NEW n \in engine'.used
                 PROVE  n \in Rows \cup (work.got)' \/ NonText(n)
      OBVIOUS
    <3>1. CASE n \in engine.used
      BY <1>p, <2>5, <3>1
    <3>2. CASE o # "gone" /\ n = m
      BY <2>1, <2>2, <2>7, <3>2
    <3>q. QED BY <2>3, <3>1, <3>2
  <2>14. OpenedIsRow'
    <3>1. \A n \in disk'.used : n \in Rows \/ NonText(n) \/ (direct /\ n \in (work.got)')
      <4>1. CASE o # "ignored" /\ direct
        BY <2>8, <2>13, <4>1
      <4>2. CASE ~(o # "ignored" /\ direct)
        BY <1>p, <2>5, <2>8, <4>2
      <4>q. QED BY <4>1, <4>2
    <3>q. QED BY <1>1, <1>2, <2>13, <3>1 DEF OpenedIsRow
  <2>15. Ordered'
    BY <1>1, <1>d, <2>3, <2>8 DEF TextInv, Ordered
  <2>q. QED BY <2>9, <2>10, <2>11, <2>12, <2>14, <2>15 DEF TextInv
<1>q. QED BY <1>4, <1>5, <1>6, <1>7 DEF Try

\* A retry that breaks off and leaves e: what it had in hand is put back, where the
\* stored engine has it as well, or counts as lost.
LEMMA BreakStep ==
    ASSUME TextInv, TypeOK', phase = "retry", Member(engine),
           NEW e \in Engines, Breaks(e), e.keys = engine.keys, e.rev = engine.rev,
           e.acks = engine.acks, e.used = engine.used, e.waiting \subseteq InQueue
    PROVE  TextInv'
<1> DEFINE Back == {m \in e.waiting : direct => m \in disk.waiting}
<1>1. /\ phase' = "open" /\ work' = NoWork /\ engine' = e
      /\ UNCHANGED <<disk, dirty, direct, shown, seen, stored>>
      /\ lost' = lost \cup work.got \cup (InQueue \ Back)
  BY DEF Breaks, InQueue
<1>2. /\ Taken' = seen /\ InQueue' = {} /\ (work.got)' = {} /\ Taken' \subseteq Taken
      /\ engine.waiting = {}
  BY <1>1, NoWorkTypes DEF Taken, InQueue, TextInv, Ordered
<1>3. Rows' = Rows \cup work.got \cup (InQueue \ Back)
  BY <1>1 DEF Rows
<1>4. Member(e)
  BY DEF Member
<1>5. \A m : m \in InQueue => m \in e.waiting \/ m \in Rows'
  BY <1>3
<1>6. \A m : m \in e.waiting /\ direct => m \in disk.waiting \/ m \in Rows'
  BY <1>3
<1> HIDE DEF Back
<1>7. Rows \subseteq Rows' /\ work.got \subseteq Rows'
  BY <1>3
<1>8. Ordered'
  BY <1>1 DEF TextInv, Ordered
<1>9. MemoryKeeps'
  <2> SUFFICES ASSUME NEW m \in Taken'
               PROVE  Covers(e, Rows', m)
    BY <1>1 DEF MemoryKeeps
  <2>1. Covers(engine, Rows, m) \/ m \in InQueue \cup work.got
    BY <1>2 DEF TextInv, MemoryKeeps
  <2>2. CASE Covers(engine, Rows, m)
    BY <1>2, <1>4, <1>7, <2>2, CoversGrows
  <2>3. CASE m \in InQueue \cup work.got
    BY <1>5, <1>7, <2>3 DEF Covers
  <2>q. QED BY <2>1, <2>2, <2>3
<1>10. StoreKeeps'
  <2> SUFFICES ASSUME NEW m \in Taken' \cup e.waiting
               PROVE  dirty \/ Covers(disk, Rows', m)
    BY <1>1, <1>2 DEF StoreKeeps
  <2>1. \/ dirty \/ Covers(disk, Rows, m)
        \/ direct /\ m \in work.got
        \/ WrittenWithout /\ m \in InQueue
    BY <1>2 DEF TextInv, StoreKeeps
  <2>2. CASE Covers(disk, Rows, m) \/ m \in work.got
    BY <1>7, <2>2 DEF Covers
  <2>3. CASE WrittenWithout /\ m \in InQueue
    <3>1. direct
      BY <2>3 DEF WrittenWithout
    <3>q. QED BY <1>5, <1>6, <2>3, <3>1 DEF Covers
  <2>q. QED BY <2>1, <2>2, <2>3
<1>11. SavedIsKept'
  BY <1>1, <1>7 DEF TextInv, SavedIsKept, Covers
<1>12. GivenUpAlike'
  BY <1>1, <1>4 DEF TextInv, GivenUpAlike
<1>13. OpenedIsRow'
  BY <1>1, <1>7 DEF TextInv, OpenedIsRow
<1>q. QED BY <1>8, <1>9, <1>10, <1>11, <1>12, <1>13 DEF TextInv

\* A group message arrives, of a sender who is not known.
LEMMA UnmappedStep ==
    ASSUME TextInv, TypeOK', NEW m \in Messages, ReceiveUnmapped(m)
    PROVE  TextInv'
<1>1. /\ phase' = "open" /\ work' = work /\ phase \in {"idle", "open"}
      /\ engine' = [engine EXCEPT !.waiting = @ \cup {m}] /\ seen' = seen \cup {m}
      /\ Writes(engine', m \notin engine.waiting)
      /\ UNCHANGED <<direct, shown, stored, lost>>
  BY DEF ReceiveUnmapped, InBatch
<1>2. /\ engine'.keys = engine.keys /\ engine'.rev = engine.rev
      /\ engine'.acks = engine.acks /\ engine'.used = engine.used
      /\ engine'.waiting = engine.waiting \cup {m}
  BY <1>1, TypesOfEngines DEF TextInv, Engines, EngineType
<1>3. Rows' = Rows /\ (Member(engine') <=> Member(engine)) /\ work' = NoWork
  BY <1>1, <1>2, AtRest DEF Rows, Member
<1>4. \A n \in seen' : Covers(engine', Rows', n)
  <2> SUFFICES ASSUME NEW n \in seen'
               PROVE  Covers(engine', Rows', n)
    OBVIOUS
  <2>1. CASE n = m
    BY <1>2, <2>1 DEF Covers
  <2>2. CASE n \in seen
    <3>1. Covers(engine, Rows, n)
      BY <1>1, <2>2, AtRest
    <3>q. QED BY <1>2, <1>3, <3>1, CoversGrows
  <2>q. QED BY <1>1, <2>1, <2>2
<1>5. m \in engine.waiting => \A n \in seen' \cup engine'.waiting : dirty \/ Covers(disk, Rows', n)
  BY <1>1, <1>2, <1>3, AtRest
<1>6. ~dirty => /\ engine'.acks \subseteq disk.acks
                /\ Member(disk) => Member(engine')
  BY <1>1, <1>2, <1>3, AtRest
<1>7. /\ \A n \in engine'.used : n \in Rows' \/ NonText(n)
      /\ \A n \in disk.used : n \in Rows' \/ NonText(n)
  BY <1>1, <1>2, <1>3, AtRest
<1> DEFINE w == m \notin engine.waiting
<1>8. w \in BOOLEAN /\ Writes(engine', w)
  BY <1>1
<1>9. seen \subseteq seen' /\ Rows \subseteq Rows' /\ phase # "down"
  BY <1>1, <1>3
<1>10. ~w => \A n \in seen' \cup engine'.waiting : dirty \/ Covers(disk, Rows', n)
  BY <1>5
<1> HIDE DEF w
<1>q. QED BY <1>1, <1>3, <1>4, <1>6, <1>7, <1>8, <1>9, <1>10, OpenStep

\* One whose key or revision is missing.
LEMMA PendingStep ==
    ASSUME TextInv, TypeOK', NEW m \in Messages, ReceivePending(m)
    PROVE  TextInv'
<1> DEFINE e == Asked(engine, RepairFor(engine, m))
           w == engine' # e \/ (~Member(e) /\ e # engine)
<1>1. /\ phase' = "open" /\ work' = work /\ phase \in {"idle", "open"}
      /\ engine' = Queued(e, m) /\ seen' = seen \cup {m}
      /\ Writes(engine', w)
      /\ UNCHANGED <<direct, shown, stored, lost>>
  BY DEF ReceivePending, InBatch
<1>2. e \in Engines /\ SameQueue(engine, e)
  <2>1. engine \in Engines /\ RepairFor(engine, m) \in Repairs
    BY TypesOfEngines, RepairForTypes DEF ReceivePending, TextInv
  <2>q. QED BY <2>1, AskedTypes
<1> HIDE DEF e
<1>3. /\ engine'.keys = engine.keys /\ engine'.rev = engine.rev
      /\ engine'.acks = engine.acks /\ engine'.used = engine.used
      /\ engine.waiting \subseteq engine'.waiting
      /\ engine'.waiting \subseteq engine.waiting \cup {m}
      /\ \/ m \in engine'.waiting
         \/ <<Sender(m), Time[m]>> \in engine.acks
         \/ ~Member(engine)
  BY <1>1, <1>2, QueuedTypes DEF SameQueue, Member
<1>4. Rows' = Rows /\ (Member(engine') <=> Member(engine)) /\ work' = NoWork
  BY <1>1, <1>3, AtRest DEF Rows, Member
<1>5. \A n \in seen' : Covers(engine', Rows', n)
  <2> SUFFICES ASSUME NEW n \in seen'
               PROVE  Covers(engine', Rows', n)
    OBVIOUS
  <2>1. CASE n = m
    BY <1>3, <1>4, <2>1 DEF Covers, GivenUp
  <2>2. CASE n \in seen
    <3>1. Covers(engine, Rows, n)
      BY <1>1, <2>2, AtRest
    <3>q. QED BY <1>3, <1>4, <3>1, CoversGrows
  <2>q. QED BY <1>1, <2>1, <2>2
<1>6. ~dirty => /\ engine.acks \subseteq disk.acks
                /\ Member(disk) => Member(engine)
  BY <1>1, AtRest
<1>7. ~w => \A n \in seen' \cup engine'.waiting : dirty \/ Covers(disk, Rows', n)
  <2> SUFFICES ASSUME ~w, ~dirty, NEW n \in seen' \cup engine'.waiting
               PROVE  Covers(disk, Rows', n)
    OBVIOUS
  <2>1. engine'.waiting = engine.waiting
    BY <1>2 DEF SameQueue
  <2>2. CASE n \in seen \cup engine.waiting
    BY <1>1, <1>4, <2>2, AtRest
  <2>3. CASE n = m /\ n \notin engine.waiting
    BY <1>3, <1>6, <2>1, <2>3 DEF Covers, GivenUp
  <2>q. QED BY <1>1, <2>1, <2>2, <2>3
<1>8. /\ \A n \in engine'.used : n \in Rows' \/ NonText(n)
      /\ \A n \in disk.used : n \in Rows' \/ NonText(n)
  BY <1>1, <1>3, <1>4, AtRest
<1>9. w \in BOOLEAN /\ seen \subseteq seen' /\ Rows \subseteq Rows' /\ phase # "down"
  BY <1>1, <1>4
<1>10. ~w /\ ~dirty => /\ engine'.acks \subseteq disk.acks
                       /\ Member(disk) => Member(engine')
  BY <1>3, <1>4, <1>6
<1> HIDE DEF w
<1>q. QED BY <1>1, <1>4, <1>5, <1>7, <1>8, <1>9, <1>10, OpenStep

\* One that opens, or never will.
LEMMA HandledStep ==
    ASSUME TextInv, TypeOK', NEW m \in Messages, ReceiveHandled(m)
    PROVE  TextInv'
<1> DEFINE h == Handled(engine, m)
           e == [h EXCEPT !.waiting = @ \ {m}]
           o == Outcome(engine, m)
           got == IF o = "text" THEN {m} ELSE {}
           w == o # "ignored" \/ m \in engine.waiting
<1>1. /\ phase \in {"idle", "open"} /\ o \in {"text", "ignored", "gone"}
      /\ Begin(e, m, got, FALSE) /\ Writes(e, w)
      /\ UNCHANGED <<direct, shown, seen, stored, lost>>
  BY DEF ReceiveHandled, InBatch
<1>0. engine \in Engines
  BY TypesOfEngines DEF TextInv
<1>2. /\ h \in Engines /\ h.keys = engine.keys /\ h.rev = engine.rev
      /\ h.waiting = engine.waiting /\ h.acks = engine.acks
      /\ h.used = IF o = "gone" THEN engine.used ELSE engine.used \cup {m}
  BY <1>0, HandledTypes
<1> HIDE DEF h
<1>3. /\ e \in Engines /\ e.keys = engine.keys /\ e.rev = engine.rev
      /\ e.waiting = engine.waiting \ {m} /\ e.acks = engine.acks
      /\ e.used = IF o = "gone" THEN engine.used ELSE engine.used \cup {m}
  BY <1>2 DEF Engines, EngineType
<1>4. Begin(e, m, got, FALSE) => work'.from = m
  <2>1. Begin(e, m, got, FALSE) => work' = [NoWork EXCEPT !.todo = e.waiting, !.from = m,
                                                    !.got = got, !.wrote = FALSE]
    BY DEF Begin
  <2>q. QED BY <2>1 DEF NoWork
<1> HIDE DEF e
<1>5. Taken' = seen \cup {m} /\ Rows' = Rows
  BY <1>1, <1>4, PositionTypes DEF Taken, Rows
<1>6. (Member(e) <=> Member(engine))
  BY <1>3 DEF Member
<1>7. o = "ignored" => NonText(m)
  <2>1. ASSUME o = "ignored" PROVE Content[m] = "ignored"
    BY <2>1 DEF Outcome
  <2>q. QED BY <2>1 DEF NonText
<1>8. Covers(e, Rows, m) \/ m \in got
  <2>1. \/ o = "text" \/ NonText(m) \/ m \in engine.used
        \/ \E k \in KeysOf(engine, m) : Time[m] < Time[k]
    BY <1>0, <1>1, TakenMeans
  <2>2. KeysOf(engine, m) = KeysOf(e, m)
    BY <1>3 DEF KeysOf
  <2>3. m \in engine.used => m \in Rows \/ NonText(m)
    BY <1>1, AtRest
  <2>q. QED BY <2>1, <2>2, <2>3 DEF Covers, GivenUp
<1>9. got \in SUBSET Messages /\ (o = "text" => m \in got) /\ w \in BOOLEAN
      /\ (~w => o = "ignored" /\ m \notin engine.waiting)
  OBVIOUS
<1> HIDE DEF o, got, w
<1>10. \A n \in Taken' \cup e.waiting : Covers(e, Rows, n) \/ n \in got
  <2> SUFFICES ASSUME NEW n \in seen \cup {m} \cup e.waiting
               PROVE  Covers(e, Rows, n) \/ n \in got
    BY <1>5
  <2>1. CASE n = m
    BY <1>8, <2>1
  <2>2. CASE n \in seen /\ n # m
    <3>1. Covers(engine, Rows, n)
      BY <1>1, <2>2, AtRest
    <3>q. QED BY <1>3, <1>6, <2>2, <3>1, CoversGrows
  <2>3. CASE n \in e.waiting
    BY <2>3 DEF Covers
  <2>q. QED BY <2>1, <2>2, <2>3
<1>11. ~w => \A n \in Taken' \cup e.waiting : dirty \/ Covers(disk, Rows, n)
  <2> SUFFICES ASSUME ~w, NEW n \in seen \cup {m} \cup e.waiting
               PROVE  dirty \/ Covers(disk, Rows, n)
    BY <1>5
  <2>1. CASE n = m
    BY <1>7, <1>9, <2>1 DEF Covers
  <2>2. CASE n \in seen \cup engine.waiting
    BY <1>1, <2>2, AtRest
  <2>q. QED BY <1>3, <2>1, <2>2
<1>12. \A n \in e.used : n \in Rows \cup got \/ NonText(n)
  <2>1. \A n \in engine.used : n \in Rows \/ NonText(n)
    BY <1>1, AtRest
  <2>2. o # "gone" => m \in got \/ NonText(m)
    BY <1>1, <1>7, <1>9
  <2>q. QED BY <1>3, <2>1, <2>2
<1>13. m \in Messages \cup {NoMessage} /\ FALSE \in BOOLEAN
       /\ \A n \in Taken' : Covers(e, Rows, n) \/ n \in got
  BY <1>10
<1>q. QED BY <1>1, <1>3, <1>9, <1>10, <1>11, <1>12, <1>13, BeginStep

\* The end of a retry: the events are applied, and the arrival that started it is
\* remembered.
LEMMA RetryEndStep ==
    ASSUME TextInv, TypeOK', RetryEnds
    PROVE  TextInv'
<1> DEFINE e == AskedAgain(PutBack)
           asks == work.asks \cup IF Member(e) THEN Due(PutBack) ELSE {}
           w == work.wrote \/ asks # {} \/ engine' # PutBack
<1>1. /\ phase = "retry" /\ work.todo = {}
      /\ phase' = "open" /\ work' = NoWork
      /\ engine' = Acknowledged(e, work.got)
      /\ shown' = shown \cup work.got
      /\ seen' = Taken
      /\ Writes(engine', w)
      /\ UNCHANGED <<direct, stored, lost>>
  BY DEF RetryEnds, Taken
<1>2. /\ PutBack \in Engines
      /\ PutBack.keys = engine.keys /\ PutBack.rev = engine.rev
      /\ PutBack.waiting = work.keep /\ PutBack.acks = engine.acks
      /\ PutBack.used = engine.used
  BY PutBackTypes DEF TextInv
<1>3. e \in Engines /\ SameQueue(PutBack, e)
  BY <1>2, AskedAgainTypes
<1>4. work.got \subseteq Messages /\ work.wrote \in BOOLEAN
  BY DEF TextInv, TypeOK, WorkType
<1>5. ~w => ~work.wrote /\ engine' = PutBack
  OBVIOUS
<1>w. w \in BOOLEAN
  BY <1>4
<1> HIDE DEF e, w, asks
<1>6. /\ engine'.keys = engine.keys /\ engine'.rev = engine.rev /\ engine'.used = engine.used
      /\ engine'.waiting \subseteq work.keep /\ engine.acks \subseteq engine'.acks
      /\ \A n \in work.keep \ engine'.waiting : <<Sender(n), Time[n]>> \in engine'.acks
  BY <1>1, <1>2, <1>3, <1>4, AcknowledgedTypes DEF SameQueue
<1>7. /\ Rows' = Rows \cup work.got /\ (Member(engine') <=> Member(engine))
      /\ InQueue = work.keep /\ engine.waiting = {}
  BY <1>1, <1>6 DEF Rows, Member, InQueue, TextInv, Ordered
<1>8. \A n \in seen' : Covers(engine', Rows', n)
  <2> SUFFICES ASSUME NEW n \in Taken
               PROVE  Covers(engine', Rows', n)
    BY <1>1
  <2>1. Covers(engine, Rows, n) \/ n \in work.keep \cup work.got
    BY <1>7 DEF TextInv, MemoryKeeps
  <2>2. CASE Covers(engine, Rows, n)
    BY <1>6, <1>7, <2>2, CoversGrows
  <2>3. CASE n \in work.keep
    BY <1>6, <2>3 DEF Covers, GivenUp
  <2>4. CASE n \in work.got
    BY <1>7, <2>4 DEF Covers
  <2>q. QED BY <2>1, <2>2, <2>3, <2>4
<1>9. ~w => \A n \in seen' \cup engine'.waiting : dirty \/ Covers(disk, Rows', n)
  <2> SUFFICES ASSUME ~w, NEW n \in Taken \cup InQueue
               PROVE  dirty \/ Covers(disk, Rows', n)
    BY <1>1, <1>6, <1>7
  <2>1. ~WrittenWithout
    BY <1>5 DEF WrittenWithout
  <2>2. dirty \/ Covers(disk, Rows, n) \/ n \in work.got
    BY <2>1 DEF TextInv, StoreKeeps
  <2>q. QED BY <1>7, <2>2 DEF Covers
<1>10. ~w /\ ~dirty => /\ engine'.acks \subseteq disk.acks
                       /\ Member(disk) => Member(engine')
  BY <1>2, <1>5, <1>7 DEF TextInv, GivenUpAlike
<1>11. /\ \A n \in engine'.used : n \in Rows' \/ NonText(n)
       /\ \A n \in disk.used : n \in Rows' \/ NonText(n)
  BY <1>6, <1>7 DEF TextInv, OpenedIsRow
<1>12. seen \subseteq seen' /\ Rows \subseteq Rows' /\ phase # "down"
  BY <1>1, <1>7 DEF Taken
<1>q. QED BY <1>1, <1>w, <1>8, <1>9, <1>10, <1>11, <1>12, OpenStep

\* A key or a revision of the group, or what is due: what waits is tried again.
LEMMA ArrivalStep ==
    ASSUME TextInv, TypeOK', phase \in {"idle", "open"}, NEW e \in Engines, NEW w \in BOOLEAN,
           e.waiting = engine.waiting, e.acks = engine.acks, e.used = engine.used,
           engine.keys \subseteq e.keys, Member(e) => Member(engine),
           Begin(e, NoMessage, {}, w), Writes(engine, w), ~w => e.rev = engine.rev,
           UNCHANGED <<direct, shown, seen, stored, lost>>
    PROVE  TextInv'
<1>1. Begin(e, NoMessage, {}, w) => work'.from = NoMessage
  <2>1. Begin(e, NoMessage, {}, w) => work' = [NoWork EXCEPT !.todo = e.waiting,
                                            !.from = NoMessage, !.got = {}, !.wrote = w]
    BY DEF Begin
  <2>q. QED BY <2>1 DEF NoWork
<1>2. Taken' = seen
  BY <1>1 DEF Taken
<1>3. engine \in Engines /\ phase # "retry"
  BY TypesOfEngines DEF TextInv
<1>4. \A n \in Taken' : Covers(e, Rows, n) \/ n \in {}
  <2> SUFFICES ASSUME NEW n \in seen
               PROVE  Covers(e, Rows, n)
    BY <1>2
  <2>1. Covers(engine, Rows, n)
    BY <1>3, AtRest
  <2>q. QED BY <2>1, CoversGrows
<1>5. \A n \in Taken' \cup e.waiting : Covers(engine, Rows, n) \/ n \in {}
  <2>1. \A n \in seen : Covers(engine, Rows, n)
    BY <1>3, AtRest
  <2>2. \A n \in engine.waiting : Covers(engine, Rows, n)
    BY DEF Covers
  <2>q. QED BY <1>2, <2>1, <2>2
<1>6. \A n \in Taken' \cup e.waiting : dirty \/ Covers(disk, Rows, n)
  BY <1>2, <1>3, AtRest
<1>7. \A n \in engine.used : n \in Rows \cup {} \/ NonText(n)
  BY <1>3, AtRest
<1>8. NoMessage \in Messages \cup {NoMessage} /\ {} \in SUBSET Messages
      /\ (w => e.acks \subseteq engine.acks /\ ((Member(engine) => Member(e)) \/ w))
      /\ \A n \in e.used : n \in Rows \cup {} \/ NonText(n)
  BY <1>7
<1>q. QED BY <1>3, <1>4, <1>5, <1>6, <1>7, <1>8, BeginStep

\* The engine is written where a batch ends.
LEMMA FlushStep ==
    ASSUME TextInv, TypeOK', FlushEngine
    PROVE  TextInv'
<1>1. /\ phase = "open" /\ phase' = "flushed" /\ dirty' = FALSE
      /\ disk' = IF dirty THEN engine ELSE disk
      /\ UNCHANGED <<engine, direct, work, shown, seen, stored, lost>>
  BY DEF FlushEngine
<1>2. /\ Taken' = Taken /\ Rows' = Rows /\ InQueue' = InQueue
      /\ WrittenWithout \in BOOLEAN
  BY <1>1 DEF Taken, Rows, InQueue, WrittenWithout
<1>3. Ordered'
  BY <1>1 DEF TextInv, Ordered
<1>4. MemoryKeeps'
  BY <1>1, <1>2 DEF TextInv, MemoryKeeps
<1>5. \A m \in seen \cup engine.waiting : Covers(disk', Rows, m)
  <2>1. CASE dirty
    <3>1. \A m \in seen : Covers(engine, Rows, m)
      BY <1>1, AtRest
    <3>2. \A m \in engine.waiting : Covers(engine, Rows, m)
      BY DEF Covers
    <3>q. QED BY <1>1, <2>1, <3>1, <3>2
  <2>2. CASE ~dirty
    BY <1>1, <2>2, AtRest
  <2>q. QED BY <2>1, <2>2
<1>6. StoreKeeps'
  <2>1. Taken = seen /\ InQueue = {}
    BY <1>1, AtRest
  <2>q. QED BY <1>1, <1>2, <1>5, <2>1 DEF StoreKeeps
<1>7. SavedIsKept'
  BY <1>1, <1>2, <1>5 DEF TextInv, Ordered, SavedIsKept
<1>8. GivenUpAlike'
  <2>1. CASE dirty
    BY <1>1, <2>1 DEF GivenUpAlike
  <2>2. CASE ~dirty
    BY <1>1, <2>2, AtRest DEF GivenUpAlike
  <2>q. QED BY <2>1, <2>2
<1>9. OpenedIsRow'
  <2>1. /\ \A m \in engine.used : m \in Rows \/ NonText(m)
        /\ \A m \in disk.used : m \in Rows \/ NonText(m)
    BY <1>1, AtRest
  <2>q. QED BY <1>1, <1>2, <2>1 DEF OpenedIsRow
<1>q. QED BY <1>3, <1>4, <1>6, <1>7, <1>8, <1>9 DEF TextInv

\* The app is saved after it.
LEMMA SaveStep ==
    ASSUME TextInv, TypeOK', SaveApp
    PROVE  TextInv'
<1>1. /\ phase = "flushed" /\ phase' = "idle" /\ stored' = seen /\ direct' = FALSE
      /\ UNCHANGED <<engine, disk, dirty, work, shown, seen, lost>>
  BY DEF SaveApp
<1>2. /\ Taken' = seen /\ Rows' = Rows /\ InQueue' = {} /\ (work.got)' = {} /\ ~dirty
      /\ TypeOK
  BY <1>1, AtRest DEF Taken, Rows, InQueue, TextInv, Ordered
<1>3. \A m \in seen \cup engine.waiting : Covers(disk, Rows, m)
  BY <1>1, <1>2, AtRest
<1>4. Ordered'
  BY <1>1, <1>2 DEF TextInv, Ordered
<1>5. MemoryKeeps'
  BY <1>1, <1>2, AtRest DEF MemoryKeeps
<1>6. StoreKeeps'
  BY <1>1, <1>2, <1>3 DEF StoreKeeps
<1>7. SavedIsKept'
  BY <1>1, <1>2, <1>3 DEF SavedIsKept
<1>8. GivenUpAlike'
  BY <1>1, AtRest DEF GivenUpAlike
<1>9. OpenedIsRow'
  <2>1. /\ \A m \in engine.used : m \in Rows \/ NonText(m)
        /\ \A m \in disk.used : m \in Rows \/ NonText(m)
    BY <1>1, AtRest
  <2>q. QED BY <1>1, <1>2, <2>1 DEF OpenedIsRow
<1>q. QED BY <1>4, <1>5, <1>6, <1>7, <1>8, <1>9 DEF TextInv

\* The end of the process: the stored engine is all there is.
LEMMA CrashStep ==
    ASSUME TextInv, TypeOK', Crash
    PROVE  TextInv'
<1>1. /\ phase' = "down" /\ engine' = disk /\ seen' = stored /\ dirty' = FALSE
      /\ direct' = FALSE /\ work' = NoWork /\ lost' = lost \cup InHand
      /\ UNCHANGED <<disk, shown, stored>>
  BY DEF Crash
<1>2. /\ Taken' = stored /\ InQueue' = {} /\ (work.got)' = {}
      /\ Rows' = Rows \cup InHand
      /\ direct => InQueue \subseteq InHand /\ work.got \subseteq InHand
  BY <1>1, NoWorkTypes DEF Taken, Rows, InQueue, InHand
<1>3. Rows \subseteq Rows'
  BY <1>2
<1>4. \A m \in stored : Covers(disk, Rows', m)
  <2> SUFFICES ASSUME NEW m \in stored
               PROVE  Covers(disk, Rows', m)
    OBVIOUS
  <2>1. CASE ~direct
    <3>1. Covers(disk, Rows, m)
      BY <2>1 DEF TextInv, SavedIsKept
    <3>q. QED BY <1>3, <3>1 DEF Covers
  <2>2. CASE direct
    <3>1. m \in Taken /\ ~dirty
      BY <2>2 DEF TextInv, Ordered, Taken
    <3>2. Covers(disk, Rows, m) \/ m \in work.got \/ m \in InQueue
      BY <3>1 DEF TextInv, StoreKeeps
    <3>3. m \in work.got \/ m \in InQueue => m \in Rows'
      BY <1>2, <2>2
    <3>q. QED BY <1>3, <3>2, <3>3 DEF Covers
  <2>q. QED BY <2>1, <2>2
<1>5. \A m \in disk.used : m \in Rows' \/ NonText(m)
  <2>1. \A m \in disk.used : m \in Rows \/ NonText(m) \/ (direct /\ m \in work.got)
    BY DEF TextInv, OpenedIsRow
  <2>q. QED BY <1>2, <1>3, <2>1
<1>6. Ordered'
  BY <1>1 DEF Ordered
<1>7. MemoryKeeps'
  BY <1>1, <1>2, <1>4 DEF MemoryKeeps
<1>8. StoreKeeps'
  <2>1. \A m \in disk.waiting : Covers(disk, Rows', m)
    BY DEF Covers
  <2>q. QED BY <1>1, <1>2, <1>4, <2>1 DEF StoreKeeps
<1>9. SavedIsKept'
  BY <1>1, <1>4 DEF SavedIsKept
<1>10. GivenUpAlike'
  BY <1>1 DEF GivenUpAlike
<1>11. OpenedIsRow'
  BY <1>1, <1>5 DEF OpenedIsRow
<1>q. QED BY <1>6, <1>7, <1>8, <1>9, <1>10, <1>11 DEF TextInv

\* The next process: the engine is pruned, written and tried.
LEMMA RestartStep ==
    ASSUME TextInv, TypeOK', Restart
    PROVE  TextInv'
<1> DEFINE e == Pruned(disk)
<1>1. /\ phase = "down" /\ direct' = TRUE /\ disk' = e
      /\ IF HasDue(e) THEN Begin(e, NoMessage, {}, FALSE)
         ELSE phase' = "open" /\ engine' = e /\ UNCHANGED work
      /\ UNCHANGED <<dirty, shown, seen, stored, lost>>
  BY DEF Restart
<1>2. /\ e \in Engines /\ e.keys = disk.keys /\ e.rev = disk.rev /\ e.acks = disk.acks
      /\ e.used = disk.used /\ (Member(disk) => e = disk)
  BY TypesOfEngines, PrunedTypes DEF TextInv
<1> HIDE DEF e
<1>3. ~direct /\ ~dirty /\ dirty' = dirty /\ Rows' = Rows /\ stored \subseteq seen
  BY <1>1 DEF TextInv, Ordered, Rows
<1>4. \A m \in seen : Covers(e, Rows, m)
  <2> SUFFICES ASSUME NEW m \in seen
               PROVE  Covers(e, Rows, m)
    OBVIOUS
  <2>1. Covers(disk, Rows, m)
    BY <1>1, <1>3, AtRest
  <2>2. CASE Member(disk)
    BY <1>2, <2>1, <2>2
  <2>3. CASE ~Member(disk)
    BY <1>2, <2>3 DEF Covers, GivenUp, Member
  <2>q. QED BY <2>2, <2>3
<1>5. \A m \in e.used : m \in Rows \/ NonText(m)
  BY <1>1, <1>2, AtRest
<1>6. \E Q \in SUBSET Messages :
          /\ phase' \in {"open", "retry"} /\ Taken' = seen /\ InQueue' = Q
          /\ engine'.keys = e.keys /\ engine'.rev = e.rev
          /\ engine'.acks = e.acks /\ engine'.used = e.used
          /\ e.waiting = engine'.waiting \cup Q
          /\ phase' = "retry" => engine'.waiting = {}
          /\ (work.got)' = {}
  <2>1. CASE HasDue(e)
    <3>1. Begin(e, NoMessage, {}, FALSE)
      BY <1>1, <2>1
    <3>2. /\ phase' = "retry"
          /\ engine'.keys = e.keys /\ engine'.rev = e.rev
          /\ engine'.waiting = {} /\ engine'.acks = e.acks /\ engine'.used = e.used
          /\ work'.todo = e.waiting /\ work'.keep = {} /\ work'.got = {}
          /\ work'.from = NoMessage
      <4>1. /\ phase' = "retry" /\ engine' = [e EXCEPT !.waiting = {}]
            /\ work' = [todo |-> e.waiting, keep |-> {}, got |-> {}, asks |-> {},
                        wrote |-> FALSE, from |-> NoMessage]
        BY <3>1 DEF Begin, NoWork
      <4>2. e \in EngineType
        BY <1>2 DEF Engines
      <4>3. /\ work'.todo = e.waiting /\ work'.keep = {} /\ work'.got = {}
            /\ work'.from = NoMessage
        BY <4>1
      <4>4. /\ engine'.keys = e.keys /\ engine'.rev = e.rev
            /\ engine'.waiting = {} /\ engine'.acks = e.acks /\ engine'.used = e.used
        BY <4>1, <4>2 DEF EngineType
      <4>q. QED BY <4>1, <4>3, <4>4
    <3>3. e.waiting \subseteq Messages
      BY <1>2 DEF Engines, EngineType
    <3>q. QED BY <1>1, <3>2, <3>3 DEF Taken, InQueue
  <2>2. CASE ~HasDue(e)
    <3>1. phase' = "open" /\ engine' = e /\ work' = work
      BY <1>1, <2>2
    <3>2. Taken = seen /\ InQueue = {} /\ work.got = {}
      BY <1>1, AtRest
    <3>3. Taken' = seen /\ InQueue' = {} /\ (work.got)' = {}
      BY <1>1, <3>1, <3>2 DEF Taken, InQueue
    <3>4. {} \in SUBSET Messages /\ e.waiting = engine'.waiting \cup {}
      BY <3>1
    <3>q. QED BY <3>1, <3>3, <3>4
  <2>q. QED BY <2>1, <2>2
<1>7. PICK Q \in SUBSET Messages :
          /\ phase' \in {"open", "retry"} /\ Taken' = seen /\ InQueue' = Q
          /\ engine'.keys = e.keys /\ engine'.rev = e.rev
          /\ engine'.acks = e.acks /\ engine'.used = e.used
          /\ e.waiting = engine'.waiting \cup Q
          /\ phase' = "retry" => engine'.waiting = {}
          /\ (work.got)' = {}
  BY <1>6
<1>8. Member(engine') <=> Member(e)
  BY <1>7 DEF Member
<1>9. Ordered'
  BY <1>1, <1>3, <1>7 DEF Ordered
<1>10. MemoryKeeps'
  <2> SUFFICES ASSUME NEW m \in seen
               PROVE  Covers(engine', Rows, m) \/ m \in Q
    BY <1>3, <1>7 DEF MemoryKeeps
  <2>1. CASE m \in Q
    BY <2>1
  <2>2. CASE m \notin Q
    BY <1>4, <1>7, <1>8, <2>2, CoversGrows
  <2>q. QED BY <2>1, <2>2
<1>11. StoreKeeps'
  <2>1. \A m \in e.waiting : Covers(e, Rows, m)
    BY DEF Covers
  <2>q. QED BY <1>1, <1>3, <1>4, <1>7, <2>1 DEF StoreKeeps
<1>12. SavedIsKept'
  BY <1>1 DEF SavedIsKept
<1>13. GivenUpAlike'
  BY <1>1, <1>7, <1>8 DEF GivenUpAlike
<1>14. OpenedIsRow'
  BY <1>1, <1>3, <1>5, <1>7 DEF OpenedIsRow
<1>q. QED BY <1>9, <1>10, <1>11, <1>12, <1>13, <1>14 DEF TextInv

\* A step that changes nothing but requests, dates and what is on its way.
LEMMA QuietStep ==
    ASSUME TextInv, TypeOK', SameQueue(engine, engine'),
           UNCHANGED <<phase, disk, dirty, direct, work, shown, seen, stored, lost>>
    PROVE  TextInv'
<1>1. /\ engine'.keys = engine.keys /\ engine'.rev = engine.rev
      /\ engine'.waiting = engine.waiting /\ engine'.acks = engine.acks
      /\ engine'.used = engine.used
  BY DEF SameQueue
<1>2. /\ Taken' = Taken /\ Rows' = Rows /\ InQueue' = InQueue
      /\ (Member(engine') <=> Member(engine))
      /\ (WrittenWithout' <=> WrittenWithout)
      /\ (work.got)' = work.got
  BY <1>1 DEF Taken, Rows, InQueue, Member, WrittenWithout
<1>3. \A m : Covers(engine', Rows, m) <=> Covers(engine, Rows, m)
  BY <1>1, <1>2 DEF Covers, GivenUp, KeysOf
<1>4. Ordered'
  BY <1>1 DEF TextInv, Ordered
<1>5. MemoryKeeps'
  BY <1>2, <1>3 DEF TextInv, MemoryKeeps
<1>6. StoreKeeps'
  BY <1>1, <1>2 DEF TextInv, StoreKeeps
<1>7. SavedIsKept'
  BY <1>2 DEF TextInv, SavedIsKept
<1>8. GivenUpAlike'
  BY <1>1, <1>2 DEF TextInv, GivenUpAlike
<1>9. OpenedIsRow'
  BY <1>1, <1>2 DEF TextInv, OpenedIsRow
<1>q. QED BY <1>4, <1>5, <1>6, <1>7, <1>8, <1>9 DEF TextInv

LEMMA StepKeepsTexts ==
    ASSUME TextInv, [Next]_vars
    PROVE  TextInv'
<1>t. TypeOK /\ TypeOK'
  BY StepTypes DEF TextInv
<1>e. engine \in Engines /\ disk \in Engines
  BY <1>t, TypesOfEngines
<1>1. ASSUME NEW m \in Messages, ReceiveAskFails(m)
      PROVE  TextInv'
  <2>1. /\ phase' = "open" /\ work' = work /\ phase \in {"idle", "open"}
        /\ engine' = NotAsked(engine, RepairFor(engine, m))
        /\ UNCHANGED <<disk, dirty, direct, shown, seen, stored, lost>>
    BY <1>1 DEF ReceiveAskFails, InBatch
  <2>2. SameQueue(engine, engine')
    BY <1>1, <1>e, <2>1, RepairForTypes, NotAskedTypes DEF ReceiveAskFails
  <2>3. /\ engine'.keys = engine.keys /\ engine'.rev = engine.rev
        /\ engine'.waiting = engine.waiting /\ engine'.acks = engine.acks
        /\ engine'.used = engine.used /\ Rows' = Rows
        /\ (Member(engine') <=> Member(engine)) /\ work' = NoWork
    BY <2>1, <2>2, AtRest DEF SameQueue, Rows, Member
  <2>4. Writes(engine', FALSE)
    BY <1>t, <2>1 DEF Writes, TypeOK
  <2>5. \A n \in seen' : Covers(engine', Rows', n)
    <3>1. \A n \in seen : Covers(engine, Rows, n)
      BY <2>1, AtRest
    <3>q. QED BY <2>1, <2>3, <3>1, CoversGrows
  <2>6. \A n \in seen' \cup engine'.waiting : dirty \/ Covers(disk, Rows', n)
    BY <2>1, <2>3, AtRest
  <2>7. ~dirty => /\ engine'.acks \subseteq disk.acks
                  /\ Member(disk) => Member(engine')
    BY <2>1, <2>3, AtRest
  <2>8. /\ \A n \in engine'.used : n \in Rows' \/ NonText(n)
        /\ \A n \in disk.used : n \in Rows' \/ NonText(n)
    BY <2>1, <2>3, AtRest
  <2>q. QED BY <1>t, <2>1, <2>3, <2>4, <2>5, <2>6, <2>7, <2>8, OpenStep
<1>2. ASSUME NEW m \in Messages, Copy(m)
      PROVE  TextInv'
  <2>1. /\ phase' = "open" /\ work' = work /\ phase \in {"idle", "open"}
        /\ engine' = Acknowledged(engine, {m}) /\ shown' = shown \cup {m}
        /\ Writes(engine', TRUE)
        /\ UNCHANGED <<direct, seen, stored, lost>>
    BY <1>2 DEF Copy, InBatch
  <2>2. /\ engine'.keys = engine.keys /\ engine'.rev = engine.rev /\ engine'.used = engine.used
        /\ engine'.waiting \subseteq engine.waiting /\ engine.acks \subseteq engine'.acks
        /\ \A n \in engine.waiting \ engine'.waiting : <<Sender(n), Time[n]>> \in engine'.acks
    BY <1>e, <2>1, AcknowledgedTypes
  <2>3. /\ Rows' = Rows \cup {m} /\ (Member(engine') <=> Member(engine)) /\ work' = NoWork
    BY <2>1, <2>2, AtRest DEF Rows, Member
  <2>4. \A n \in seen' : Covers(engine', Rows', n)
    <3> SUFFICES ASSUME NEW n \in seen
                 PROVE  Covers(engine', Rows', n)
      BY <2>1
    <3>1. Covers(engine, Rows, n)
      BY <2>1, AtRest
    <3>2. n \in engine.waiting => n \in engine'.waiting \cup Rows' \/ GivenUp(engine', n)
      BY <2>2 DEF GivenUp
    <3>q. QED BY <2>2, <2>3, <3>1, <3>2, CoversGrows
  <2>5. \A n \in engine'.used : n \in Rows' \/ NonText(n)
    BY <2>1, <2>2, <2>3, AtRest
  <2>6. TRUE \in BOOLEAN /\ seen \subseteq seen' /\ Rows \subseteq Rows' /\ phase # "down"
    BY <2>1, <2>3
  <2>q. QED BY <1>t, <2>1, <2>3, <2>4, <2>5, <2>6, OpenStep
<1>3. ASSUME NEW m \in Messages, TryBreaks(m)
      PROVE  TextInv'
  <2>1. phase = "retry" /\ Member(engine) /\ engine.waiting = {}
    BY <1>3 DEF TryBreaks, Tried, TextInv, Ordered
  <2>2. CASE Breaks(engine)
    BY <1>t, <1>e, <2>1, <2>2, BreakStep
  <2>3. CASE Pending(engine, m) /\ Breaks(NotAsked(engine, RepairFor(engine, m)))
    <3> DEFINE e == NotAsked(engine, RepairFor(engine, m))
    <3>1. e \in Engines /\ SameQueue(engine, e)
      BY <1>e, <2>3, RepairForTypes, NotAskedTypes
    <3>2. Breaks(e)
      BY <2>3
    <3> HIDE DEF e
    <3>q. QED BY <1>t, <2>1, <3>1, <3>2, BreakStep DEF SameQueue
  <2>q. QED BY <1>3, <2>2, <2>3 DEF TryBreaks
<1>4. ASSUME NEW D \in SUBSET Due(engine), RetryEndBreaks(D)
      PROVE  TextInv'
  <2> DEFINE p == PutBack
             e == [p EXCEPT !.asked = @ \cup D]
  <2>1. /\ p \in Engines
        /\ p.keys = engine.keys /\ p.rev = engine.rev
        /\ p.waiting = work.keep /\ p.acks = engine.acks /\ p.used = engine.used
    BY <1>t, PutBackTypes
  <2>2. phase = "retry" /\ Member(engine) /\ Breaks(e) /\ D \subseteq Due(p)
    BY <1>4 DEF RetryEndBreaks
  <2> HIDE DEF p
  <2>3. /\ e \in Engines /\ e.keys = p.keys /\ e.rev = p.rev /\ e.used = p.used
        /\ e.waiting = p.waiting /\ e.acks = p.acks
    BY <2>1, <2>2 DEF Due, Engines, EngineType
  <2> HIDE DEF e
  <2>4. e.waiting \subseteq InQueue
    BY <2>1, <2>3 DEF InQueue
  <2>q. QED BY <1>t, <2>1, <2>2, <2>3, <2>4, BreakStep
<1>5. ASSUME NEW k \in Keys, Distribution(k)
      PROVE  TextInv'
  <2>0. phase \in {"idle", "open"} /\ UNCHANGED <<direct, shown, seen, stored, lost>>
    BY <1>5 DEF Distribution, InBatch
  <2>1. CASE engine.rev = 0
    <3>1. /\ engine' = [engine EXCEPT !.inputs = @ \cup {k}]
          /\ phase' = "open" /\ Writes(engine', TRUE) /\ work' = work
      BY <1>5, <2>1 DEF Distribution
    <3>2. /\ engine'.keys = engine.keys /\ engine'.rev = engine.rev
          /\ engine'.used = engine.used /\ engine'.acks = engine.acks
          /\ engine'.waiting = engine.waiting
      BY <1>e, <3>1 DEF Engines, EngineType
    <3>3. Rows' = Rows /\ (Member(engine') <=> Member(engine)) /\ work' = NoWork
      BY <2>0, <3>1, <3>2, AtRest DEF Rows, Member
    <3>4. \A n \in seen' : Covers(engine', Rows', n)
      <4>1. \A n \in seen : Covers(engine, Rows, n)
        BY <2>0, AtRest
      <4>q. QED BY <2>0, <3>2, <3>3, <4>1, CoversGrows
    <3>5. \A n \in engine'.used : n \in Rows' \/ NonText(n)
      BY <2>0, <3>2, <3>3, AtRest
    <3>6. TRUE \in BOOLEAN /\ seen \subseteq seen' /\ Rows \subseteq Rows' /\ phase # "down"
      BY <2>0, <3>3
    <3>q. QED BY <1>t, <2>0, <3>1, <3>3, <3>4, <3>5, <3>6, OpenStep
  <2>2. CASE engine.rev # 0
    <3> DEFINE e == [engine EXCEPT !.keys = @ \cup {k}]
    <3>1. /\ e \in Engines /\ e.waiting = engine.waiting /\ e.acks = engine.acks
          /\ e.used = engine.used /\ engine.keys \subseteq e.keys /\ e.rev = engine.rev
      BY <1>e DEF Engines, EngineType
    <3>2. Begin(e, NoMessage, {}, TRUE) /\ Writes(engine, TRUE)
      BY <1>5, <2>2 DEF Distribution
    <3> HIDE DEF e
    <3>3. (Member(e) => Member(engine)) /\ TRUE \in BOOLEAN
      BY <3>1 DEF Member
    <3>q. QED BY <1>t, <2>0, <3>1, <3>2, <3>3, ArrivalStep
  <2>q. QED BY <2>1, <2>2
<1>6. ASSUME NEW r \in 1 .. Revisions, Metadata(r)
      PROVE  TextInv'
  <2> DEFINE e == [engine EXCEPT !.rev = r, !.keys = @ \cup engine.inputs, !.inputs = {}]
  <2>0. /\ phase \in {"idle", "open"} /\ UNCHANGED <<direct, shown, seen, stored, lost>>
        /\ r > engine.rev
    BY <1>6 DEF Metadata, InBatch
  <2>a. r \in 0 .. Revisions /\ engine.keys \cup engine.inputs \subseteq Keys
    BY <1>e, MessageAssumption DEF Engines, EngineType
  <2>1. /\ e \in Engines /\ e.waiting = engine.waiting /\ e.acks = engine.acks
        /\ e.used = engine.used /\ engine.keys \subseteq e.keys /\ e.rev = r
    BY <1>e, <2>a DEF Engines, EngineType
  <2>2. Begin(e, NoMessage, {}, TRUE) /\ Writes(engine, TRUE)
    BY <1>6 DEF Metadata
  <2> HIDE DEF e
  <2>3. engine.rev \in Nat /\ r \in Nat /\ MemberUntil \in Nat
    BY <1>e, MessageAssumption DEF Engines, EngineType
  <2>4. (Member(e) => Member(engine)) /\ TRUE \in BOOLEAN
    BY <2>0, <2>1, <2>3 DEF Member
  <2>q. QED BY <1>t, <2>0, <2>1, <2>2, <2>4, ArrivalStep
<1>7. ASSUME Retry
      PROVE  TextInv'
  <2>1. /\ phase \in {"idle", "open"} /\ Begin(engine, NoMessage, {}, FALSE)
        /\ UNCHANGED <<disk, dirty, direct, shown, seen, stored, lost>>
    BY <1>7 DEF Retry, InBatch
  <2>2. Writes(engine, FALSE) /\ FALSE \in BOOLEAN
    BY <1>t, <2>1 DEF Writes, TypeOK
  <2>q. QED BY <1>t, <1>e, <2>1, <2>2, ArrivalStep
<1>8. ASSUME NEW R \in SUBSET engine.asked, RequestsAge(R)
      PROVE  TextInv'
  <2>1. /\ engine' = [engine EXCEPT !.asked = @ \ R]
        /\ UNCHANGED <<phase, disk, dirty, direct, work, shown, seen, stored, lost>>
    BY <1>8 DEF RequestsAge
  <2>2. SameQueue(engine, engine')
    BY <1>e, <2>1 DEF Engines, EngineType, SameQueue
  <2>q. QED BY <1>t, <2>1, <2>2, QuietStep
<1>9. ASSUME \/ \E r \in Repairs : ThrottleEnds(r)
             \/ \E r \in Repairs, arrives \in BOOLEAN : Answer(r, arrives)
             \/ UNCHANGED vars
      PROVE  TextInv'
  <2>1. UNCHANGED <<phase, engine, disk, dirty, direct, work, shown, seen, stored, lost>>
    BY <1>9 DEF ThrottleEnds, Answer, vars
  <2>2. SameQueue(engine, engine')
    BY <2>1 DEF SameQueue
  <2>q. QED BY <1>t, <2>1, <2>2, QuietStep
<1>q. QED
  BY <1>t, <1>1, <1>2, <1>3, <1>4, <1>5, <1>6, <1>7, <1>8, <1>9, UnmappedStep, PendingStep,
     HandledStep, TryStep, RetryEndStep, FlushStep, SaveStep, CrashStep, RestartStep
     DEF Next, Receive, Deliver, RetryStep

LEMMA TextInvMeans == ASSUME TextInv PROVE TextsAreKept
<1>1. SeenIsKept
  <2> SUFFICES ASSUME NEW m \in stored
               PROVE  \/ m \in shown \cup disk.waiting \cup lost \cup InHand
                      \/ Content[m] # "text" \/ GivenUp(disk, m)
    BY DEF SeenIsKept
  <2>1. Covers(disk, Rows, m) \/ m \in InHand
    <3>1. CASE ~direct
      BY <3>1 DEF TextInv, SavedIsKept
    <3>2. CASE direct
      <4>1. m \in Taken /\ ~dirty
        BY <3>2 DEF TextInv, Ordered, Taken
      <4>2. Covers(disk, Rows, m) \/ m \in work.got \/ m \in InQueue
        BY <4>1 DEF TextInv, StoreKeeps
      <4>q. QED BY <3>2, <4>2 DEF InHand, InQueue
    <3>q. QED BY <3>1, <3>2
  <2>q. QED BY <2>1 DEF Covers, Rows, NonText
<1>2. OpenedIsShown
  BY DEF TextInv, OpenedIsRow, OpenedIsShown, Rows, InHand, NonText
<1>q. QED BY <1>1, <1>2 DEF TextsAreKept

\* A text that has been saved as seen is a row of the chat, or waits in the stored
\* engine, or is in the hands of a retry, or has been given up for a reason the
\* code names, or fell to an error or to the end of the process in a retry; and a
\* text that the stored engine has opened is not lost in any other way.
THEOREM TextsKept == Spec => []TextsAreKept
<1>1. Init => TextInv
  BY TextInit
<1>2. TextInv /\ [Next]_vars => TextInv'
  BY StepKeepsTexts
<1>3. TextInv => TextsAreKept
  BY TextInvMeans
<1>q. QED BY <1>1, <1>2, <1>3, PTL DEF Spec
=============================================================================
