-------------------------- MODULE ChatThreadProofs --------------------------
(* Theorems about ChatThread, for any messages, expiry times and bounds.   *)
EXTENDS ChatThread, FiniteSetTheorems, WellFoundedInduction, TLAPS

-----------------------------------------------------------------------------
(* Lemmas about the operators.                                             *)

LEMMA Minimum ==
    ASSUME NEW T, T \subseteq Nat, T # {}
    PROVE  \E x \in T : \A y \in T : x <= y
  <1> DEFINE R == {ss \in Nat \X Nat : ss[1] < ss[2]}
  <1>1. IsWellFoundedOn(R, Nat)
    <2>1. R = OpToRel(<, Nat)
      BY DEF OpToRel
    <2> QED
      BY <2>1, NatLessThanWellFounded
  <1>2. PICK x \in T : \A y \in T : <<y, x>> \notin R
    <2> HIDE DEF R
    <2> QED
      BY <1>1, WFMin
  <1>3. \A y \in T : x <= y
    <2> TAKE y \in T
    <2>1. x \in Nat /\ y \in Nat
      OBVIOUS
    <2>2. y < x => <<y, x>> \in R
      BY <2>1
    <2> QED
      BY <1>2, <2>1, <2>2
  <1> QED
    BY <1>3

\* The alarm is set for the first of the messages that expire later.
LEMMA NextAlarmIsFirst ==
    ASSUME NEW a, NEW t, now \in Nat
    PROVE  /\ NextAlarm(a, t) \in Nat
           /\ \A m \in Rows : (a.rows[m] # "none" \/ t.rows[m] # "none") /\ Expiry[m] > now
                  => NextAlarm(a, t) # 0 /\ NextAlarm(a, t) <= Expiry[m]
  <1> DEFINE there == {n \in Rows : a.rows[n] # "none" \/ t.rows[n] # "none"}
             later == {Expiry[m] : m \in there} \ 0 .. now
             first == CHOOSE x \in later : \A y \in later : x <= y
  <1>1. later \subseteq Nat /\ \A x \in later : x > now
    BY ChatAssumption
  <1>2. \A m \in there : Expiry[m] > now => Expiry[m] \in later
    BY ChatAssumption
  <1>3. NextAlarm(a, t) = IF later = {} THEN 0 ELSE first
    BY DEF NextAlarm
  <1> HIDE DEF later
  <1>4. later # {} => first \in later /\ \A y \in later : first <= y
    BY <1>1, Minimum
  <1> HIDE DEF first
  <1>5. NextAlarm(a, t) \in Nat
    <2>1. CASE later = {}
      BY <2>1, <1>3
    <2>2. CASE later # {}
      <3>1. first \in Nat
        BY <2>2, <1>1, <1>4
      <3> QED
        BY <2>2, <3>1, <1>3
    <2> QED
      BY <2>1, <2>2
  <1>6. ASSUME NEW m \in there, Expiry[m] > now
        PROVE  NextAlarm(a, t) # 0 /\ NextAlarm(a, t) <= Expiry[m]
    <2>1. Expiry[m] \in later
      BY <1>2, <1>6
    <2>2. NextAlarm(a, t) = first /\ first \in later /\ first <= Expiry[m]
      BY <2>1, <1>3, <1>4
    <2>3. first \in Nat /\ first > now
      BY <2>2, <1>1
    <2> QED
      BY <2>2, <2>3
  <1> QED
    BY <1>5, <1>6

\* Types of the parts of a chat.
LEMMA ChatParts ==
    ASSUME NEW a \in AppType
    PROVE  /\ \A r \in [Rows -> Statuses \cup {"none"}] : [a EXCEPT !.rows = r] \in AppType
           /\ \A u \in Nat : [a EXCEPT !.unread = u] \in AppType
           /\ a.rows \in [Rows -> Statuses \cup {"none"}] /\ a.unread \in Nat
  BY DEF AppType

LEMMA RowsParts ==
    ASSUME NEW r \in [Rows -> Statuses \cup {"none"}]
    PROVE  /\ \A m \in Rows, s \in Statuses : [r EXCEPT ![m] = s] \in [Rows -> Statuses \cup {"none"}]
           /\ \A m \in Rows, s \in Statuses : Advanced(r, m, s) \in [Rows -> Statuses \cup {"none"}]
           /\ \A M : Without(r, M) \in [Rows -> Statuses \cup {"none"}]
           /\ \A M : Settled(r, M) \in [Rows -> Statuses \cup {"none"}]
  BY DEF Advanced, Without, Settled, Statuses

LEMMA Counts ==
    ASSUME NEW S \in SUBSET Rows
    PROVE  IsFiniteSet(S) /\ Cardinality(S) \in Nat
  BY ChatAssumption, FS_Subset, FS_CardinalityType

-----------------------------------------------------------------------------
(* Types.                                                                  *)

\* What NoReceipts, NoOutbox, NotRead and ReadNow leave of the types.
LEMMA Quiet ==
    ASSUME ChatTypeOK
    PROVE  /\ NoReceipts => /\ pending' \subseteq Theirs
                            /\ flush' \in [set : BOOLEAN, waits : BOOLEAN]
                            /\ leaving' \subseteq Receipts /\ gone' \subseteq Receipts
           /\ NoOutbox => owed' \subseteq Mine /\ out' \subseteq Mine \cup Linked
           /\ NotRead \/ ReadNow => blurred' \in BOOLEAN /\ fresh' \subseteq Theirs
  BY DEF ChatTypeOK, NoReceipts, NoOutbox, NotRead, ReadNow

LEMMA TypesInit == ChatInit => ChatTypeOK
  <1> SUFFICES ASSUME ChatInit PROVE ChatTypeOK
    OBVIOUS
  <1>1. chat \in AppType /\ table \in AppType
    BY DEF ChatInit, AppType, Nothing
  <1> QED
    BY <1>1 DEF ChatInit, ChatTypeOK, Steps

\* Actions of the user and events count as inputs.
LEMMA InputTypes ==
    ASSUME ChatTypeOK
    PROVE  /\ InAction => step' \in Steps /\ inputs' \in Nat
           /\ InEvents => step' \in Steps
           /\ Input => inputs' \in Nat
  BY DEF InAction, InEvents, Input, ChatTypeOK, Steps

LEMMA TypesReceiveMessage ==
    ASSUME ChatTypeOK, NEW m \in Rows, NEW kind \in {"message", "again"}, ReceiveMessage(m, kind)
    PROVE  ChatTypeOK'
  <1> DEFINE new == m \notin Loaded \cup Stored
             a == IF new THEN Inserted(m) ELSE chat
  <1>1. a \in AppType /\ Previewed(a, m) \in AppType
    <2>1. \A r \in [Rows -> Statuses \cup {"none"}] :
              [r EXCEPT ![m] = "received"] \in [Rows -> Statuses \cup {"none"}]
      BY RowsParts DEF Statuses
    <2>2. Inserted(m) \in AppType
      <3>1. \A u \in Nat : [chat EXCEPT !.rows[m] = "received", !.unread = u] \in AppType
        BY <2>1 DEF ChatTypeOK, AppType
      <3>2. chat.unread \in Nat /\ chat.unread + 1 \in Nat
        BY DEF ChatTypeOK, AppType
      <3>3. Inserted(m) = [chat EXCEPT !.rows[m] = "received",
                                       !.unread = IF chat.open THEN chat.unread ELSE chat.unread + 1]
        BY DEF Inserted
      <3> QED
        BY <3>1, <3>2, <3>3
    <2>3. a \in AppType
      BY <2>2 DEF ChatTypeOK
    <2>4. \A u \in Nat : [table EXCEPT !.rows[m] = "received", !.unread = u] \in AppType
      BY <2>1 DEF ChatTypeOK, AppType
    <2> QED
      BY <2>3, <2>4 DEF Previewed, AppType
  <1>2. Arrival(m, kind) \in Inner
    BY DEF Arrival, Inner
  <1>3. chat' = [a EXCEPT !.seen = @ \cup {Arrival(m, kind)}]
        /\ table' = IF new THEN Previewed(a, m) ELSE table
    BY DEF ReceiveMessage
  <1>4. m \in Theirs /\ inputs' \in Nat /\ step' \in Steps
    BY DEF ReceiveMessage, Input, InEvents, ChatTypeOK, Steps
  <1>5. alarm' \in Nat
    BY NextAlarmIsFirst DEF ReceiveMessage, ChatTypeOK
  <1>6. flush' \in [set : BOOLEAN, waits : BOOLEAN]
    BY DEF ReceiveMessage, Armed, ChatTypeOK
  <1> HIDE DEF a, new
  <1>7. chat' \in AppType /\ table' \in AppType
    BY <1>1, <1>2, <1>3 DEF ChatTypeOK, AppType
  <1>8. pending' \subseteq Theirs /\ fresh' \subseteq Theirs /\ overdue' \subseteq Rows
    BY <1>4 DEF ReceiveMessage, ChatTypeOK
  <1> QED
    BY <1>4, <1>5, <1>6, <1>7, <1>8 DEF ReceiveMessage, ChatTypeOK, NoOutbox

LEMMA TypesLinked ==
    ASSUME ChatTypeOK, NEW m \in Rows, ReceiveLinked(m)
    PROVE  ChatTypeOK'
  <1>1. Arrival(m, "message") \in Inner
    BY DEF Arrival, Inner
  <1>2. chat' \in AppType
    BY <1>1 DEF ReceiveLinked, ChatTypeOK, AppType, Statuses
  <1>3. alarm' \in Nat
    BY NextAlarmIsFirst DEF ReceiveLinked, ChatTypeOK
  <1> QED
    BY <1>2, <1>3, Quiet DEF ReceiveLinked, ChatTypeOK, Input, InEvents, Steps

LEMMA TypesReceipts ==
    ASSUME ChatTypeOK, NEW m \in Rows,
           ReceiveRead(m) \/ \E status \in {"received", "seen"} : ReceiveReceipt(m, status)
    PROVE  ChatTypeOK'
  <1>1. \A kind \in {"read", "received", "seen"} : Arrival(m, kind) \in Inner
    BY DEF Arrival, Inner
  <1>2. CASE ReceiveRead(m)
    <2>1. Advanced(chat.rows, m, "seen") \in [Rows -> Statuses \cup {"none"}]
      BY RowsParts DEF ChatTypeOK, AppType, Statuses
    <2>2. chat' \in AppType
      BY <1>1, <1>2, <2>1 DEF ReceiveRead, ChatTypeOK, AppType
    <2> QED
      BY <1>2, <2>2, Quiet DEF ReceiveRead, ChatTypeOK, Input, InEvents, Steps
  <1>3. ASSUME NEW status \in {"received", "seen"}, ReceiveReceipt(m, status)
        PROVE  ChatTypeOK'
    <2>1. Advanced(chat.rows, m, status) \in [Rows -> Statuses \cup {"none"}]
      BY RowsParts DEF ChatTypeOK, AppType, Statuses
    <2>2. chat' = [chat EXCEPT !.rows = Advanced(@, m, status), !.seen = @ \cup {Arrival(m, status)}]
          /\ Arrival(m, status) \in Inner
      BY <1>1, <1>3 DEF ReceiveReceipt
    <2>3. chat' \in AppType
      BY <2>1, <2>2 DEF ChatTypeOK, AppType
    <2> QED
      BY <1>3, <2>3, Quiet DEF ReceiveReceipt, ChatTypeOK, Input, InEvents, Steps
  <1> QED
    BY <1>2, <1>3

LEMMA TypesUser ==
    ASSUME ChatTypeOK,
           \/ \E m \in Rows : SendMessage(m) \/ DeleteMessage(m)
           \/ \E M \in SUBSET Theirs : MarkSeen(M)
           \/ \E mark \in BOOLEAN : SetUnread(mark)
           \/ OpenChat \/ LeaveChat \/ Accept \/ SetReceipts \/ DeleteChat
    PROVE  ChatTypeOK'
  <1>1. ASSUME NEW m \in Rows, SendMessage(m)
        PROVE  ChatTypeOK'
    <2>1. chat' \in AppType
      BY <1>1 DEF SendMessage, ChatTypeOK, AppType, Statuses
    <2>2. alarm' \in Nat
      BY <1>1, NextAlarmIsFirst DEF SendMessage, ChatTypeOK
    <2>5. step' \in Steps /\ inputs' \in Nat
      BY <1>1, InputTypes DEF SendMessage
    <2> QED
      BY <1>1, <2>1, <2>2, <2>5, Quiet, InputTypes DEF SendMessage, ChatTypeOK
  <1>2. ASSUME NEW m \in Rows, DeleteMessage(m)
        PROVE  ChatTypeOK'
    <2>1. \A r \in [Rows -> Statuses \cup {"none"}] : Without(r, {m}) \in [Rows -> Statuses \cup {"none"}]
      BY RowsParts
    <2>2. chat' \in AppType /\ table' \in AppType
      BY <1>2, <2>1 DEF DeleteMessage, ChatTypeOK, AppType
    <2>3. gone' \subseteq Receipts /\ overdue' \subseteq Rows
      BY <1>2 DEF DeleteMessage, Forgets, ChatTypeOK
    <2>4. blurred' \in BOOLEAN /\ fresh' \subseteq Theirs
      BY <1>2 DEF DeleteMessage, ReadNow, ChatTypeOK
    <2>5. step' \in Steps /\ inputs' \in Nat /\ NoOutbox
      BY <1>2, InputTypes DEF DeleteMessage
    <2> QED
      BY <1>2, <2>2, <2>3, <2>4, <2>5, Quiet DEF DeleteMessage, ChatTypeOK
  <1>3. ASSUME NEW M \in SUBSET Theirs, MarkSeen(M)
        PROVE  ChatTypeOK'
    <2>1. chat' \in AppType
      BY <1>3 DEF MarkSeen, ChatTypeOK, AppType, Statuses
    <2>2. leaving' \subseteq Receipts
      <3>1. leaving' \subseteq {<<"seen", m>> : m \in Theirs}
        BY <1>3 DEF MarkSeen
      <3> QED
        BY <3>1 DEF Receipts
    <2>3. pending' \subseteq Theirs /\ flush' \in [set : BOOLEAN, waits : BOOLEAN]
      BY <1>3 DEF MarkSeen, Cancelled, ChatTypeOK
    <2>5. step' \in Steps /\ inputs' \in Nat
      BY <1>3, InputTypes DEF MarkSeen
    <2> QED
      BY <1>3, <2>1, <2>2, <2>3, <2>5, Quiet, InputTypes DEF MarkSeen, ChatTypeOK
  <1>4. ASSUME NEW mark \in BOOLEAN, SetUnread(mark)
        PROVE  ChatTypeOK'
    <2>1. chat' \in AppType
      BY <1>4 DEF SetUnread, ChatTypeOK, AppType
    <2> QED
      BY <1>4, <2>1, Quiet DEF SetUnread, ChatTypeOK, Input, InAction, Steps
  <1>5. CASE OpenChat
    <2>1. chat' \in AppType
      BY <1>5 DEF OpenChat, ChatTypeOK, AppType
    <2> QED
      BY <1>5, <2>1, Quiet DEF OpenChat, ChatTypeOK, Input, InAction, Steps
  <1>6. CASE LeaveChat \/ Accept \/ SetReceipts
    <2>1. chat' \in AppType
      BY <1>6 DEF LeaveChat, Accept, SetReceipts, ChatTypeOK, AppType
    <2>2. step' \in Steps /\ inputs' \in Nat /\ NoReceipts /\ NoOutbox /\ NotRead
      BY <1>6, InputTypes DEF LeaveChat, Accept, SetReceipts
    <2>3. unsaved' = TRUE /\ UNCHANGED <<now, table, opening, alarm, overdue, ends>>
      BY <1>6 DEF LeaveChat, Accept, SetReceipts
    <2> QED
      BY <2>1, <2>2, <2>3, Quiet DEF ChatTypeOK
  <1>7. CASE DeleteChat
    <2>1. chat' \in AppType /\ table' \in AppType
      BY <1>7 DEF DeleteChat, Nothing, ChatTypeOK, AppType
    <2>2. gone' \subseteq Receipts /\ overdue' \subseteq Rows
      BY <1>7 DEF DeleteChat, Forgets, ChatTypeOK
    <2> QED
      BY <1>7, <2>1, <2>2, Quiet DEF DeleteChat, ChatTypeOK, Input, InAction, Steps
  <1> QED
    BY <1>1, <1>2, <1>3, <1>4, <1>5, <1>6, <1>7

LEMMA TypesPrune ==
    ASSUME ChatTypeOK, Prune
    PROVE  /\ chat' \in AppType /\ table' \in AppType /\ alarm' \in Nat
           /\ fresh' \subseteq Theirs /\ blurred' \in BOOLEAN
           /\ gone' \subseteq Receipts /\ overdue' \subseteq Rows
  <1> DEFINE M == {m \in Rows : Expired(m)}
             over == M \cap Loaded \cap Theirs
  <1>1. Cardinality(over) \in Nat
    BY Counts
  <1>2. Minus(chat.unread, Cardinality(over)) \in Nat
    BY <1>1 DEF Minus, ChatTypeOK, AppType
  <1>3. Without(chat.rows, M) \in [Rows -> Statuses \cup {"none"}]
        /\ Without(table.rows, M) \in [Rows -> Statuses \cup {"none"}]
    BY RowsParts DEF ChatTypeOK, AppType
  <1>4. /\ chat' = [chat EXCEPT !.rows = Without(@, M), !.unread = Minus(@, Cardinality(over))]
        /\ table' = [table EXCEPT !.rows = Without(@, M)]
        /\ alarm' = NextAlarm(chat', table')
        /\ fresh' = fresh \ M
        /\ blurred' = (blurred \/ ~(over \subseteq fresh))
        /\ Forgets(M)
    BY DEF Prune
  <1> HIDE DEF M, over
  <1>5. chat' \in AppType /\ table' \in AppType
    BY <1>2, <1>3, <1>4 DEF ChatTypeOK, AppType
  <1>6. alarm' \in Nat
    BY <1>4, NextAlarmIsFirst DEF ChatTypeOK
  <1> QED
    BY <1>4, <1>5, <1>6 DEF ChatTypeOK, Forgets

LEMMA TypesTimers ==
    ASSUME ChatTypeOK, FlushFires \/ AlarmRings \/ OpenFinalized \/ Tick
    PROVE  ChatTypeOK'
  <1>1. CASE FlushFires
    <2>1. leaving' \subseteq Receipts /\ pending' \subseteq Theirs
      BY <1>1 DEF FlushFires, ChatTypeOK, Receipts
    <2>2. flush' \in [set : BOOLEAN, waits : BOOLEAN]
      <3>1. flush' = Armed(pending', [set |-> FALSE, waits |-> FALSE])
        BY <1>1 DEF FlushFires
      <3> QED
        BY <3>1 DEF Armed
    <2> QED
      BY <1>1, <2>1, <2>2, Quiet DEF FlushFires, ChatTypeOK, InEvents, Steps
  <1>2. CASE AlarmRings
    BY <1>2, TypesPrune, Quiet DEF AlarmRings, ChatTypeOK, InEvents, Steps
  <1>3. CASE OpenFinalized
    <2>1. CASE chat.open
      BY <1>3, <2>1, TypesPrune, Quiet DEF OpenFinalized, ChatTypeOK, InEvents, Steps
    <2>2. CASE ~chat.open
      BY <1>3, <2>2, Quiet DEF OpenFinalized, ChatTypeOK, InEvents, Steps
    <2> QED
      BY <2>1, <2>2
  <1>4. CASE Tick
    BY <1>4, Quiet DEF Tick, ChatTypeOK
  <1> QED
    BY <1>1, <1>2, <1>3, <1>4

LEMMA TypesPublish ==
    ASSUME ChatTypeOK, NEW m \in Rows, PublishSucceeds(m) \/ PublishFails(m)
    PROVE  ChatTypeOK'
  <1>1. CASE PublishSucceeds(m)
    <2>1. Settled(chat.rows, owed') \in [Rows -> Statuses \cup {"none"}]
      BY RowsParts DEF ChatTypeOK, AppType
    <2>2. chat' \in AppType
      BY <1>1, <2>1 DEF PublishSucceeds, ChatTypeOK, AppType
    <2> QED
      BY <1>1, <2>2, Quiet DEF PublishSucceeds, ChatTypeOK, InEvents, Steps
  <1>2. CASE PublishFails(m)
    <2>1. chat' \in AppType
      BY <1>2 DEF PublishFails, ChatTypeOK, AppType, Statuses
    <2>2. owed' \subseteq Mine /\ out' \subseteq Mine \cup Linked
      BY <1>2 DEF PublishFails, ChatTypeOK
    <2> QED
      BY <1>2, <2>1, <2>2, Quiet DEF PublishFails, ChatTypeOK, InEvents, Steps
  <1> QED
    BY <1>1, <1>2

LEMMA TypesProcess ==
    ASSUME ChatTypeOK, EndBatch \/ ReceiptsLeave \/ EndProcess \/ StartProcess
    PROVE  ChatTypeOK'
  <1>1. CASE EndBatch
    <2>1. table' \in AppType
      BY <1>1 DEF EndBatch, ChatTypeOK, AppType
    <2> QED
      BY <1>1, <2>1, Quiet DEF EndBatch, ChatTypeOK, Steps
  <1>2. CASE ReceiptsLeave
    BY <1>2, Quiet DEF ReceiptsLeave, ChatTypeOK, Steps
  <1>3. CASE EndProcess
    <2>1. step' \in Steps /\ ends' \in Nat /\ chat' \in AppType
      BY <1>3 DEF EndProcess, ChatTypeOK, Steps
    <2>2. flush' \in [set : BOOLEAN, waits : BOOLEAN]
      BY <1>3 DEF EndProcess
    <2> QED
      BY <1>3, <2>1, <2>2, Quiet DEF EndProcess, ChatTypeOK
  <1>4. CASE StartProcess
    <2> DEFINE M == {m \in Rows : Expired(m)}
               kept == Stored \ M
               newest == {m \in kept : \A n \in kept : Written[n] <= Written[m]}
               old == IF table.open THEN {} ELSE kept \ newest
    <2>1. /\ table' = [table EXCEPT !.rows = Without(@, M)]
          /\ chat' = [table' EXCEPT !.rows = Without(@, old)]
          /\ fresh' = fresh \ M /\ Forgets(M)
      BY <1>4 DEF StartProcess
    <2> HIDE DEF M, old
    <2>2. Without(table.rows, M) \in [Rows -> Statuses \cup {"none"}]
      BY RowsParts DEF ChatTypeOK, AppType
    <2>3. table' \in AppType
      BY <2>1, <2>2 DEF ChatTypeOK, AppType
    <2>4. Without(table'.rows, old) \in [Rows -> Statuses \cup {"none"}]
      BY <2>3, RowsParts DEF AppType
    <2>5. chat' \in AppType
      BY <2>1, <2>3, <2>4 DEF AppType
    <2>6. alarm' \in Nat
      BY <1>4, NextAlarmIsFirst DEF StartProcess, ChatTypeOK
    <2>7. fresh' \subseteq Theirs /\ gone' \subseteq Receipts /\ overdue' \subseteq Rows
      BY <2>1 DEF Forgets, ChatTypeOK
    <2> QED
      BY <1>4, <2>3, <2>5, <2>6, <2>7, Quiet DEF StartProcess, ChatTypeOK, Steps
  <1> QED
    BY <1>1, <1>2, <1>3, <1>4

LEMMA TypesNext == ChatTypeOK /\ [ChatNext]_chatVars => ChatTypeOK'
  <1> SUFFICES ASSUME ChatTypeOK, [ChatNext]_chatVars PROVE ChatTypeOK'
    OBVIOUS
  <1>1. CASE UNCHANGED chatVars
    BY <1>1 DEF chatVars, ChatTypeOK
  <1>2. CASE ChatNext
    BY <1>2, TypesReceiveMessage, TypesLinked, TypesReceipts, TypesUser, TypesTimers,
       TypesPublish, TypesProcess DEF ChatNext, Arrives
  <1> QED
    BY <1>1, <1>2

\* Every variable of a chat keeps its type: statuses, counts and timers stay what they
\* are in all orders of events, actions, expiries and ends of the process.
THEOREM ChatTypeCorrect == ChatSpec => []ChatTypeOK
  BY TypesInit, TypesNext, PTL DEF ChatSpec

-----------------------------------------------------------------------------
(* Timers.                                                                 *)

\* A deadline is set exactly when a task waits for it, and one is if there is work.
FlushInv == flush.set = flush.waits /\ (pending # {} => flush.set)

\* What is there and expires later has an alarm.
AlarmInv ==
    step # "down" =>
        \A m \in Loaded \cup Stored : Expiry[m] > now => alarm # 0 /\ alarm <= Expiry[m]

LEMMA TimersParts == ChatTypeOK => (TimersArmed <=> AlarmInv /\ (pending # {} => flush = [set |-> TRUE, waits |-> TRUE]))
  BY DEF TimersArmed, AlarmInv

LEMMA FlushNext == ChatTypeOK /\ FlushInv /\ [ChatNext]_chatVars => FlushInv'
  <1> SUFFICES ASSUME ChatTypeOK, FlushInv, [ChatNext]_chatVars PROVE FlushInv'
    OBVIOUS
  <1>1. ASSUME pending' = pending, flush' = flush PROVE FlushInv'
    BY <1>1 DEF FlushInv
  <1>2. ASSUME NEW m \in Rows, NEW kind \in {"message", "again"}, ReceiveMessage(m, kind)
        PROVE  FlushInv'
    <2>1. CASE pending' = pending
      BY <1>1, <1>2, <2>1 DEF ReceiveMessage
    <2>2. CASE pending' # pending
      <3>1. flush' = Armed(pending', flush) /\ pending' # {}
        BY <1>2, <2>2 DEF ReceiveMessage
      <3> QED
        BY <3>1 DEF Armed, FlushInv, ChatTypeOK
    <2> QED
      BY <2>1, <2>2
  <1>3. ASSUME NEW M \in SUBSET Theirs, MarkSeen(M)
        PROVE  FlushInv'
    BY <1>3 DEF MarkSeen, Cancelled, FlushInv, ChatTypeOK
  <1>4. CASE FlushFires
    <2>1. flush' = Armed(pending', [set |-> FALSE, waits |-> FALSE])
      BY <1>4 DEF FlushFires
    <2> QED
      BY <2>1 DEF Armed, FlushInv
  <1>5. CASE EndProcess
    BY <1>5 DEF EndProcess, FlushInv
  <1>6. CASE UNCHANGED chatVars
    BY <1>1, <1>6 DEF chatVars
  <1>7. ASSUME NEW m \in Rows,
               \/ ReceiveLinked(m) \/ ReceiveRead(m)
               \/ \E status \in {"received", "seen"} : ReceiveReceipt(m, status)
               \/ SendMessage(m) \/ DeleteMessage(m) \/ PublishSucceeds(m) \/ PublishFails(m)
        PROVE  FlushInv'
    BY <1>1, <1>7 DEF ReceiveLinked, ReceiveRead, ReceiveReceipt, SendMessage, DeleteMessage,
       PublishSucceeds, PublishFails, NoReceipts
  <1>8. ASSUME \/ \E mark \in BOOLEAN : SetUnread(mark)
               \/ OpenChat \/ LeaveChat \/ Accept \/ SetReceipts \/ DeleteChat
               \/ AlarmRings \/ OpenFinalized \/ Tick
               \/ EndBatch \/ ReceiptsLeave \/ StartProcess
        PROVE  FlushInv'
    BY <1>1, <1>8 DEF SetUnread, OpenChat, LeaveChat, Accept, SetReceipts, DeleteChat,
       AlarmRings, OpenFinalized, Tick, EndBatch, ReceiptsLeave, StartProcess, NoReceipts
  <1> QED
    BY <1>2, <1>3, <1>4, <1>5, <1>6, <1>7, <1>8 DEF ChatNext, Arrives

\* Whatever sets the alarm sets it for all that is there.
LEMMA AlarmSet ==
    ASSUME ChatTypeOK, alarm' = NextAlarm(chat', table'), now' = now
    PROVE  AlarmInv'
  <1>1. \A m \in Rows : (chat'.rows[m] # "none" \/ table'.rows[m] # "none") /\ Expiry[m] > now
            => alarm' # 0 /\ alarm' <= Expiry[m]
    BY NextAlarmIsFirst DEF ChatTypeOK
  <1> QED
    BY <1>1 DEF AlarmInv, Loaded, Stored

\* Whatever leaves it alone adds nothing that expires later.
LEMMA AlarmKept ==
    ASSUME ChatTypeOK, AlarmInv, step # "down", alarm' = alarm, now' \in Nat, now' >= now,
           \A m \in Rows : (chat'.rows[m] # "none" \/ table'.rows[m] # "none") /\ Expiry[m] # 0
               => chat.rows[m] # "none" \/ table.rows[m] # "none"
    PROVE  AlarmInv'
  <1> SUFFICES ASSUME NEW m \in Rows, chat'.rows[m] # "none" \/ table'.rows[m] # "none",
                      Expiry[m] > now'
               PROVE  alarm # 0 /\ alarm <= Expiry[m]
    BY DEF AlarmInv, Loaded, Stored
  <1>1. Expiry[m] \in Nat /\ now \in Nat
    BY ChatAssumption DEF ChatTypeOK
  <1>2. Expiry[m] # 0 /\ Expiry[m] > now
    BY <1>1
  <1> QED
    BY <1>2 DEF AlarmInv, Loaded, Stored

LEMMA AlarmNext == ChatTypeOK /\ AlarmInv /\ [ChatNext]_chatVars => AlarmInv'
  <1> SUFFICES ASSUME ChatTypeOK, AlarmInv, [ChatNext]_chatVars PROVE AlarmInv'
    OBVIOUS
  <1> DEFINE Rowed == [Rows -> Statuses \cup {"none"}]
  <1>1. chat.rows \in Rowed /\ table.rows \in Rowed /\ now \in Nat
    BY DEF ChatTypeOK, AppType
  <1>2. ASSUME step # "down", alarm' = alarm, now' = now,
               \A m \in Rows : (chat'.rows[m] # "none" \/ table'.rows[m] # "none") /\ Expiry[m] # 0
                   => chat.rows[m] # "none" \/ table.rows[m] # "none"
        PROVE  AlarmInv'
    BY <1>2, <1>1, AlarmKept
  <1>3. ASSUME NEW m \in Rows, NEW kind \in {"message", "again"}, ReceiveMessage(m, kind)
        PROVE  AlarmInv'
    <2> DEFINE new == m \notin Loaded \cup Stored
               a == IF new THEN Inserted(m) ELSE chat
    <2>1. now' = now /\ step # "down"
      BY <1>3 DEF ReceiveMessage, InEvents
    <2>2. chat'.rows = a.rows
      BY <1>3 DEF ReceiveMessage, ChatTypeOK, AppType, Inserted
    <2>3. CASE new /\ Expiry[m] # 0
      <3>1. alarm' = NextAlarm(a, table')
        BY <1>3, <2>3 DEF ReceiveMessage
      <3>2. NextAlarm(a, table') = NextAlarm(chat', table')
        BY <2>2 DEF NextAlarm
      <3> QED
        BY <2>1, <3>1, <3>2, AlarmSet
    <2>4. CASE ~(new /\ Expiry[m] # 0)
      <3>1. alarm' = alarm
        BY <1>3, <2>4 DEF ReceiveMessage
      <3>2. CASE ~new
        BY <1>2, <1>3, <2>1, <2>2, <3>1, <3>2 DEF ReceiveMessage
      <3>3. CASE new
        <4>1. Expiry[m] = 0
          BY <2>4, <3>3
        <4>2. table' = Previewed(a, m)
          BY <1>3, <3>3 DEF ReceiveMessage
        <4>3. \A n \in Rows : n # m => chat'.rows[n] = chat.rows[n] /\ table'.rows[n] = table.rows[n]
          BY <1>1, <2>2, <3>3, <4>2 DEF Inserted, Previewed, ChatTypeOK, AppType
        <4> QED
          BY <1>2, <2>1, <3>1, <4>1, <4>3
      <3> QED
        BY <3>2, <3>3
    <2> QED
      BY <2>3, <2>4
  <1>4. ASSUME NEW m \in Rows, ReceiveLinked(m)
        PROVE  AlarmInv'
    <2>1. now' = now /\ step # "down" /\ table' = table
      BY <1>4 DEF ReceiveLinked, InEvents
    <2>2. \A n \in Rows : n # m => chat'.rows[n] = chat.rows[n]
      BY <1>1, <1>4 DEF ReceiveLinked, ChatTypeOK, AppType
    <2>3. CASE m \notin Loaded /\ Expiry[m] # 0
      BY <1>4, <2>1, <2>3, AlarmSet DEF ReceiveLinked
    <2>4. CASE ~(m \notin Loaded /\ Expiry[m] # 0)
      <3>1. alarm' = alarm
        BY <1>4, <2>4 DEF ReceiveLinked
      <3> QED
        BY <1>2, <2>1, <2>2, <2>4, <3>1 DEF Loaded
    <2> QED
      BY <2>3, <2>4
  <1>5. ASSUME NEW m \in Rows, ReceiveRead(m) \/ \E status \in {"received", "seen"} : ReceiveReceipt(m, status)
        PROVE  AlarmInv'
    <2>1. \E status \in {"received", "seen"} : chat'.rows = Advanced(chat.rows, m, status)
      <3>1. CASE ReceiveRead(m)
        BY <3>1 DEF ReceiveRead, ChatTypeOK, AppType
      <3>2. ASSUME NEW status \in {"received", "seen"}, ReceiveReceipt(m, status)
            PROVE  chat'.rows = Advanced(chat.rows, m, status)
        BY <3>2 DEF ReceiveReceipt, ChatTypeOK, AppType
      <3> QED
        BY <1>5, <3>1, <3>2
    <2>2. \A n \in Rows : chat'.rows[n] # "none" => chat.rows[n] # "none"
      BY <1>1, <2>1 DEF Advanced
    <2>3. alarm' = alarm /\ now' = now /\ table' = table /\ step # "down"
      BY <1>5 DEF ReceiveRead, ReceiveReceipt, InEvents
    <2> QED
      BY <1>2, <2>2, <2>3
  <1>6. ASSUME NEW m \in Rows, SendMessage(m)
        PROVE  AlarmInv'
    <2>1. now' = now /\ step # "down" /\ table' = table
      BY <1>6 DEF SendMessage, InAction
    <2>2. CASE Expiry[m] # 0
      BY <1>6, <2>1, <2>2, AlarmSet DEF SendMessage
    <2>3. CASE Expiry[m] = 0
      <3>1. \A n \in Rows : n # m => chat'.rows[n] = chat.rows[n]
        BY <1>1, <1>6 DEF SendMessage, ChatTypeOK, AppType
      <3>2. alarm' = alarm
        BY <1>6, <2>3 DEF SendMessage
      <3> QED
        BY <1>2, <2>1, <2>3, <3>1, <3>2
    <2> QED
      BY <2>2, <2>3
  <1>7. ASSUME NEW m \in Rows, DeleteMessage(m)
        PROVE  AlarmInv'
    <2>1. \A n \in Rows : /\ chat'.rows[n] # "none" => chat.rows[n] # "none"
                          /\ table'.rows[n] # "none" => table.rows[n] # "none"
      BY <1>1, <1>7 DEF DeleteMessage, Without, ChatTypeOK, AppType
    <2> QED
      BY <1>2, <1>7, <2>1 DEF DeleteMessage, InAction
  <1>8. ASSUME NEW m \in Rows, PublishSucceeds(m) \/ PublishFails(m)
        PROVE  AlarmInv'
    <2>1. \A n \in Rows : chat'.rows[n] # "none" => chat.rows[n] # "none"
      BY <1>1, <1>8 DEF PublishSucceeds, PublishFails, Settled, Loaded, ChatTypeOK, AppType
    <2> QED
      BY <1>2, <1>8, <2>1 DEF PublishSucceeds, PublishFails, InEvents
  <1>9. ASSUME NEW M \in SUBSET Theirs, MarkSeen(M)
        PROVE  AlarmInv'
    <2>1. \A n \in Rows : chat'.rows[n] # "none" => chat.rows[n] # "none"
      BY <1>1, <1>9 DEF MarkSeen, Loaded, ChatTypeOK, AppType
    <2> QED
      BY <1>2, <1>9, <2>1 DEF MarkSeen, InAction
  <1>10. CASE OpenChat
    <2>1. \A n \in Rows : chat'.rows[n] # "none" => chat.rows[n] # "none" \/ table.rows[n] # "none"
      BY <1>1, <1>10 DEF OpenChat, Stored, ChatTypeOK, AppType
    <2> QED
      BY <1>2, <1>10, <2>1 DEF OpenChat, InAction
  <1>11. CASE LeaveChat \/ Accept \/ SetReceipts \/ \E mark \in BOOLEAN : SetUnread(mark)
    <2>1. chat'.rows = chat.rows
      BY <1>11 DEF LeaveChat, Accept, SetReceipts, SetUnread, ChatTypeOK, AppType
    <2> QED
      BY <1>2, <1>11, <2>1 DEF LeaveChat, Accept, SetReceipts, SetUnread, InAction
  <1>12. CASE DeleteChat
    <2>1. \A n \in Rows : chat'.rows[n] = "none" /\ table'.rows[n] = "none"
      BY <1>12 DEF DeleteChat, Nothing, ChatTypeOK, AppType
    <2> QED
      BY <1>2, <1>12, <2>1 DEF DeleteChat, InAction
  <1>13. CASE Tick
    <2>1. now' = now + 1 /\ now' \in Nat /\ now' >= now
      BY <1>1, <1>13 DEF Tick
    <2> QED
      BY <1>13, <2>1, AlarmKept DEF Tick
  <1>14. CASE AlarmRings \/ (OpenFinalized /\ chat.open) \/ StartProcess
    <2>1. alarm' = NextAlarm(chat', table') /\ now' = now
      BY <1>14 DEF AlarmRings, OpenFinalized, StartProcess, Prune
    <2> QED
      BY <2>1, AlarmSet
  <1>15. CASE FlushFires \/ (OpenFinalized /\ ~chat.open) \/ ReceiptsLeave
    BY <1>2, <1>15 DEF FlushFires, OpenFinalized, ReceiptsLeave, InEvents
  <1>16. CASE EndBatch
    <2>1. \A n \in Rows : table'.rows[n] # "none" => chat.rows[n] # "none" \/ table.rows[n] # "none"
      BY <1>1, <1>16 DEF EndBatch, Loaded, ChatTypeOK, AppType
    <2> QED
      BY <1>2, <1>16, <2>1 DEF EndBatch
  <1>17. CASE EndProcess
    BY <1>17 DEF EndProcess, AlarmInv
  <1>18. CASE UNCHANGED chatVars
    BY <1>18 DEF chatVars, AlarmInv, Loaded, Stored
  <1> QED
    BY <1>3, <1>4, <1>5, <1>6, <1>7, <1>8, <1>9, <1>10, <1>11, <1>12, <1>13, <1>14, <1>15,
       <1>16, <1>17, <1>18 DEF ChatNext, Arrives

\* Both timers are there as long as they have work: a held receipt always has a deadline
\* and the task that waits for it, and a message that expires later an alarm no later
\* than that, for any messages, expiry times and batches.
THEOREM ChatTimersArmed == ChatSpec => []TimersArmed
  <1>1. ChatInit => FlushInv /\ AlarmInv
    BY DEF ChatInit, FlushInv, AlarmInv, Loaded, Stored, Nothing
  <1>2. ChatTypeOK /\ FlushInv /\ AlarmInv => TimersArmed
    <2> SUFFICES ASSUME ChatTypeOK, FlushInv, AlarmInv PROVE TimersArmed
      OBVIOUS
    <2>1. pending # {} => flush = [set |-> TRUE, waits |-> TRUE]
      BY DEF ChatTypeOK, FlushInv
    <2> QED
      BY <2>1, TimersParts
  <1> QED
    BY <1>1, <1>2, FlushNext, AlarmNext, ChatTypeCorrect, PTL DEF ChatSpec

-----------------------------------------------------------------------------
(* Memory and the table.                                                   *)

\* Outside a batch a loaded row is the stored one; what memory has not seen the table
\* has not either; and an own message of another device is there only if its event
\* has been seen, by memory and by the table.
SavedInv == step \in {"idle", "saved"} => ~unsaved
SameInv == step # "down" /\ ~unsaved => \A m \in Loaded : table.rows[m] = chat.rows[m]
DownInv == step = "down" => chat = table
KnownInv ==
    /\ table.seen \subseteq chat.seen
    /\ \A m \in Linked : /\ chat.rows[m] # "none" => Arrival(m, "message") \in chat.seen
                         /\ table.rows[m] # "none" => Arrival(m, "message") \in table.seen

RestInv == SavedInv /\ SameInv /\ DownInv /\ KnownInv

LEMMA SavedNext == ChatTypeOK /\ SavedInv /\ [ChatNext]_chatVars => SavedInv'
  <1> SUFFICES ASSUME ChatTypeOK, SavedInv, [ChatNext]_chatVars PROVE SavedInv'
    OBVIOUS
  <1>1. ASSUME InEvents \/ InAction \/ step' \in {"down", "action", "events"}
        PROVE  SavedInv'
    BY <1>1 DEF InEvents, InAction, SavedInv
  <1>2. ASSUME NEW m \in Rows,
               \/ \E kind \in {"message", "again"} : ReceiveMessage(m, kind)
               \/ ReceiveLinked(m) \/ ReceiveRead(m)
               \/ \E status \in {"received", "seen"} : ReceiveReceipt(m, status)
               \/ SendMessage(m) \/ DeleteMessage(m) \/ PublishSucceeds(m) \/ PublishFails(m)
        PROVE  SavedInv'
    BY <1>1, <1>2 DEF ReceiveMessage, ReceiveLinked, ReceiveRead, ReceiveReceipt, SendMessage,
       DeleteMessage, PublishSucceeds, PublishFails
  <1>3. ASSUME \/ \E M \in SUBSET Theirs : MarkSeen(M)
               \/ \E mark \in BOOLEAN : SetUnread(mark)
               \/ OpenChat \/ LeaveChat \/ Accept \/ SetReceipts \/ DeleteChat
               \/ FlushFires \/ AlarmRings \/ OpenFinalized \/ EndProcess \/ StartProcess
        PROVE  SavedInv'
    BY <1>1, <1>3 DEF MarkSeen, SetUnread, OpenChat, LeaveChat, Accept, SetReceipts, DeleteChat,
       FlushFires, AlarmRings, OpenFinalized, EndProcess, StartProcess
  <1>4. CASE Tick \/ EndBatch \/ ReceiptsLeave \/ UNCHANGED chatVars
    BY <1>4 DEF Tick, EndBatch, ReceiptsLeave, SavedInv, chatVars
  <1> QED
    BY <1>2, <1>3, <1>4 DEF ChatNext, Arrives

LEMMA DownNext == DownInv /\ [ChatNext]_chatVars => DownInv'
  <1> SUFFICES ASSUME DownInv, [ChatNext]_chatVars PROVE DownInv'
    OBVIOUS
  <1>1. ASSUME InEvents \/ InAction \/ step' # "down" PROVE DownInv'
    BY <1>1 DEF InEvents, InAction, DownInv
  <1>2. ASSUME NEW m \in Rows,
               \/ \E kind \in {"message", "again"} : ReceiveMessage(m, kind)
               \/ ReceiveLinked(m) \/ ReceiveRead(m)
               \/ \E status \in {"received", "seen"} : ReceiveReceipt(m, status)
               \/ SendMessage(m) \/ DeleteMessage(m) \/ PublishSucceeds(m) \/ PublishFails(m)
        PROVE  DownInv'
    BY <1>1, <1>2 DEF ReceiveMessage, ReceiveLinked, ReceiveRead, ReceiveReceipt, SendMessage,
       DeleteMessage, PublishSucceeds, PublishFails
  <1>3. ASSUME \/ \E M \in SUBSET Theirs : MarkSeen(M)
               \/ \E mark \in BOOLEAN : SetUnread(mark)
               \/ OpenChat \/ LeaveChat \/ Accept \/ SetReceipts \/ DeleteChat
               \/ FlushFires \/ AlarmRings \/ OpenFinalized \/ StartProcess
        PROVE  DownInv'
    BY <1>1, <1>3 DEF MarkSeen, SetUnread, OpenChat, LeaveChat, Accept, SetReceipts, DeleteChat,
       FlushFires, AlarmRings, OpenFinalized, StartProcess
  <1>4. CASE Tick \/ EndBatch \/ ReceiptsLeave \/ EndProcess \/ UNCHANGED chatVars
    BY <1>4 DEF Tick, EndBatch, ReceiptsLeave, EndProcess, DownInv, chatVars
  <1> QED
    BY <1>2, <1>3, <1>4 DEF ChatNext, Arrives

LEMMA SameNext == ChatTypeOK /\ SavedInv /\ SameInv /\ [ChatNext]_chatVars => SameInv'
  <1> SUFFICES ASSUME ChatTypeOK, SavedInv, SameInv, [ChatNext]_chatVars PROVE SameInv'
    OBVIOUS
  <1>1. chat.rows \in [Rows -> Statuses \cup {"none"}] /\ table.rows \in [Rows -> Statuses \cup {"none"}]
    BY DEF ChatTypeOK, AppType
  <1>2. ASSUME unsaved' = TRUE \/ step' = "down" PROVE SameInv'
    BY <1>2 DEF SameInv
  <1>3. ASSUME step # "down", chat'.rows = chat.rows, table'.rows = table.rows, ~unsaved
        PROVE  SameInv'
    BY <1>3 DEF SameInv, Loaded
  <1>4. ASSUME NEW m \in Rows,
               \/ \E kind \in {"message", "again"} : ReceiveMessage(m, kind)
               \/ ReceiveLinked(m) \/ ReceiveRead(m)
               \/ \E status \in {"received", "seen"} : ReceiveReceipt(m, status)
               \/ SendMessage(m) \/ DeleteMessage(m) \/ PublishSucceeds(m) \/ PublishFails(m)
        PROVE  SameInv'
    BY <1>2, <1>4 DEF ReceiveMessage, ReceiveLinked, ReceiveRead, ReceiveReceipt, SendMessage,
       DeleteMessage, PublishSucceeds, PublishFails
  <1>5. ASSUME NEW M \in SUBSET Theirs, MarkSeen(M)
        PROVE  SameInv'
    <2>1. CASE chat' # chat
      BY <1>2, <1>5, <2>1 DEF MarkSeen
    <2>2. CASE chat' = chat
      BY <1>3, <1>5, <2>2 DEF MarkSeen, InAction, SavedInv
    <2> QED
      BY <2>1, <2>2
  <1>6. CASE OpenChat
    <2>1. step = "idle" /\ ~unsaved /\ table' = table
      BY <1>6 DEF OpenChat, InAction, SavedInv
    <2>2. \A m \in Rows : chat'.rows[m] = IF m \in Stored THEN table.rows[m] ELSE chat.rows[m]
      BY <1>1, <1>6 DEF OpenChat, ChatTypeOK, AppType
    <2>3. \A m \in Rows : chat.rows[m] # "none" => table.rows[m] = chat.rows[m]
      BY <2>1 DEF SameInv, Loaded
    <2> QED
      BY <2>1, <2>2, <2>3 DEF SameInv, Loaded, Stored
  <1>7. ASSUME \/ \E mark \in BOOLEAN : SetUnread(mark)
               \/ LeaveChat \/ Accept \/ SetReceipts \/ DeleteChat
               \/ (OpenFinalized /\ chat.open) \/ StartProcess \/ EndProcess
        PROVE  SameInv'
    BY <1>2, <1>7 DEF SetUnread, LeaveChat, Accept, SetReceipts, DeleteChat, OpenFinalized,
       StartProcess, EndProcess
  <1>8. CASE FlushFires \/ (OpenFinalized /\ ~chat.open) \/ Tick \/ ReceiptsLeave
    <2>1. step # "down" /\ chat' = chat /\ table' = table /\ unsaved' = unsaved
      BY <1>8 DEF FlushFires, OpenFinalized, Tick, ReceiptsLeave, InEvents
    <2>2. CASE unsaved
      BY <2>1, <2>2 DEF SameInv
    <2>3. CASE ~unsaved
      BY <1>3, <2>1, <2>3
    <2> QED
      BY <2>2, <2>3
  <1>9. CASE AlarmRings
    <2>1. step # "down" /\ unsaved' = (unsaved \/ chat.rows # chat'.rows \/ table.rows # table'.rows)
      BY <1>9 DEF AlarmRings, InEvents
    <2>2. CASE unsaved'
      BY <2>2 DEF SameInv
    <2>3. CASE ~unsaved'
      BY <1>3, <2>1, <2>3
    <2> QED
      BY <2>2, <2>3
  <1>10. CASE EndBatch
    <2>1. chat' = chat /\ step # "down"
      BY <1>10 DEF EndBatch
    <2>2. CASE unsaved
      <3>1. \A m \in Rows : m \in Loaded => table'.rows[m] = chat.rows[m]
        BY <1>1, <1>10, <2>2 DEF EndBatch, ChatTypeOK, AppType, Loaded
      <3> QED
        BY <2>1, <3>1 DEF SameInv, Loaded
    <2>3. CASE ~unsaved
      BY <1>3, <1>10, <2>1, <2>3 DEF EndBatch
    <2> QED
      BY <2>2, <2>3
  <1>11. CASE UNCHANGED chatVars
    BY <1>11 DEF chatVars, SameInv, Loaded
  <1> QED
    BY <1>4, <1>5, <1>6, <1>7, <1>8, <1>9, <1>10, <1>11 DEF ChatNext, Arrives

LEMMA KnownNext == ChatTypeOK /\ DownInv /\ KnownInv /\ [ChatNext]_chatVars => KnownInv'
  <1> SUFFICES ASSUME ChatTypeOK, DownInv, KnownInv, [ChatNext]_chatVars PROVE KnownInv'
    OBVIOUS
  <1>1. chat.rows \in [Rows -> Statuses \cup {"none"}] /\ table.rows \in [Rows -> Statuses \cup {"none"}]
    BY DEF ChatTypeOK, AppType
  \* Most actions add no row of another device and forget no event.
  <1>2. ASSUME chat.seen \subseteq chat'.seen, table'.seen = table.seen,
               \A m \in Linked : /\ chat'.rows[m] # "none" => chat.rows[m] # "none"
                                 /\ table'.rows[m] # "none" => table.rows[m] # "none"
        PROVE  KnownInv'
    BY <1>2 DEF KnownInv
  <1>3. ASSUME NEW m \in Rows, NEW kind \in {"message", "again"}, ReceiveMessage(m, kind)
        PROVE  KnownInv'
    <2> DEFINE new == m \notin Loaded \cup Stored
               a == IF new THEN Inserted(m) ELSE chat
    <2>1. m \notin Linked
      BY <1>3, ChatAssumption DEF ReceiveMessage
    <2>2. chat'.rows = a.rows /\ chat'.seen = chat.seen \cup {Arrival(m, kind)}
      BY <1>3 DEF ReceiveMessage, ChatTypeOK, AppType, Inserted
    <2>3. \A n \in Rows : n # m => a.rows[n] = chat.rows[n]
      BY <1>1 DEF Inserted, ChatTypeOK, AppType
    <2>4. table'.seen = table.seen /\ \A n \in Rows : n # m => table'.rows[n] = table.rows[n]
      BY <1>1, <1>3 DEF ReceiveMessage, Previewed, ChatTypeOK, AppType
    <2> HIDE DEF a
    <2> QED
      BY <1>2, <2>1, <2>2, <2>3, <2>4 DEF Rows
  <1>4. ASSUME NEW m \in Rows, ReceiveLinked(m)
        PROVE  KnownInv'
    <2>1. /\ chat'.seen = chat.seen \cup {Arrival(m, "message")} /\ table' = table
          /\ \A n \in Rows : n # m => chat'.rows[n] = chat.rows[n]
      BY <1>1, <1>4 DEF ReceiveLinked, ChatTypeOK, AppType
    <2> QED
      BY <2>1 DEF KnownInv, Rows
  <1>5. ASSUME NEW m \in Rows, ReceiveRead(m) \/ \E status \in {"received", "seen"} : ReceiveReceipt(m, status)
        PROVE  KnownInv'
    <2>1. /\ chat.seen \subseteq chat'.seen /\ table' = table
          /\ \A n \in Rows : chat'.rows[n] # "none" => chat.rows[n] # "none"
      <3>1. CASE ReceiveRead(m)
        BY <1>1, <3>1 DEF ReceiveRead, Advanced, ChatTypeOK, AppType
      <3>2. ASSUME NEW status \in {"received", "seen"}, ReceiveReceipt(m, status)
            PROVE  /\ chat.seen \subseteq chat'.seen /\ table' = table
                   /\ \A n \in Rows : chat'.rows[n] # "none" => chat.rows[n] # "none"
        BY <1>1, <3>2 DEF ReceiveReceipt, Advanced, ChatTypeOK, AppType
      <3> QED
        BY <1>5, <3>1, <3>2
    <2> QED
      BY <1>2, <2>1 DEF Rows
  <1>6. ASSUME NEW m \in Rows, SendMessage(m)
        PROVE  KnownInv'
    <2>1. m \notin Linked
      BY <1>6, ChatAssumption DEF SendMessage
    <2>2. /\ chat'.seen = chat.seen /\ table' = table
          /\ \A n \in Rows : n # m => chat'.rows[n] = chat.rows[n]
      BY <1>1, <1>6 DEF SendMessage, ChatTypeOK, AppType
    <2> QED
      BY <1>2, <2>1, <2>2 DEF Rows
  <1>7. ASSUME NEW m \in Rows, DeleteMessage(m)
        PROVE  KnownInv'
    <2>1. /\ chat'.seen = chat.seen /\ table'.seen = table.seen
          /\ \A n \in Rows : /\ chat'.rows[n] # "none" => chat.rows[n] # "none"
                             /\ table'.rows[n] # "none" => table.rows[n] # "none"
      BY <1>1, <1>7 DEF DeleteMessage, Without, ChatTypeOK, AppType
    <2> QED
      BY <1>2, <2>1 DEF Rows
  <1>8. ASSUME NEW m \in Rows, PublishSucceeds(m) \/ PublishFails(m)
        PROVE  KnownInv'
    <2>1. /\ chat'.seen = chat.seen /\ table' = table
          /\ \A n \in Rows : chat'.rows[n] # "none" => chat.rows[n] # "none"
      BY <1>1, <1>8 DEF PublishSucceeds, PublishFails, Settled, Loaded, ChatTypeOK, AppType
    <2> QED
      BY <1>2, <2>1 DEF Rows
  <1>9. ASSUME NEW M \in SUBSET Theirs, MarkSeen(M)
        PROVE  KnownInv'
    <2>1. /\ chat'.seen = chat.seen /\ table' = table
          /\ \A n \in Rows : chat'.rows[n] # "none" => chat.rows[n] # "none"
      BY <1>1, <1>9 DEF MarkSeen, Loaded, ChatTypeOK, AppType
    <2> QED
      BY <1>2, <2>1 DEF Rows
  <1>10. CASE OpenChat
    <2>1. /\ chat'.seen = chat.seen /\ table' = table
          /\ \A n \in Rows : chat'.rows[n] # "none" => chat.rows[n] # "none" \/ table.rows[n] # "none"
      BY <1>1, <1>10 DEF OpenChat, Stored, ChatTypeOK, AppType
    <2> QED
      BY <2>1 DEF KnownInv, Rows
  <1>11. ASSUME \/ LeaveChat \/ Accept \/ SetReceipts \/ \E mark \in BOOLEAN : SetUnread(mark)
                \/ FlushFires \/ (OpenFinalized /\ ~chat.open) \/ Tick \/ ReceiptsLeave
        PROVE  KnownInv'
    <2>1. chat'.seen = chat.seen /\ chat'.rows = chat.rows /\ table' = table
      BY <1>11 DEF LeaveChat, Accept, SetReceipts, SetUnread, FlushFires, OpenFinalized, Tick,
         ReceiptsLeave, ChatTypeOK, AppType
    <2> QED
      BY <1>2, <2>1
  <1>12. CASE AlarmRings \/ (OpenFinalized /\ chat.open)
    <2>1. Prune
      BY <1>12 DEF AlarmRings, OpenFinalized
    <2>2. /\ chat'.seen = chat.seen /\ table'.seen = table.seen
          /\ \A n \in Rows : /\ chat'.rows[n] # "none" => chat.rows[n] # "none"
                             /\ table'.rows[n] # "none" => table.rows[n] # "none"
      BY <1>1, <2>1 DEF Prune, Without, ChatTypeOK, AppType
    <2> QED
      BY <1>2, <2>2 DEF Rows
  <1>13. CASE EndBatch
    <2>1. CASE unsaved
      <3>1. /\ table'.seen = chat.seen /\ chat' = chat
            /\ \A n \in Rows : table'.rows[n] # "none" => chat.rows[n] # "none" \/ table.rows[n] # "none"
        BY <1>1, <1>13, <2>1 DEF EndBatch, Loaded, ChatTypeOK, AppType
      <3> QED
        BY <3>1 DEF KnownInv, Rows
    <2>2. CASE ~unsaved
      BY <1>2, <1>13, <2>2 DEF EndBatch
    <2> QED
      BY <2>1, <2>2
  <1>14. CASE EndProcess
    BY <1>14 DEF EndProcess, KnownInv
  <1>15. CASE StartProcess
    <2>1. chat = table
      BY <1>15 DEF StartProcess, DownInv
    <2>2. /\ table'.seen = table.seen /\ chat'.seen = table.seen
          /\ \A n \in Rows : /\ chat'.rows[n] # "none" => table.rows[n] # "none"
                             /\ table'.rows[n] # "none" => table.rows[n] # "none"
      BY <1>1, <1>15 DEF StartProcess, Without, ChatTypeOK, AppType
    <2> QED
      BY <1>2, <2>1, <2>2 DEF Rows
  <1>16. CASE UNCHANGED chatVars
    BY <1>2, <1>16 DEF chatVars
  <1>17. CASE DeleteChat
    <2>1. /\ chat'.seen = chat.seen /\ table'.seen = table.seen
          /\ \A n \in Rows : chat'.rows[n] = "none" /\ table'.rows[n] = "none"
      BY <1>17 DEF DeleteChat, Nothing, ChatTypeOK, AppType
    <2> QED
      BY <1>2, <2>1 DEF Rows
  <1> QED
    BY <1>3, <1>4, <1>5, <1>6, <1>7, <1>8, <1>9, <1>10, <1>11, <1>12, <1>13, <1>14, <1>15, <1>16,
       <1>17 DEF ChatNext, Arrives

LEMMA RestHolds == ChatSpec => []RestInv
  <1>1. ChatInit => RestInv
    BY DEF ChatInit, RestInv, SavedInv, SameInv, DownInv, KnownInv, Loaded, Nothing, Rows
  <1>2. ChatTypeOK /\ RestInv /\ [ChatNext]_chatVars => RestInv'
    BY SavedNext, SameNext, DownNext, KnownNext DEF RestInv
  <1> QED
    BY <1>1, <1>2, ChatTypeCorrect, PTL DEF ChatSpec

-----------------------------------------------------------------------------
(* Statuses.                                                               *)

\* A step lets no status of a message fall that is not owed to the servers.
RowsRise ==
    step' # "down" =>
        \A m \in Rows :
            chat.rows[m] # "none" /\ chat'.rows[m] # "none" /\ m \notin owed
                => Rank[chat'.rows[m]] >= Rank[chat.rows[m]]

LEMMA Ranks == /\ \A s \in Statuses : Rank[s] \in Nat /\ Rank[s] <= Rank["seen"]
               /\ \A s \in {"pending", "queued"} : Rank[s] <= Rank["sent"]
  BY DEF Rank, Statuses

LEMMA RisesNext == ChatTypeOK /\ RestInv /\ [ChatNext]_chatVars => RowsRise
  <1> SUFFICES ASSUME ChatTypeOK, RestInv, [ChatNext]_chatVars PROVE RowsRise
    OBVIOUS
  <1>1. chat.rows \in [Rows -> Statuses \cup {"none"}] /\ table.rows \in [Rows -> Statuses \cup {"none"}]
    BY DEF ChatTypeOK, AppType
  \* It is enough that a row of memory stays, goes, is new, is owed or rises.
  <1>2. ASSUME \A m \in Rows : \/ chat'.rows[m] = chat.rows[m]
                               \/ chat'.rows[m] = "none" \/ chat.rows[m] = "none"
                               \/ m \in owed \/ Rank[chat'.rows[m]] >= Rank[chat.rows[m]]
        PROVE  RowsRise
    <2> SUFFICES ASSUME NEW m \in Rows, chat.rows[m] # "none", chat'.rows[m] = chat.rows[m]
                 PROVE  Rank[chat'.rows[m]] >= Rank[chat.rows[m]]
      BY <1>2 DEF RowsRise
    <2>1. Rank[chat.rows[m]] \in Nat
      BY <1>1, Ranks
    <2> QED
      BY <2>1
  <1>3. ASSUME NEW m \in Rows, NEW kind \in {"message", "again"}, ReceiveMessage(m, kind)
        PROVE  RowsRise
    <2> DEFINE new == m \notin Loaded \cup Stored
               a == IF new THEN Inserted(m) ELSE chat
    <2>1. chat'.rows = a.rows
      BY <1>3 DEF ReceiveMessage, ChatTypeOK, AppType, Inserted
    <2>2. \A n \in Rows : a.rows[n] = chat.rows[n] \/ chat.rows[n] = "none"
      BY <1>1 DEF Inserted, Loaded, ChatTypeOK, AppType
    <2> QED
      BY <1>2, <2>1, <2>2
  <1>4. ASSUME NEW m \in Rows, ReceiveLinked(m)
        PROVE  RowsRise
    <2>1. chat.rows[m] = "none"
      BY <1>4 DEF ReceiveLinked, RestInv, KnownInv
    <2>2. \A n \in Rows : n # m => chat'.rows[n] = chat.rows[n]
      BY <1>1, <1>4 DEF ReceiveLinked, ChatTypeOK, AppType
    <2> QED
      BY <1>2, <2>1, <2>2
  <1>5. ASSUME NEW m \in Rows, ReceiveRead(m) \/ \E status \in {"received", "seen"} : ReceiveReceipt(m, status)
        PROVE  RowsRise
    <2>1. \E status \in {"received", "seen"} : chat'.rows = Advanced(chat.rows, m, status)
      <3>1. CASE ReceiveRead(m)
        BY <3>1 DEF ReceiveRead, ChatTypeOK, AppType
      <3>2. ASSUME NEW status \in {"received", "seen"}, ReceiveReceipt(m, status)
            PROVE  chat'.rows = Advanced(chat.rows, m, status)
        BY <3>2 DEF ReceiveReceipt, ChatTypeOK, AppType
      <3> QED
        BY <1>5, <3>1, <3>2
    <2>2. PICK status \in {"received", "seen"} : chat'.rows = Advanced(chat.rows, m, status)
      BY <2>1
    <2>3. CASE chat.rows[m] # "none" /\ Rank[status] > Rank[chat.rows[m]]
      <3>1. chat'.rows = [chat.rows EXCEPT ![m] = status]
        BY <2>2, <2>3 DEF Advanced
      <3>2. Rank[status] \in Nat /\ Rank[chat.rows[m]] \in Nat
        BY <1>1, <2>3, Ranks DEF Statuses
      <3>3. Rank[status] >= Rank[chat.rows[m]]
        BY <2>3, <3>2
      <3>4. \A n \in Rows : chat'.rows[n] = IF n = m THEN status ELSE chat.rows[n]
        BY <1>1, <3>1
      <3> QED
        BY <1>2, <3>3, <3>4
    <2>4. CASE ~(chat.rows[m] # "none" /\ Rank[status] > Rank[chat.rows[m]])
      BY <1>2, <2>2, <2>4 DEF Advanced
    <2> QED
      BY <2>3, <2>4
  <1>6. ASSUME NEW m \in Rows, SendMessage(m)
        PROVE  RowsRise
    <2>1. \A n \in Rows : chat'.rows[n] = chat.rows[n] \/ chat.rows[n] = "none"
      BY <1>1, <1>6 DEF SendMessage, Loaded, ChatTypeOK, AppType
    <2> QED
      BY <1>2, <2>1
  <1>7. ASSUME NEW m \in Rows, DeleteMessage(m)
        PROVE  RowsRise
    <2>1. \A n \in Rows : chat'.rows[n] = chat.rows[n] \/ chat'.rows[n] = "none"
      BY <1>1, <1>7 DEF DeleteMessage, Without, ChatTypeOK, AppType
    <2> QED
      BY <1>2, <2>1
  <1>8. ASSUME NEW m \in Rows, PublishSucceeds(m)
        PROVE  RowsRise
    <2>1. \A n \in Rows : \/ chat'.rows[n] = chat.rows[n]
                          \/ chat.rows[n] \in {"pending", "queued"} /\ chat'.rows[n] = "sent"
      BY <1>1, <1>8 DEF PublishSucceeds, Settled, ChatTypeOK, AppType
    <2>2. \A s \in {"pending", "queued"} : Rank["sent"] >= Rank[s]
      BY DEF Rank
    <2> QED
      BY <1>2, <2>1, <2>2
  <1>9. ASSUME NEW m \in Rows, PublishFails(m)
        PROVE  RowsRise
    <2>1. m \in owed /\ \A n \in Rows : n # m => chat'.rows[n] = chat.rows[n]
      BY <1>1, <1>9 DEF PublishFails, Loaded, ChatTypeOK, AppType
    <2> QED
      BY <1>2, <2>1
  <1>10. ASSUME NEW M \in SUBSET Theirs, MarkSeen(M)
         PROVE  RowsRise
    <2>1. \A n \in Rows : chat'.rows[n] = chat.rows[n] \/ chat'.rows[n] = "seen"
      BY <1>1, <1>10 DEF MarkSeen, ChatTypeOK, AppType
    <2>2. \A n \in Rows : chat.rows[n] # "none" => Rank["seen"] >= Rank[chat.rows[n]]
      BY <1>1, Ranks DEF Statuses
    <2> QED
      BY <1>2, <2>1, <2>2
  <1>11. CASE OpenChat
    <2>1. step = "idle" /\ ~unsaved
      BY <1>11 DEF OpenChat, InAction, RestInv, SavedInv
    <2>2. \A n \in Rows : chat.rows[n] # "none" => table.rows[n] = chat.rows[n]
      BY <2>1 DEF RestInv, SameInv, Loaded
    <2>3. \A n \in Rows : chat'.rows[n] = IF n \in Stored THEN table.rows[n] ELSE chat.rows[n]
      BY <1>1, <1>11 DEF OpenChat, ChatTypeOK, AppType
    <2> QED
      BY <1>2, <2>2, <2>3
  <1>12. ASSUME \/ LeaveChat \/ Accept \/ SetReceipts \/ \E mark \in BOOLEAN : SetUnread(mark)
                \/ FlushFires \/ (OpenFinalized /\ ~chat.open) \/ Tick \/ ReceiptsLeave \/ EndBatch
         PROVE  RowsRise
    <2>1. chat'.rows = chat.rows
      BY <1>12 DEF LeaveChat, Accept, SetReceipts, SetUnread, FlushFires, OpenFinalized, Tick,
         ReceiptsLeave, EndBatch, ChatTypeOK, AppType
    <2> QED
      BY <1>2, <2>1
  <1>13. CASE AlarmRings \/ (OpenFinalized /\ chat.open)
    <2>1. Prune
      BY <1>13 DEF AlarmRings, OpenFinalized
    <2>2. \A n \in Rows : chat'.rows[n] = chat.rows[n] \/ chat'.rows[n] = "none"
      BY <1>1, <2>1 DEF Prune, Without, ChatTypeOK, AppType
    <2> QED
      BY <1>2, <2>2
  <1>14. CASE DeleteChat
    <2>1. \A n \in Rows : chat'.rows[n] = "none"
      BY <1>14 DEF DeleteChat, Nothing, ChatTypeOK, AppType
    <2> QED
      BY <1>2, <2>1
  <1>15. CASE EndProcess
    BY <1>15 DEF EndProcess, RowsRise
  <1>16. CASE StartProcess
    <2>1. chat = table
      BY <1>16 DEF StartProcess, RestInv, DownInv
    <2>2. \A n \in Rows : chat'.rows[n] = table.rows[n] \/ chat'.rows[n] = "none"
      BY <1>1, <1>16 DEF StartProcess, Without, ChatTypeOK, AppType
    <2> QED
      BY <1>2, <2>1, <2>2
  <1>17. CASE UNCHANGED chatVars
    BY <1>2, <1>17 DEF chatVars
  <1> QED
    BY <1>3, <1>4, <1>5, <1>6, <1>7, <1>8, <1>9, <1>10, <1>11, <1>12, <1>13, <1>14, <1>15, <1>16,
       <1>17 DEF ChatNext, Arrives

\* Receipts in any order, the own copy from another device, the stored page that opening
\* the chat loads and a restart never let the status of a message fall, unless its
\* events are still owed to the servers.
THEOREM ChatStatusRises == ChatSpec => StatusRises
  <1>1. ChatTypeOK /\ RestInv /\ [ChatNext]_chatVars => [RowsRise]_chatVars
    BY RisesNext
  <1>2. [RowsRise]_chatVars =>
            [step' # "down" =>
               \A m \in Rows :
                   chat.rows[m] # "none" /\ chat'.rows[m] # "none" /\ m \notin owed
                       => Rank[chat'.rows[m]] >= Rank[chat.rows[m]]]_chatVars
    BY DEF RowsRise
  <1> QED
    BY <1>1, <1>2, ChatTypeCorrect, RestHolds, PTL DEF ChatSpec, StatusRises

-----------------------------------------------------------------------------
(* Receipts.                                                               *)

\* Between batches no receipt is on its way.
QuietInv == step \in {"idle", "down"} => leaving = {}

\* A message whose seen receipt leaves or has left is seen in memory, if it is loaded,
\* and once the receipt has left also in the table.
SeenInv ==
    \A m \in Theirs :
        /\ <<"seen", m>> \in leaving => step # "events" /\ chat.rows[m] = "seen"
        /\ <<"seen", m>> \in gone => table.rows[m] = "seen" /\ chat.rows[m] \in {"seen", "none"}

LEMMA QuietNext == QuietInv /\ [ChatNext]_chatVars => QuietInv'
  <1> SUFFICES ASSUME QuietInv, [ChatNext]_chatVars PROVE QuietInv'
    OBVIOUS
  <1>1. ASSUME InEvents \/ InAction \/ step' \in {"action", "saved"} PROVE QuietInv'
    BY <1>1 DEF InEvents, InAction, QuietInv
  <1>2. ASSUME NEW m \in Rows,
               \/ \E kind \in {"message", "again"} : ReceiveMessage(m, kind)
               \/ ReceiveLinked(m) \/ ReceiveRead(m)
               \/ \E status \in {"received", "seen"} : ReceiveReceipt(m, status)
               \/ SendMessage(m) \/ DeleteMessage(m) \/ PublishSucceeds(m) \/ PublishFails(m)
        PROVE  QuietInv'
    BY <1>1, <1>2 DEF ReceiveMessage, ReceiveLinked, ReceiveRead, ReceiveReceipt, SendMessage,
       DeleteMessage, PublishSucceeds, PublishFails
  <1>3. ASSUME \/ \E M \in SUBSET Theirs : MarkSeen(M)
               \/ \E mark \in BOOLEAN : SetUnread(mark)
               \/ OpenChat \/ LeaveChat \/ Accept \/ SetReceipts \/ DeleteChat
               \/ FlushFires \/ AlarmRings \/ OpenFinalized \/ EndBatch \/ StartProcess
        PROVE  QuietInv'
    BY <1>1, <1>3 DEF MarkSeen, SetUnread, OpenChat, LeaveChat, Accept, SetReceipts, DeleteChat,
       FlushFires, AlarmRings, OpenFinalized, EndBatch, StartProcess
  <1>4. CASE Tick \/ ReceiptsLeave \/ EndProcess \/ UNCHANGED chatVars
    BY <1>4 DEF Tick, ReceiptsLeave, EndProcess, NoReceipts, QuietInv, chatVars
  <1> QED
    BY <1>2, <1>3, <1>4 DEF ChatNext, Arrives

LEMMA SeenNext == ChatTypeOK /\ RestInv /\ QuietInv /\ SeenInv /\ [ChatNext]_chatVars => SeenInv'
  <1> SUFFICES ASSUME ChatTypeOK, RestInv, QuietInv, SeenInv, [ChatNext]_chatVars PROVE SeenInv'
    OBVIOUS
  <1>1. chat.rows \in [Rows -> Statuses \cup {"none"}] /\ table.rows \in [Rows -> Statuses \cup {"none"}]
    BY DEF ChatTypeOK, AppType
  <1>2. InEvents \/ InAction => \A m \in Theirs : <<"seen", m>> \notin leaving
    BY DEF InEvents, InAction, QuietInv, SeenInv
  \* Most events add no seen receipt, and what has been told to be seen stays so.
  <1> DEFINE
        NoneTold == \A m \in Theirs : <<"seen", m>> \in leaving' => <<"seen", m>> \in leaving
        StaySeen == \A m \in Theirs :
            table.rows[m] = "seen" /\ <<"seen", m>> \in gone' /\ chat.rows[m] \in {"seen", "none"}
                => table'.rows[m] = "seen" /\ chat'.rows[m] \in {"seen", "none"}
  <1>3. ASSUME InEvents \/ InAction, gone' \subseteq gone, NoneTold, StaySeen
        PROVE  SeenInv'
    BY <1>2, <1>3 DEF SeenInv
  <1>4. ASSUME NEW m \in Rows, NEW kind \in {"message", "again"}, ReceiveMessage(m, kind)
        PROVE  SeenInv'
    <2> DEFINE new == m \notin Loaded \cup Stored
               a == IF new THEN Inserted(m) ELSE chat
    <2>1. chat'.rows = a.rows /\ InEvents /\ leaving' = leaving /\ gone' = gone
      BY <1>4 DEF ReceiveMessage, ChatTypeOK, AppType, Inserted
    <2>2. \A n \in Rows : table.rows[n] = "seen" => a.rows[n] = chat.rows[n]
      BY <1>1 DEF Inserted, Stored, ChatTypeOK, AppType
    <2>3. \A n \in Rows : table.rows[n] = "seen" => table'.rows[n] = "seen"
      BY <1>1, <1>4 DEF ReceiveMessage, Previewed, Stored, ChatTypeOK, AppType
    <2> HIDE DEF a
    <2>4. NoneTold /\ StaySeen
      BY <2>1, <2>2, <2>3 DEF Rows
    <2> QED
      BY <1>3, <2>1, <2>4
  <1>5. ASSUME NEW m \in Rows, m \notin Theirs, InEvents \/ InAction, table' = table, NoReceipts,
               \A n \in Rows : n # m => \/ chat'.rows[n] = chat.rows[n]
                                        \/ chat.rows[n] # "seen" /\ chat'.rows[n] # "none" /\ chat.rows[n] # "none"
        PROVE  SeenInv'
    <2>1. \A n \in Theirs : n \in Rows /\ n # m
      BY <1>5 DEF Rows
    <2>2. \A n \in Theirs : chat.rows[n] \in {"seen", "none"} => chat'.rows[n] = chat.rows[n]
      BY <1>5, <2>1
    <2>3. gone' = gone /\ leaving' = leaving
      BY <1>5 DEF NoReceipts
    <2>4. NoneTold /\ StaySeen
      BY <1>5, <2>2, <2>3
    <2> QED
      BY <1>3, <1>5, <2>3, <2>4
  <1>6. ASSUME NEW m \in Rows,
               ReceiveLinked(m) \/ SendMessage(m) \/ PublishSucceeds(m) \/ PublishFails(m)
               \/ \E status \in {"received", "seen"} : ReceiveReceipt(m, status)
        PROVE  SeenInv'
    <2>1. m \notin Theirs
      BY <1>6, ChatAssumption DEF ReceiveLinked, SendMessage, PublishSucceeds, PublishFails,
         ReceiveReceipt, ChatTypeOK
    <2>2. (InEvents \/ InAction) /\ table' = table /\ NoReceipts
      BY <1>6 DEF ReceiveLinked, SendMessage, PublishSucceeds, PublishFails, ReceiveReceipt
    <2>3. ReceiveLinked(m) => \A n \in Rows : n # m => chat'.rows[n] = chat.rows[n]
      BY <1>1 DEF ReceiveLinked, ChatTypeOK, AppType
    <2>4. SendMessage(m) => \A n \in Rows : n # m => chat'.rows[n] = chat.rows[n]
      BY <1>1 DEF SendMessage, ChatTypeOK, AppType
    <2>5. PublishSucceeds(m) => \A n \in Rows : \/ chat'.rows[n] = chat.rows[n]
                                                \/ chat.rows[n] # "seen" /\ chat'.rows[n] # "none" /\ chat.rows[n] # "none"
      BY <1>1 DEF PublishSucceeds, Settled, ChatTypeOK, AppType
    <2>6. PublishFails(m) => \A n \in Rows : n # m => chat'.rows[n] = chat.rows[n]
      BY <1>1 DEF PublishFails, ChatTypeOK, AppType
    <2>7. ASSUME NEW status \in {"received", "seen"}, ReceiveReceipt(m, status)
          PROVE  \A n \in Rows : n # m => chat'.rows[n] = chat.rows[n]
      BY <1>1, <2>7 DEF ReceiveReceipt, Advanced, ChatTypeOK, AppType
    <2> QED
      BY <1>5, <1>6, <2>1, <2>2, <2>3, <2>4, <2>5, <2>6, <2>7
  <1>7. ASSUME NEW m \in Rows, ReceiveRead(m)
        PROVE  SeenInv'
    <2>1. \A n \in Rows : chat'.rows[n] = chat.rows[n] \/ chat'.rows[n] = "seen"
      BY <1>1, <1>7 DEF ReceiveRead, Advanced, ChatTypeOK, AppType
    <2>2. InEvents /\ gone' = gone /\ leaving' = leaving /\ table' = table
      BY <1>7 DEF ReceiveRead, NoReceipts
    <2>3. NoneTold /\ StaySeen
      BY <2>1, <2>2 DEF Rows
    <2> QED
      BY <1>3, <2>2, <2>3
  <1>8. ASSUME NEW m \in Rows, DeleteMessage(m)
        PROVE  SeenInv'
    <2>1. \A n \in Rows : /\ n = m \/ table'.rows[n] = table.rows[n]
                          /\ chat'.rows[n] = chat.rows[n] \/ chat'.rows[n] = "none"
      BY <1>1, <1>8 DEF DeleteMessage, Without, ChatTypeOK, AppType
    <2>2. gone' \subseteq gone /\ <<"seen", m>> \notin gone' /\ leaving' = leaving /\ InAction
      BY <1>8 DEF DeleteMessage, Forgets
    <2>3. NoneTold /\ StaySeen
      BY <2>1, <2>2 DEF Rows
    <2> QED
      BY <1>3, <2>2, <2>3
  <1>9. CASE DeleteChat
    <2>1. \A n \in Rows : chat'.rows[n] = "none"
      BY <1>9 DEF DeleteChat, Nothing, ChatTypeOK, AppType
    <2>2. gone' \subseteq gone /\ (\A m \in Theirs : <<"seen", m>> \notin gone') /\ leaving' = leaving /\ InAction
      BY <1>9 DEF DeleteChat, Forgets, Rows
    <2>3. NoneTold /\ StaySeen
      BY <2>1, <2>2 DEF Rows
    <2> QED
      BY <1>3, <2>2, <2>3
  <1>10. ASSUME NEW M \in SUBSET Theirs, MarkSeen(M)
         PROVE  SeenInv'
    <2>1. \A n \in Rows : /\ chat'.rows[n] = chat.rows[n] \/ chat'.rows[n] = "seen"
                          /\ n \in M \cap Loaded => chat'.rows[n] = "seen"
      BY <1>1, <1>10 DEF MarkSeen, Loaded, ChatTypeOK, AppType
    <2>2. leaving' \subseteq {<<"seen", m>> : m \in M \cap Loaded}
      BY <1>10 DEF MarkSeen
    <2>3. gone' = gone /\ table' = table /\ step' = "action"
      BY <1>10 DEF MarkSeen, InAction
    <2>4. \A m \in Theirs : <<"seen", m>> \in leaving' => m \in M \cap Loaded
      BY <2>2
    <2> QED
      BY <2>1, <2>3, <2>4 DEF SeenInv, Rows
  <1>11. CASE OpenChat
    <2>1. \A n \in Rows : chat'.rows[n] = IF n \in Stored THEN table.rows[n] ELSE chat.rows[n]
      BY <1>1, <1>11 DEF OpenChat, ChatTypeOK, AppType
    <2>2. InAction /\ gone' = gone /\ leaving' = leaving /\ table' = table
      BY <1>11 DEF OpenChat, NoReceipts
    <2>3. NoneTold /\ StaySeen
      BY <2>1, <2>2 DEF Stored, Rows
    <2> QED
      BY <1>3, <2>2, <2>3
  <1>12. ASSUME \/ LeaveChat \/ Accept \/ SetReceipts \/ \E mark \in BOOLEAN : SetUnread(mark)
                \/ (OpenFinalized /\ ~chat.open)
         PROVE  SeenInv'
    <2>1. chat'.rows = chat.rows /\ table' = table /\ leaving' = leaving /\ gone' = gone
          /\ (InEvents \/ InAction)
      BY <1>12 DEF LeaveChat, Accept, SetReceipts, SetUnread, OpenFinalized, NoReceipts, ChatTypeOK, AppType
    <2>2. NoneTold /\ StaySeen
      BY <2>1
    <2> QED
      BY <1>3, <2>1, <2>2
  <1>13. CASE FlushFires
    <2>1. PICK D \in SUBSET pending :
              leaving' = leaving \cup {<<"delivered", m>> : m \in {n \in D : ShouldSend(n)}}
      BY <1>13 DEF FlushFires
    <2>2. chat' = chat /\ table' = table /\ gone' = gone /\ InEvents
      BY <1>13 DEF FlushFires
    <2>3. NoneTold
      BY <2>1
    <2>4. StaySeen
      BY <2>2
    <2> QED
      BY <1>3, <2>2, <2>3, <2>4
  <1>14. CASE AlarmRings \/ (OpenFinalized /\ chat.open)
    <2>1. Prune /\ InEvents /\ leaving' = leaving
      BY <1>14 DEF AlarmRings, OpenFinalized
    <2> DEFINE M == {m \in Rows : Expired(m)}
    <2>2. \A n \in Rows : /\ n \in M \/ table'.rows[n] = table.rows[n]
                          /\ chat'.rows[n] = chat.rows[n] \/ chat'.rows[n] = "none"
      BY <1>1, <2>1 DEF Prune, Without, ChatTypeOK, AppType
    <2>3. gone' = {r \in gone : r[2] \notin M}
      BY <2>1 DEF Prune, Forgets
    <2> HIDE DEF M
    <2>4. gone' \subseteq gone /\ \A m \in M : <<"seen", m>> \notin gone'
      BY <2>3
    <2>5. NoneTold /\ StaySeen
      BY <2>1, <2>2, <2>4 DEF Rows
    <2> QED
      BY <1>3, <2>1, <2>4, <2>5
  <1>15. CASE Tick \/ UNCHANGED chatVars
    BY <1>15 DEF Tick, NoReceipts, chatVars, SeenInv
  <1>16. CASE EndBatch
    <2>1. chat' = chat /\ leaving' = leaving /\ gone' = gone /\ step' # "events"
          /\ (\A m \in Theirs : <<"seen", m>> \in leaving => chat.rows[m] = "seen")
      BY <1>16 DEF EndBatch, NoReceipts, SeenInv
    <2>2. \A n \in Rows : table'.rows[n] = IF unsaved /\ n \in Loaded THEN chat.rows[n] ELSE table.rows[n]
      BY <1>1, <1>16 DEF EndBatch, ChatTypeOK, AppType
    <2> QED
      BY <2>1, <2>2 DEF SeenInv, Loaded, Rows
  <1>17. CASE ReceiptsLeave
    <2>1. chat' = chat /\ table' = table /\ gone' = gone \cup leaving /\ leaving' = {}
      BY <1>17 DEF ReceiptsLeave
    <2>2. \A m \in Rows : chat.rows[m] # "none" => table.rows[m] = chat.rows[m]
      BY <1>17 DEF ReceiptsLeave, RestInv, SavedInv, SameInv, Loaded
    <2> QED
      BY <2>1, <2>2 DEF SeenInv, Rows
  <1>18. CASE EndProcess
    BY <1>18 DEF EndProcess, SeenInv
  <1>19. CASE StartProcess
    <2> DEFINE M == {m \in Rows : Expired(m)}
    <2>1. \A n \in Rows : /\ n \in M \/ table'.rows[n] = table.rows[n]
                          /\ chat'.rows[n] = table'.rows[n] \/ chat'.rows[n] = "none"
      BY <1>1, <1>19 DEF StartProcess, Without, ChatTypeOK, AppType
    <2>2. gone' = {r \in gone : r[2] \notin M} /\ leaving' = leaving /\ leaving = {}
      BY <1>19 DEF StartProcess, Forgets, QuietInv
    <2> HIDE DEF M
    <2>3. gone' \subseteq gone /\ \A m \in M : <<"seen", m>> \notin gone'
      BY <2>2
    <2> QED
      BY <2>1, <2>2, <2>3 DEF SeenInv, Rows
  <1> QED
    BY <1>4, <1>6, <1>7, <1>8, <1>9, <1>10, <1>11, <1>12, <1>13, <1>14, <1>15, <1>16, <1>17, <1>18,
       <1>19 DEF ChatNext, Arrives

LEMMA DueNext ==
    ChatTypeOK /\ QuietInv /\ SeenInv /\ ReceiptsAreDue /\ [ChatNext]_chatVars => ReceiptsAreDue'
  <1> SUFFICES ASSUME ChatTypeOK, QuietInv, SeenInv, ReceiptsAreDue, [ChatNext]_chatVars
               PROVE  ReceiptsAreDue'
    OBVIOUS
  <1>1. ASSUME leaving' = {} PROVE ReceiptsAreDue'
    BY <1>1 DEF ReceiptsAreDue
  <1>2. ASSUME InAction \/ Tick \/ StartProcess, leaving' = leaving PROVE ReceiptsAreDue'
    BY <1>1, <1>2 DEF InAction, Tick, StartProcess, QuietInv
  <1>3. ASSUME InEvents, leaving' = leaving, gone' \subseteq gone, chat'.receipts = chat.receipts
        PROVE  ReceiptsAreDue'
    <2>1. leaving # {} => LongEvents
      BY <1>3 DEF InEvents, QuietInv
    <2> QED
      BY <1>3, <2>1 DEF ReceiptsAreDue
  <1>4. ASSUME NEW m \in Rows, NEW kind \in {"message", "again"}, ReceiveMessage(m, kind)
        PROVE  ReceiptsAreDue'
    <2>1. chat'.receipts = chat.receipts
      BY <1>4 DEF ReceiveMessage, Inserted, ChatTypeOK, AppType
    <2> QED
      BY <1>3, <1>4, <2>1 DEF ReceiveMessage
  <1>5. ASSUME NEW m \in Rows,
               \/ ReceiveLinked(m) \/ ReceiveRead(m) \/ PublishSucceeds(m) \/ PublishFails(m)
               \/ \E status \in {"received", "seen"} : ReceiveReceipt(m, status)
        PROVE  ReceiptsAreDue'
    <2>1. chat'.receipts = chat.receipts
      BY <1>5 DEF ReceiveLinked, ReceiveRead, PublishSucceeds, PublishFails, ReceiveReceipt, ChatTypeOK, AppType
    <2>2. InEvents /\ leaving' = leaving /\ gone' = gone
      BY <1>5 DEF ReceiveLinked, ReceiveRead, PublishSucceeds, PublishFails, ReceiveReceipt, NoReceipts
    <2> QED
      BY <1>3, <2>1, <2>2
  <1>6. ASSUME \/ \E m \in Rows : SendMessage(m) \/ DeleteMessage(m)
               \/ \E mark \in BOOLEAN : SetUnread(mark)
               \/ OpenChat \/ LeaveChat \/ Accept \/ SetReceipts \/ DeleteChat
        PROVE  ReceiptsAreDue'
    BY <1>2, <1>6 DEF SendMessage, DeleteMessage, SetUnread, OpenChat, LeaveChat, Accept, SetReceipts,
       DeleteChat, NoReceipts
  <1>7. ASSUME NEW M \in SUBSET Theirs, MarkSeen(M)
        PROVE  ReceiptsAreDue'
    <2> DEFINE ids == M \cap Loaded
    <2>1. leaving' = {<<"seen", m>> : m \in {n \in ids : chat.receipts /\ ~IsRequest(chat)}}
      BY <1>7 DEF MarkSeen
    <2>2. \A m \in Theirs : <<"delivered", m>> \notin leaving'
      BY <2>1
    <2>3. leaving' # {} => chat.receipts /\ ~IsRequest(chat)
      BY <2>1
    <2>4. /\ chat'.receipts = chat.receipts /\ chat'.accepted = chat.accepted
          /\ \A m \in Rows : chat'.rows[m] = "none" <=> chat.rows[m] = "none"
      BY <1>7 DEF MarkSeen, Loaded, ChatTypeOK, AppType
    <2>5. IsRequest(chat') <=> IsRequest(chat)
      BY <2>4 DEF IsRequest, Rows
    <2> QED
      BY <2>2, <2>3, <2>4, <2>5 DEF ReceiptsAreDue
  <1>8. CASE FlushFires
    <2>1. PICK D \in SUBSET pending :
              leaving' = leaving \cup {<<"delivered", m>> : m \in {n \in D : ShouldSend(n)}}
      BY <1>8 DEF FlushFires
    <2>2. chat' = chat /\ gone' = gone /\ InEvents
      BY <1>8 DEF FlushFires
    <2>3. \A m \in Theirs : <<"seen", m>> \notin leaving
      BY <2>2 DEF InEvents, QuietInv, SeenInv
    <2>4. ASSUME NEW m \in Theirs, <<"delivered", m>> \in leaving'
          PROVE  <<"seen", m>> \notin gone' \cup leaving'
      <3>1. <<"seen", m>> \notin leaving'
        BY <2>1, <2>3
      <3>2. CASE <<"delivered", m>> \in leaving
        BY <2>2, <3>1, <3>2 DEF ReceiptsAreDue
      <3>3. CASE <<"delivered", m>> \notin leaving
        <4>1. ShouldSend(m)
          BY <2>1, <2>4, <3>3
        <4>2. <<"seen", m>> \notin gone
          BY <4>1 DEF ShouldSend, SeenInv
        <4> QED
          BY <2>2, <3>1, <4>2
      <3> QED
        BY <3>2, <3>3
    <2>5. leaving' # {} => chat'.receipts /\ (LongEvents \/ ~IsRequest(chat'))
      <3>1. CASE leaving # {}
        BY <2>2, <3>1 DEF ReceiptsAreDue
      <3>2. CASE leaving = {}
        <4>1. leaving' # {} => \E m \in pending : ShouldSend(m)
          BY <2>1, <3>2
        <4> QED
          BY <2>2, <4>1 DEF ShouldSend
      <3> QED
        BY <3>1, <3>2
    <2> QED
      BY <2>4, <2>5 DEF ReceiptsAreDue
  <1>9. CASE AlarmRings \/ OpenFinalized
    <2>1. InEvents /\ leaving' = leaving
      BY <1>9 DEF AlarmRings, OpenFinalized, NoReceipts
    <2>2. gone' \subseteq gone
      BY <1>9 DEF AlarmRings, OpenFinalized, Prune, Forgets
    <2>3. chat'.receipts = chat.receipts
      BY <1>9 DEF AlarmRings, OpenFinalized, Prune, ChatTypeOK, AppType
    <2> QED
      BY <1>3, <2>1, <2>2, <2>3
  <1>10. CASE Tick \/ StartProcess
    BY <1>2, <1>10 DEF Tick, StartProcess, NoReceipts
  <1>11. CASE EndBatch \/ UNCHANGED chatVars
    BY <1>11 DEF EndBatch, NoReceipts, chatVars, ReceiptsAreDue
  <1>12. CASE ReceiptsLeave \/ EndProcess
    BY <1>1, <1>12 DEF ReceiptsLeave, EndProcess
  <1> QED
    BY <1>4, <1>5, <1>6, <1>7, <1>8, <1>9, <1>10, <1>11, <1>12 DEF ChatNext, Arrives

\* A peer that was told a message is seen is never told afterwards that it was delivered,
\* and no receipt leaves while receipts are off or the chat is an unaccepted request, in
\* all orders of timers, second events, restarts and batches.
THEOREM ChatReceiptsAreDue == ChatSpec => []ReceiptsAreDue
  <1>1. ChatInit => QuietInv /\ SeenInv /\ ReceiptsAreDue
    BY DEF ChatInit, QuietInv, SeenInv, ReceiptsAreDue
  <1> QED
    BY <1>1, QuietNext, SeenNext, DueNext, ChatTypeCorrect, RestHolds, PTL DEF ChatSpec

-----------------------------------------------------------------------------
(* The badge.                                                              *)

\* Memory and the table count every message that is new in the chat.
BadgeInv ==
    blurred \/ (chat.unread >= Cardinality(fresh) /\ table.unread >= Cardinality(fresh))

\* Sets of messages of the peer.
LEMMA Fewer ==
    ASSUME NEW S \in SUBSET Rows, NEW T \in SUBSET S
    PROVE  /\ Cardinality(T) \in Nat /\ Cardinality(S) \in Nat
           /\ Cardinality(T) <= Cardinality(S)
           /\ Cardinality(S \ T) = Cardinality(S) - Cardinality(T)
  <1>1. IsFiniteSet(S) /\ Cardinality(S) \in Nat /\ Cardinality(T) \in Nat
    BY Counts
  <1>2. Cardinality(T) <= Cardinality(S)
    BY <1>1, FS_Subset
  <1>3. Cardinality(S \ T) = Cardinality(S) - Cardinality(S \cap T)
    BY <1>1, FS_Difference
  <1>4. S \cap T = T
    OBVIOUS
  <1>5. Cardinality(S \ T) = Cardinality(S) - Cardinality(T)
    BY <1>3, <1>4
  <1> QED
    BY <1>1, <1>2, <1>5

LEMMA BadgeNext == ChatTypeOK /\ DownInv /\ BadgeInv /\ [ChatNext]_chatVars => BadgeInv'
  <1> SUFFICES ASSUME ChatTypeOK, DownInv, BadgeInv, [ChatNext]_chatVars PROVE BadgeInv'
    OBVIOUS
  <1>1. chat.unread \in Nat /\ table.unread \in Nat /\ fresh \in SUBSET Rows /\ fresh \subseteq Theirs
    BY DEF ChatTypeOK, AppType, Rows
  <1>2. Cardinality(fresh) \in Nat /\ Cardinality({}) = 0
    BY <1>1, Counts, FS_EmptySet
  \* It is enough that the counts stay and what is new loses, or that all is read.
  <1>3. ASSUME fresh' \subseteq fresh, blurred' = blurred, chat'.unread \in {chat.unread, table.unread},
               table'.unread \in {chat.unread, table.unread}
        PROVE  BadgeInv'
    <2>1. Cardinality(fresh') <= Cardinality(fresh) /\ Cardinality(fresh') \in Nat
      BY <1>1, <1>3, Fewer
    <2> QED
      BY <1>1, <1>2, <1>3, <2>1 DEF BadgeInv
  <1>4. ASSUME ReadNow, chat'.unread \in Nat, table'.unread \in Nat
        PROVE  BadgeInv'
    BY <1>2, <1>4 DEF BadgeInv, ReadNow
  <1>5. ASSUME NEW m \in Rows, NEW kind \in {"message", "again"}, ReceiveMessage(m, kind)
        PROVE  BadgeInv'
    <2> DEFINE new == m \notin Loaded \cup Stored
               a == IF new THEN Inserted(m) ELSE chat
    <2>1. blurred' = blurred /\ chat'.unread = a.unread
      BY <1>5 DEF ReceiveMessage, Inserted, ChatTypeOK, AppType
    <2>2. CASE new /\ ~chat.open
      <3>1. a.unread = chat.unread + 1
        BY <2>2 DEF Inserted, ChatTypeOK, AppType
      <3>2. table'.unread = a.unread
        BY <1>5, <2>2 DEF ReceiveMessage, Previewed, ChatTypeOK, AppType
      <3>3. fresh' = fresh \cup {m}
        BY <1>5, <2>2 DEF ReceiveMessage
      <3>4. Cardinality(fresh') <= Cardinality(fresh) + 1 /\ Cardinality(fresh') \in Nat
        <4>1. IsFiniteSet(fresh)
          BY <1>1, Counts
        <4>2. Cardinality(fresh \cup {m}) = IF m \in fresh THEN Cardinality(fresh) ELSE Cardinality(fresh) + 1
          BY <4>1, FS_AddElement
        <4> QED
          BY <1>2, <3>3, <4>2
      <3> QED
        BY <1>1, <1>2, <2>1, <3>1, <3>2, <3>4 DEF BadgeInv
    <2>3. CASE ~(new /\ ~chat.open)
      <3>1. fresh' = fresh
        BY <1>5, <2>3 DEF ReceiveMessage
      <3>2. a.unread = chat.unread
        BY <2>3 DEF Inserted, ChatTypeOK, AppType
      <3>3. table'.unread \in {a.unread, table.unread}
        BY <1>5 DEF ReceiveMessage, Previewed, ChatTypeOK, AppType
      <3> QED
        BY <1>3, <2>1, <3>1, <3>2, <3>3
    <2> QED
      BY <2>2, <2>3
  <1>6. ASSUME NEW m \in Rows,
               \/ ReceiveLinked(m) \/ SendMessage(m) \/ PublishSucceeds(m) \/ PublishFails(m)
               \/ \E status \in {"received", "seen"} : ReceiveReceipt(m, status)
        PROVE  BadgeInv'
    <2>1. chat'.unread = chat.unread
      BY <1>6 DEF ReceiveLinked, SendMessage, PublishSucceeds, PublishFails, ReceiveReceipt, ChatTypeOK, AppType
    <2>2. table' = table /\ NotRead
      BY <1>6 DEF ReceiveLinked, SendMessage, PublishSucceeds, PublishFails, ReceiveReceipt
    <2> QED
      BY <1>3, <2>1, <2>2 DEF NotRead
  <1>7. ASSUME \/ \E m \in Rows : ReceiveRead(m)
               \/ \E M \in SUBSET Theirs : MarkSeen(M)
               \/ OpenChat \/ DeleteChat \/ SetUnread(FALSE)
        PROVE  BadgeInv'
    <2>1. chat'.unread = 0 /\ table'.unread \in {0, table.unread}
      BY <1>7 DEF ReceiveRead, MarkSeen, OpenChat, DeleteChat, SetUnread, ChatTypeOK, AppType
    <2>2. ReadNow
      BY <1>7 DEF ReceiveRead, MarkSeen, OpenChat, DeleteChat, SetUnread
    <2> QED
      BY <1>1, <1>4, <2>1, <2>2
  <1>8. CASE SetUnread(TRUE)
    <2>1. chat.unread = 0 /\ chat'.unread = 1 /\ table' = table /\ NotRead
      BY <1>8 DEF SetUnread, ChatTypeOK, AppType
    <2> QED
      BY <1>1, <1>2, <2>1 DEF BadgeInv, NotRead
  <1>9. ASSUME NEW m \in Rows, DeleteMessage(m)
        PROVE  BadgeInv'
    <2>1. chat'.unread = (IF chat.open THEN 0 ELSE chat.unread) /\ table'.unread = table.unread
      BY <1>9 DEF DeleteMessage, ChatTypeOK, AppType
    <2>2. CASE chat.open
      BY <1>1, <1>4, <1>9, <2>1, <2>2 DEF DeleteMessage
    <2>3. CASE ~chat.open
      BY <1>3, <1>9, <2>1, <2>3 DEF DeleteMessage
    <2> QED
      BY <2>2, <2>3
  <1>10. ASSUME \/ LeaveChat \/ Accept \/ SetReceipts \/ FlushFires \/ Tick \/ ReceiptsLeave
                \/ (OpenFinalized /\ ~chat.open)
         PROVE  BadgeInv'
    <2>1. chat'.unread = chat.unread
      BY <1>10 DEF LeaveChat, Accept, SetReceipts, FlushFires, Tick, ReceiptsLeave, OpenFinalized, ChatTypeOK, AppType
    <2>2. table' = table /\ NotRead
      BY <1>10 DEF LeaveChat, Accept, SetReceipts, FlushFires, Tick, ReceiptsLeave, OpenFinalized
    <2> QED
      BY <1>3, <2>1, <2>2 DEF NotRead
  <1>11. CASE AlarmRings \/ (OpenFinalized /\ chat.open)
    <2> DEFINE M == {m \in Rows : Expired(m)}
               over == M \cap Loaded \cap Theirs
    <2>1. Prune
      BY <1>11 DEF AlarmRings, OpenFinalized
    <2>2. /\ chat'.unread = Minus(chat.unread, Cardinality(over)) /\ table'.unread = table.unread
          /\ fresh' = fresh \ M /\ blurred' = (blurred \/ ~(over \subseteq fresh))
      BY <2>1 DEF Prune, ChatTypeOK, AppType
    <2>3. over \in SUBSET Rows /\ over \subseteq M
      BY DEF Rows
    <2> HIDE DEF M, over
    <2>4. CASE ~(over \subseteq fresh) \/ blurred
      BY <2>2, <2>4 DEF BadgeInv
    <2>5. CASE over \subseteq fresh /\ ~blurred
      <3> DEFINE left == fresh \ over
      <3>1. /\ Cardinality(over) \in Nat /\ Cardinality(left) = Cardinality(fresh) - Cardinality(over)
            /\ Cardinality(over) <= Cardinality(fresh)
        BY <1>1, <2>5, Fewer
      <3>2. left \in SUBSET Rows /\ fresh' \in SUBSET left
        BY <1>1, <2>2, <2>3
      <3> HIDE DEF left
      <3>3. Cardinality(fresh') <= Cardinality(left) /\ Cardinality(fresh') \in Nat /\ Cardinality(left) \in Nat
        BY <3>2, Fewer
      <3>4. chat.unread >= Cardinality(fresh) /\ table.unread >= Cardinality(fresh)
        BY <2>5 DEF BadgeInv
      <3>5. chat'.unread = chat.unread - Cardinality(over)
        BY <1>1, <1>2, <2>2, <3>1, <3>4 DEF Minus
      <3> QED
        BY <1>1, <1>2, <2>2, <3>1, <3>3, <3>4, <3>5 DEF BadgeInv
    <2> QED
      BY <2>4, <2>5
  <1>12. CASE EndBatch
    <2>1. chat' = chat /\ NotRead
      BY <1>12 DEF EndBatch
    <2>2. table'.unread \in {chat.unread, table.unread}
      BY <1>12 DEF EndBatch, ChatTypeOK, AppType
    <2> QED
      BY <1>3, <2>1, <2>2 DEF NotRead
  <1>13. CASE EndProcess
    BY <1>3, <1>13 DEF EndProcess, NotRead
  <1>14. CASE StartProcess
    <2>1. table'.unread = table.unread /\ chat'.unread = table.unread
      BY <1>14 DEF StartProcess, ChatTypeOK, AppType
    <2>2. fresh' \subseteq fresh /\ blurred' = blurred
      BY <1>14 DEF StartProcess
    <2> QED
      BY <1>3, <2>1, <2>2
  <1>15. CASE UNCHANGED chatVars
    BY <1>3, <1>15 DEF chatVars
  <1>16. ASSUME NEW mark \in BOOLEAN, SetUnread(mark) PROVE BadgeInv'
    BY <1>7, <1>8, <1>16
  <1> QED
    BY <1>5, <1>6, <1>7, <1>9, <1>10, <1>11, <1>12, <1>13, <1>14, <1>15, <1>16 DEF ChatNext, Arrives

\* A message that came with the chat closed and that nobody has read on any device keeps
\* the badge lit, wherever the process ended since, unless messages that had been read
\* have expired meanwhile.
THEOREM ChatUnreadIsShown == ChatSpec => []UnreadIsShown
  <1>1. ChatInit => BadgeInv
    <2>1. Cardinality({}) = 0
      BY FS_EmptySet
    <2> QED
      BY <2>1 DEF ChatInit, BadgeInv
  <1>2. ChatTypeOK /\ RestInv /\ BadgeInv /\ [ChatNext]_chatVars => BadgeInv'
    BY BadgeNext DEF RestInv
  <1>3. ChatTypeOK /\ BadgeInv => UnreadIsShown
    <2> SUFFICES ASSUME ChatTypeOK, BadgeInv, fresh # {}, ~blurred PROVE chat.unread > 0
      BY DEF UnreadIsShown
    <2>1. IsFiniteSet(fresh) /\ Cardinality(fresh) \in Nat /\ chat.unread \in Nat
      BY Counts DEF ChatTypeOK, AppType, Rows
    <2>2. Cardinality(fresh) # 0
      BY <2>1, FS_EmptySet
    <2> QED
      BY <2>1, <2>2 DEF BadgeInv
  <1> QED
    BY <1>1, <1>2, <1>3, ChatTypeCorrect, RestHolds, PTL DEF ChatSpec
=============================================================================
