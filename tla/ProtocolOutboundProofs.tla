----------------------- MODULE ProtocolOutboundProofs -----------------------
(* Theorems about ProtocolOutbound, for any messages and devices. *)
EXTENDS ProtocolOutbound, TLAPS

\* A state of the engine makes sense: one entry for a message that was sent.
Consistent(e) ==
    /\ e \in EngineType
    /\ \A p, q \in e.pending : p.msg = q.msg => p = q
    /\ \A p \in e.pending : p.msg \in sent

\* An entry has written down every device that was given the message.
Recorded(e) == \A p \in e.pending, v \in offered : v.msg = p.msg => v.dev \in p.done

IInv ==
    /\ TypeOK
    /\ Consistent(engine) /\ Consistent(disk)
    /\ \A v \in offered : v.msg \in sent
    /\ ~torn => Recorded(engine)
    /\ ~torn /\ ~dirty => Recorded(disk)
    /\ OneCopyEach

-----------------------------------------------------------------------------
(* The operators of a retry.                                               *)

LEMMA WorkedType ==
    ASSUME NEW e \in EngineType, NEW p \in Pending, NEW late \in BOOLEAN
    PROVE  /\ Worked(e, p, late) \in Pending
           /\ Worked(e, p, late).msg = p.msg
           /\ Worked(e, p, late).done = p.done \cup (Left(e, p) \cap e.reach)
  BY DEF Worked, Pending, EngineType, Left, RemoteLeft, LocalLeft, Devices

LEMMA EncryptedType ==
    ASSUME NEW e \in EngineType, NEW D \in SUBSET e.pending
    PROVE  /\ Encrypted(e, D) \subseteq Event
           /\ \A v \in Encrypted(e, D) :
                 \E p \in D : v.msg = p.msg /\ v.dev \in Left(e, p) \cap e.reach
  <1>1. D \subseteq Pending /\ e.reach \subseteq Devices
    BY DEF EngineType
  <1> QED
    BY <1>1 DEF Encrypted, Event, Pending

LEMMA MislaysType ==
    ASSUME NEW e, Consistent(e), NEW D \in SUBSET e.pending
    PROVE  Mislays(e, D) \subseteq sent
  BY DEF Mislays, Consistent

\* A retry works on entries one by one: what is left are old ones and worked ones.
LEMMA RetriedType ==
    ASSUME NEW e, Consistent(e), NEW D \in SUBSET e.pending, NEW late \in BOOLEAN
    PROVE  /\ Consistent(Retried(e, D, late))
           /\ \A q \in Retried(e, D, late).pending :
                 q \in e.pending \ D \/ \E p \in D : q = Worked(e, p, late) /\ Kept(e, p, late)
  <1> DEFINE W == {Worked(e, p, late) : p \in {q \in D : Kept(e, q, late)}}
             new == (e.pending \ D) \cup W
  <1>1. e \in EngineType /\ e.pending \subseteq Pending
    BY DEF Consistent, EngineType
  <1>2. \A p \in D : Worked(e, p, late) \in Pending /\ Worked(e, p, late).msg = p.msg
    BY <1>1, WorkedType
  <1>3. /\ Retried(e, D, late) \in EngineType
        /\ Retried(e, D, late).pending = new
    <2>1. new \in SUBSET Pending
      BY <1>1, <1>2
    <2>2. Retried(e, D, late) = [e EXCEPT !.pending = new]
      BY DEF Retried
    <2> HIDE DEF new
    <2> QED
      BY <1>1, <2>1, <2>2 DEF EngineType
  <1>4. \A q \in new : q \in e.pending \ D \/ \E p \in D : q = Worked(e, p, late) /\ Kept(e, p, late)
    OBVIOUS
  <1>5. \A q \in new : \E p \in e.pending :
            /\ q.msg = p.msg
            /\ p \in D => q = Worked(e, p, late)
            /\ p \notin D => q = p
    BY <1>2, <1>4
  <1>6. \A p, q \in new : p.msg = q.msg => p = q
    BY <1>5 DEF Consistent
  <1>7. \A p \in new : p.msg \in sent
    BY <1>5 DEF Consistent
  <1> HIDE DEF new, W
  <1> QED
    BY <1>3, <1>4, <1>6, <1>7 DEF Consistent

LEMMA ReconcileType ==
    ASSUME NEW a \in [Messages -> Delivery], NEW e, NEW r, NEW M
    PROVE  Reconcile(a, e, r, M) \in [Messages -> Delivery]
  BY DEF Reconcile, Delivery

-----------------------------------------------------------------------------
(* The invariant is inductive.                                             *)

LEMMA InitHolds == Init => IInv
  <1> SUFFICES ASSUME Init PROVE IInv
    OBVIOUS
  <1>1. engine \in EngineType /\ engine.pending = {} /\ disk = engine
    BY DeviceAssumption DEF Init, EngineType
  <1>2. app \in [Messages -> Delivery] /\ saved = app
    BY DEF Init, Delivery
  <1>3. TypeOK
    BY <1>1, <1>2 DEF Init, TypeOK
  <1> QED
    BY <1>1, <1>3 DEF Init, IInv, Consistent, Recorded, OneCopyEach

LEMMA SendKeeps ==
    ASSUME IInv, NEW m \in Messages, Send(m)
    PROVE  IInv'
  <1> USE DEF IInv
  <1>1. PICK L \in SUBSET (engine.local \cap engine.reach), gap \in BOOLEAN : SendFrom(m, L, gap)
    BY DEF Send
  <1>2. /\ m \notin sent /\ sent' = sent \cup {m}
        /\ UNCHANGED <<phase, hit, mislaid, disk, saved, torn>> /\ phase = "up"
    BY DEF Send, StoresUnchanged
  <1> DEFINE D == (engine.roster \cap engine.reach) \cup L
             E == {[msg |-> m, dev |-> d] : d \in D}
  <1>3. PICK entry \in Pending :
            /\ entry.msg = m /\ entry.done = D
            /\ \/ engine' = [engine EXCEPT !.pending = @ \cup {entry}]
               \/ engine' = engine
    <2> DEFINE gaps  == gap \/ engine.roster = {} \/ ~(engine.roster \subseteq engine.reach)
               probe == ~gap /\ L = {} /\ ~Authoritative(engine)
               entry == [msg |-> m, done |-> D, probe |-> probe,
                         reason |-> IF engine.roster = {} THEN "MissingRoster"
                                    ELSE IF gaps THEN "MissingDeviceInvite" ELSE "PublishRetry"]
    <2>1. D \subseteq Devices
      BY DEF TypeOK, EngineType, Devices
    <2>2. entry \in Pending /\ entry.msg = m /\ entry.done = D
      BY <2>1 DEF Pending
    <2>3. engine' = [engine EXCEPT !.pending = IF gaps \/ probe \/ ~(engine.local \subseteq L)
                                               THEN @ \cup {entry} ELSE @]
      BY <1>1 DEF SendFrom
    <2> HIDE DEF entry, gaps, probe
    <2>4. engine' = [engine EXCEPT !.pending = @ \cup {entry}] \/ engine' = engine
      BY <2>3 DEF TypeOK, EngineType
    <2> QED
      BY <2>2, <2>4
  <1>4. dirty' = TRUE /\ Publish(E)
    BY <1>1 DEF SendFrom
  <1>5. app' \in [Messages -> Delivery]
    <2>1. [app EXCEPT ![m] = "waiting"] \in [Messages -> Delivery]
      BY DEF TypeOK, Delivery
    <2> QED
      BY <1>1, <2>1, ReconcileType DEF SendFrom
  <1>6. E \subseteq Event /\ \A v \in E : v.msg = m /\ v.dev \in D
    BY DEF TypeOK, EngineType, Event, Devices
  <1> HIDE DEF D, E
  <1>7. engine' \in EngineType /\ engine'.pending \subseteq engine.pending \cup {entry}
    BY <1>3 DEF TypeOK, EngineType
  <1>8. Consistent(engine)' /\ Consistent(disk)'
    BY <1>2, <1>3, <1>7 DEF Consistent
  <1>9. rows' = rows \cup E /\ offered' = offered \cup E /\ repeated' = repeated
    BY <1>2, <1>4, <1>6 DEF Publish, TypeOK, OneCopyEach
  <1>10. ~torn' => Recorded(engine)'
    BY <1>2, <1>3, <1>6, <1>7, <1>9 DEF Recorded, Consistent
  <1>11. TypeOK'
    BY <1>2, <1>4, <1>5, <1>6, <1>7, <1>8, <1>9 DEF TypeOK, Consistent
  <1> QED
    BY <1>2, <1>4, <1>6, <1>8, <1>9, <1>10, <1>11 DEF OneCopyEach

\* A retry from engine state e, which knows more than the engine did.
RetryFrom(e, wrote, D) ==
    /\ phase = "up" /\ e \in EngineType /\ e.pending = engine.pending
    /\ D \subseteq e.pending /\ wrote \in BOOLEAN
    /\ Retry(e, wrote, D)
    /\ UNCHANGED <<phase, sent>> /\ StoresUnchanged

LEMMA RetryKeeps ==
    ASSUME IInv, NEW e, NEW wrote, NEW D, RetryFrom(e, wrote, D)
    PROVE  IInv'
  <1> USE DEF IInv
  <1>1. /\ e \in EngineType /\ e.pending = engine.pending /\ D \in SUBSET e.pending
        /\ wrote \in BOOLEAN
        /\ UNCHANGED <<phase, sent, disk, saved, torn>> /\ phase = "up"
    BY DEF RetryFrom, StoresUnchanged
  <1>2. Consistent(e)
    BY <1>1 DEF Consistent
  <1>3. Consistent(disk)'
    BY <1>1 DEF Consistent
  <1>4. /\ Encrypted(e, D) \subseteq Event
        /\ \A v \in Encrypted(e, D) :
              \E p \in D : v.msg = p.msg /\ v.dev \in Left(e, p) \cap e.reach
    BY <1>1, EncryptedType
  <1>5. \A v \in Encrypted(e, D) : v.msg \in sent
    BY <1>1, <1>2, <1>4 DEF Consistent
  <1>6. ~torn => offered \cap Encrypted(e, D) = {}
    BY <1>1, <1>4 DEF Recorded, Left, RemoteLeft, LocalLeft
  <1>7. ASSUME NEW late \in BOOLEAN, NEW q \in Retried(e, D, late).pending, ~torn,
               NEW v \in offered \cup Encrypted(e, D), v.msg = q.msg
        PROVE  v.dev \in q.done
    <2>1. CASE q \in e.pending \ D
      BY <1>1, <1>2, <1>4, <1>7, <2>1 DEF Recorded, Consistent
    <2>2. CASE \E p \in D : q = Worked(e, p, late)
      <3>1. PICK p \in D : q = Worked(e, p, late)
        BY <2>2
      <3>2. p \in Pending /\ q.msg = p.msg /\ q.done = p.done \cup (Left(e, p) \cap e.reach)
        BY <1>1, <3>1, WorkedType DEF EngineType
      <3>3. CASE v \in offered
        BY <1>1, <1>7, <3>2, <3>3 DEF Recorded
      <3>4. CASE v \in Encrypted(e, D)
        BY <1>1, <1>2, <1>4, <1>7, <3>2, <3>4 DEF Consistent
      <3> QED
        BY <3>3, <3>4
    <2> QED
      BY <1>1, <1>2, <1>7, <2>1, <2>2, RetriedType
  <1>8. CASE \E late \in BOOLEAN : RetryWorks(e, wrote, D, late)
    <2>1. PICK late \in BOOLEAN : RetryWorks(e, wrote, D, late)
      BY <1>8
    <2>2. /\ engine' = Retried(e, D, late)
          /\ dirty' = (dirty \/ wrote \/ Changes(e, D, late))
          /\ Publish(Encrypted(e, D)) /\ hit' = hit /\ mislaid' = mislaid \cup Mislays(e, D)
      BY <2>1 DEF RetryWorks
    <2>3. app' \in [Messages -> Delivery]
      BY <2>1, ReconcileType DEF RetryWorks, TypeOK
    <2>4. Consistent(engine)'
      <3>1. Consistent(Retried(e, D, late))
        BY <1>1, <1>2, RetriedType
      <3> QED
        BY <1>1, <2>2, <3>1 DEF Consistent
    <2>5. offered' = offered \cup Encrypted(e, D) /\ rows' = rows \cup Encrypted(e, D)
      BY <2>2 DEF Publish
    <2>6. ~torn' => Recorded(engine)'
      BY <1>1, <1>7, <2>2, <2>5 DEF Recorded
    <2>7. ~torn' /\ ~dirty' => Recorded(disk)'
      BY <1>1, <2>2, <2>5 DEF Recorded, Changes
    <2>8. repeated' = repeated
      BY <1>6, <2>2 DEF Publish, TypeOK, OneCopyEach
    <2>9. TypeOK'
      BY <1>1, <1>2, <1>4, <2>2, <2>3, <2>4, <2>5, <2>8, MislaysType DEF TypeOK, Consistent
    <2> QED
      BY <1>1, <1>3, <1>5, <2>4, <2>5, <2>6, <2>7, <2>8, <2>9 DEF OneCopyEach
  <1>9. CASE RetryBreaks(e, wrote, D)
    <2>1. /\ engine' = [e EXCEPT !.pending = {}] /\ dirty' = (dirty \/ wrote)
          /\ hit' = hit \cup {p.msg : p \in e.pending}
          /\ UNCHANGED <<rows, offered, repeated, app, mislaid>>
      BY <1>9 DEF RetryBreaks, NoPublish
    <2>2. engine' \in EngineType /\ engine'.pending = {}
      BY <1>1, <2>1 DEF EngineType
    <2>3. Consistent(engine)' /\ hit' \subseteq sent'
      BY <1>1, <1>2, <2>1, <2>2 DEF Consistent, TypeOK
    <2>4. TypeOK'
      BY <1>1, <2>1, <2>2, <2>3 DEF TypeOK
    <2> QED
      BY <1>1, <1>3, <2>1, <2>2, <2>3, <2>4 DEF OneCopyEach, Recorded
  <1>10. CASE \E late \in BOOLEAN : ResultsDropped(e, wrote, D, late)
    <2>1. PICK late \in BOOLEAN : ResultsDropped(e, wrote, D, late)
      BY <1>10
    <2>2. /\ engine' = Retried(e, D, late)
          /\ dirty' = (dirty \/ wrote \/ Changes(e, D, late))
          /\ hit' = hit \cup {v.msg : v \in Encrypted(e, D)}
          /\ mislaid' = mislaid \cup Mislays(e, D)
          /\ UNCHANGED <<rows, offered, repeated, app>>
      BY <2>1 DEF ResultsDropped, NoPublish
    <2>3. Consistent(engine)' /\ hit' \subseteq sent'
      <3>1. Consistent(Retried(e, D, late))
        BY <1>1, <1>2, RetriedType
      <3>2. Consistent(engine)'
        BY <1>1, <2>2, <3>1 DEF Consistent
      <3>3. hit' \subseteq sent'
        BY <1>1, <1>5, <2>2 DEF TypeOK
      <3> QED
        BY <3>2, <3>3
    <2>4. ~torn' => Recorded(engine)'
      BY <1>1, <1>7, <2>2 DEF Recorded
    <2>5. TypeOK'
      BY <1>1, <1>2, <2>2, <2>3, MislaysType DEF TypeOK, Consistent
    <2> QED
      BY <1>1, <1>3, <2>2, <2>3, <2>4, <2>5 DEF OneCopyEach, Recorded
  <1> QED
    BY <1>8, <1>9, <1>10 DEF RetryFrom, Retry

LEMMA StepKeeps == IInv /\ [Next]_vars => IInv'
  <1> SUFFICES ASSUME IInv, [Next]_vars PROVE IInv'
    OBVIOUS
  <1> USE DEF IInv
  <1>1. CASE UNCHANGED vars
    BY <1>1 DEF vars, TypeOK, Consistent, Recorded, OneCopyEach
  <1>2. ASSUME NEW m \in Messages, Send(m) PROVE IInv'
    BY <1>2, SendKeeps
  <1>3. ASSUME NEW D \in SUBSET engine.pending, RetryDue(D) PROVE IInv'
    <2>1. RetryFrom(engine, FALSE, D)
      BY <1>3 DEF RetryDue, RetryFrom, TypeOK
    <2> QED
      BY <2>1, RetryKeeps
  <1>4. ASSUME NEW e \in EngineType, e.pending = engine.pending, Learned(e) PROVE IInv'
    <2>1. RetryFrom(e, TRUE, e.pending)
      BY <1>4 DEF Learned, RetryFrom
    <2> QED
      BY <2>1, RetryKeeps
  <1>5. ASSUME NEW R \in SUBSET Peers, LearnRoster(R) PROVE IInv'
    <2> DEFINE e == [engine EXCEPT !.roster = R]
    <2>1. e \in EngineType /\ e.pending = engine.pending
      BY DEF TypeOK, EngineType
    <2>2. Learned(e)
      BY <1>5 DEF LearnRoster
    <2> HIDE DEF e
    <2> QED
      BY <1>4, <2>1, <2>2
  <1>6. ASSUME NEW L \in SUBSET Siblings, LearnLocalRoster(L) PROVE IInv'
    <2> DEFINE e == [engine EXCEPT !.local = L, !.observed = TRUE]
    <2>1. e \in EngineType /\ e.pending = engine.pending
      BY DEF TypeOK, EngineType
    <2>2. Learned(e)
      BY <1>6 DEF LearnLocalRoster
    <2> HIDE DEF e
    <2> QED
      BY <1>4, <2>1, <2>2
  <1>7. ASSUME NEW d \in Devices, LearnInvite(d) PROVE IInv'
    <2> DEFINE e == [engine EXCEPT !.reach = @ \cup {d}]
    <2>1. e \in EngineType /\ e.pending = engine.pending
      BY DEF TypeOK, EngineType
    <2>2. Learned(e)
      BY <1>7 DEF LearnInvite
    <2> HIDE DEF e
    <2> QED
      BY <1>4, <2>1, <2>2
  <1>8. ASSUME NEW v \in rows, Published(v) PROVE IInv'
    <2>1. app' \in [Messages -> Delivery]
      BY <1>8, ReconcileType DEF Published, TypeOK
    <2> QED
      BY <1>8, <2>1 DEF Published, StoresUnchanged, TypeOK, Consistent, Recorded, OneCopyEach
  <1>9. ASSUME NEW v \in rows, PublishFailed(v) PROVE IInv'
    <2>1. app' \in [Messages -> Delivery]
      BY <1>9 DEF PublishFailed, TypeOK, Delivery
    <2> QED
      BY <1>9, <2>1
         DEF PublishFailed, StoresUnchanged, TypeOK, Consistent, Recorded, OneCopyEach
  <1>10. CASE FlushEngine
    BY <1>10 DEF FlushEngine, TypeOK, Consistent, Recorded, OneCopyEach
  <1>11. CASE SaveApp
    BY <1>11 DEF SaveApp, TypeOK, Consistent, Recorded, OneCopyEach
  <1>12. CASE Crash
    <2>1. /\ engine' = [disk EXCEPT !.observed = FALSE] /\ app' = saved
          /\ dirty' = FALSE /\ torn' = (torn \/ dirty) /\ phase' = "down"
          /\ UNCHANGED <<disk, saved, rows, offered, repeated, sent, hit, mislaid>>
      BY <1>12 DEF Crash
    <2>2. engine' \in EngineType /\ engine'.pending = disk.pending
      BY <2>1 DEF TypeOK, EngineType
    <2>3. Consistent(engine)' /\ Consistent(disk)'
      BY <2>1, <2>2 DEF Consistent
    <2>4. TypeOK'
      BY <2>1, <2>2, <2>3 DEF TypeOK, Consistent
    <2> QED
      BY <2>1, <2>2, <2>3, <2>4 DEF Recorded, OneCopyEach, TypeOK
  <1>13. CASE Restart
    BY <1>13 DEF Restart, TypeOK, Consistent, Recorded, OneCopyEach
  <1> QED
    BY <1>1, <1>2, <1>3, <1>5, <1>6, <1>7, <1>8, <1>9, <1>10, <1>11, <1>12, <1>13
       DEF Next, EndOfBatch

LEMMA Invariance == Spec => []IInv
  BY InitHolds, StepKeeps, PTL DEF Spec

-----------------------------------------------------------------------------
\* The variables keep their types, a message has one entry in the queue at most and
\* the engine's mark is set in a batch only.
THEOREM OutboundTypeCorrect == Spec => []TypeOK
  <1>1. IInv => TypeOK
    BY DEF IInv
  <1> QED
    BY Invariance, <1>1, PTL

\* However sends, retries, device lists, invites, errors and crashes follow one
\* another, no message is encrypted for a device for which it was encrypted and
\* published already, unless a crash had made away with engine state.
THEOREM EncryptedOnce == Spec => []OneCopyEach
  <1>1. IInv => OneCopyEach
    BY DEF IInv
  <1> QED
    BY Invariance, <1>1, PTL

-----------------------------------------------------------------------------
(* What is pending stays so until it is given.                             *)

Given(m, d) == \E v \in offered : v.msg = m /\ v.dev = d

\* No entry but the mislaid ones has stopped waiting for the peer's device list
\* without it, and what an entry has written down as given was given.
Waits(e) ==
    /\ \A p \in e.pending : p.reason # "MissingRoster" => e.roster # {} \/ p.msg \in mislaid
    /\ \A p \in e.pending : p.msg \in hit \/ \A d \in p.done : Given(p.msg, d)

\* The stored queue has what the stored chat has and memory's queue still has.
Followed ==
    /\ \A m \in Messages : InChat(m) => m \in sent
    /\ \A m \in Messages : saved[m] # NotThere => InChat(m)
    /\ \A p \in engine.pending :
           p.msg \notin hit /\ (saved[p.msg] # NotThere \/ ~dirty) => \E q \in disk.pending : q.msg = p.msg

WInv == Waits(engine) /\ Waits(disk) /\ Followed

\* Reconciling neither adds messages to the chat nor removes any.
LEMMA ReconcileStays ==
    ASSUME NEW a \in [Messages -> Delivery], NEW e, NEW r, NEW M, NEW m \in Messages
    PROVE  Reconcile(a, e, r, M)[m] # NotThere <=> a[m] # NotThere
  BY DEF Reconcile, NotThere

StepSettles == \A m \in Messages : Settles(m) => GivenToAll(m)'

LEMMA SendWaits ==
    ASSUME IInv, WInv, NEW m \in Messages, Send(m)
    PROVE  WInv' /\ StepSettles
  <1>1. PICK L \in SUBSET (engine.local \cap engine.reach), gap \in BOOLEAN : SendFrom(m, L, gap)
    BY DEF Send
  <1>2. /\ m \notin sent /\ sent' = sent \cup {m}
        /\ UNCHANGED <<phase, hit, mislaid, disk, saved, torn>> /\ phase = "up"
    BY DEF Send, StoresUnchanged
  <1> DEFINE D     == (engine.roster \cap engine.reach) \cup L
             gaps  == gap \/ engine.roster = {} \/ ~(engine.roster \subseteq engine.reach)
             probe == ~gap /\ L = {} /\ ~Authoritative(engine)
             entry == [msg |-> m, done |-> D, probe |-> probe,
                       reason |-> IF engine.roster = {} THEN "MissingRoster"
                                  ELSE IF gaps THEN "MissingDeviceInvite" ELSE "PublishRetry"]
             queued == gaps \/ probe \/ ~(engine.local \subseteq L)
  <1>3. engine' = [engine EXCEPT !.pending = IF queued THEN @ \cup {entry} ELSE @]
    BY <1>1 DEF SendFrom
  <1>4. /\ engine'.pending = IF queued THEN engine.pending \cup {entry} ELSE engine.pending
        /\ engine'.roster = engine.roster /\ engine'.local = engine.local
        /\ engine'.reach = engine.reach
    BY <1>3 DEF IInv, TypeOK, EngineType
  <1>5. offered' = offered \cup {[msg |-> m, dev |-> d] : d \in D}
    BY <1>1 DEF SendFrom, Publish
  <1>6. \A n, d : Given(n, d) => Given(n, d)'
    BY <1>5 DEF Given
  <1>7. ASSUME NEW d \in D PROVE Given(m, d)'
    <2> DEFINE v == [msg |-> m, dev |-> d]
    <2>1. v \in offered' /\ v.msg = m /\ v.dev = d
      BY <1>5
    <2> HIDE DEF v
    <2> QED
      BY <2>1 DEF Given
  <1>8. entry.msg = m /\ entry.done = D /\ (entry.reason # "MissingRoster" => engine.roster # {})
    OBVIOUS
  <1>9. ~queued => engine.roster # {} /\ engine.roster \cup engine.local \subseteq D
    OBVIOUS
  <1>12. dirty' = TRUE /\ \A n \in Messages : InChat(n)' => n = m \/ InChat(n)
    <2> DEFINE fresh == [app EXCEPT ![m] = "waiting"]
    <2>1. fresh \in [Messages -> Delivery] /\ \A n \in Messages : n # m => fresh[n] = app[n]
      BY DEF IInv, TypeOK, Delivery
    <2>2. dirty' = TRUE /\ \E e : app' = Reconcile(fresh, e, rows', {m})
      BY <1>1 DEF SendFrom
    <2> HIDE DEF fresh
    <2> QED
      BY <2>1, <2>2, ReconcileStays DEF InChat
  <1>13. \A n \in Messages : InChat(n) => InChat(n)'
    <2> DEFINE fresh == [app EXCEPT ![m] = "waiting"]
    <2>1. fresh \in [Messages -> Delivery] /\ \A n \in Messages : app[n] # NotThere => fresh[n] # NotThere
      BY DEF IInv, TypeOK, Delivery, NotThere
    <2>2. \E e : app' = Reconcile(fresh, e, rows', {m})
      BY <1>1 DEF SendFrom
    <2> HIDE DEF fresh
    <2> QED
      BY <2>1, <2>2, ReconcileStays DEF InChat
  <1> HIDE DEF entry, D, queued
  <1>10. Waits(engine)' /\ Waits(disk)'
    BY <1>2, <1>4, <1>6, <1>7, <1>8 DEF WInv, Waits
  <1>11. ASSUME NEW n \in Messages, Settles(n) PROVE GivenToAll(n)'
    <2>1. n = m /\ ~queued
      BY <1>2, <1>4, <1>8, <1>11, <1>12 DEF Settles, IsPending
    <2> QED
      BY <1>4, <1>7, <1>9, <2>1 DEF GivenToAll, Given
  <1>14. Followed'
    <2>1. \A n \in Messages : InChat(n)' => n \in sent'
      BY <1>2, <1>12 DEF WInv, Followed
    <2>2. \A n \in Messages : saved'[n] # NotThere => InChat(n)'
      BY <1>2, <1>13 DEF WInv, Followed
    <2>3. saved[m] = NotThere
      BY <1>2 DEF WInv, Followed
    <2>4. \A p \in engine'.pending :
             p.msg \notin hit' /\ (saved'[p.msg] # NotThere \/ ~dirty') => \E q \in disk'.pending : q.msg = p.msg
      BY <1>2, <1>4, <1>8, <1>12, <2>3 DEF WInv, Followed
    <2> QED
      BY <2>1, <2>2, <2>4 DEF Followed
  <1> QED
    BY <1>10, <1>11, <1>14 DEF WInv, StepSettles

LEMMA WorkedWaits ==
    ASSUME NEW e \in EngineType, NEW D \in SUBSET e.pending, NEW p \in D, NEW late \in BOOLEAN
    PROVE  /\ Worked(e, p, late).reason # "MissingRoster" =>
                 e.roster # {} \/ p.reason # "MissingRoster" \/ p.msg \in Mislays(e, D)
           /\ ~Kept(e, p, late) =>
                 /\ e.roster # {} \/ Worked(e, p, late).reason # "MissingRoster"
                 /\ e.roster \cup e.local \subseteq Worked(e, p, late).done
  <1> DEFINE q == Worked(e, p, late)
  <1>1. p \in Pending
    BY DEF EngineType
  <1>2. /\ q.done = p.done \cup (Left(e, p) \cap e.reach)
        /\ q.reason = IF Left(e, p) \subseteq e.reach THEN p.reason ELSE "MissingDeviceInvite"
    BY <1>1 DEF Worked, Pending
  <1> HIDE DEF q
  <1>3. q.reason # "MissingRoster" =>
            e.roster # {} \/ p.reason # "MissingRoster" \/ p.msg \in Mislays(e, D)
    BY <1>2 DEF Mislays, AwaitsRoster
  <1>4. ASSUME ~Kept(e, p, late)
        PROVE  /\ e.roster # {} \/ q.reason # "MissingRoster"
               /\ e.roster \cup e.local \subseteq q.done
    <2>1. \/ Left(e, q) = {} /\ ~AwaitsRoster(e, q)
          \/ Left(e, p) = {} /\ q.reason = "PublishRetry"
      BY <1>4 DEF Kept, HasTargets, q
    <2>2. e.roster # {} \/ q.reason # "MissingRoster"
      BY <2>1 DEF AwaitsRoster
    <2> QED
      BY <1>2, <2>1, <2>2 DEF Left, RemoteLeft, LocalLeft
  <1> QED
    BY <1>3, <1>4 DEF q

LEMMA RetryWaits ==
    ASSUME IInv, WInv, NEW e, NEW wrote, NEW D, RetryFrom(e, wrote, D),
           engine.roster # {} => e.roster # {}
    PROVE  WInv' /\ StepSettles
  <1>1. /\ e \in EngineType /\ e.pending = engine.pending /\ D \in SUBSET e.pending
        /\ UNCHANGED <<phase, sent, disk, saved>> /\ wrote \in BOOLEAN
    BY DEF RetryFrom, StoresUnchanged
  <1>2. Waits(e) /\ Consistent(e)
    BY <1>1 DEF IInv, WInv, Waits, Consistent
  <1>3. \A late \in BOOLEAN :
           /\ Consistent(Retried(e, D, late))
           /\ \A q \in Retried(e, D, late).pending :
                 q \in e.pending \ D \/ \E p \in D : q = Worked(e, p, late) /\ Kept(e, p, late)
    BY <1>1, <1>2, RetriedType
  <1>4. \A late \in BOOLEAN :
           LET r == Retried(e, D, late)
           IN  /\ r.roster = e.roster /\ r.local = e.local /\ r.reach = e.reach
               /\ \A p \in e.pending \ D : p \in r.pending
               /\ \A p \in D : Kept(e, p, late) => Worked(e, p, late) \in r.pending
    BY <1>1 DEF Retried, EngineType
  <1> DEFINE forgot == mislaid \cup Mislays(e, D)
  <1>5. \A p \in D, late \in BOOLEAN :
           /\ Worked(e, p, late).msg = p.msg
           /\ Worked(e, p, late).done = p.done \cup (Left(e, p) \cap e.reach)
           /\ Worked(e, p, late).reason # "MissingRoster" => e.roster # {} \/ p.msg \in forgot
           /\ ~Kept(e, p, late) =>
                 /\ e.roster # {} \/ p.msg \in forgot
                 /\ e.roster \cup e.local \subseteq Worked(e, p, late).done
    <2> SUFFICES ASSUME NEW p \in D, NEW late \in BOOLEAN
                 PROVE  /\ Worked(e, p, late).msg = p.msg
                        /\ Worked(e, p, late).done = p.done \cup (Left(e, p) \cap e.reach)
                        /\ Worked(e, p, late).reason # "MissingRoster" => e.roster # {} \/ p.msg \in forgot
                        /\ ~Kept(e, p, late) =>
                              /\ e.roster # {} \/ p.msg \in forgot
                              /\ e.roster \cup e.local \subseteq Worked(e, p, late).done
      OBVIOUS
    <2>1. p \in Pending
      BY <1>1 DEF EngineType
    <2>2. /\ Worked(e, p, late).msg = p.msg
          /\ Worked(e, p, late).done = p.done \cup (Left(e, p) \cap e.reach)
      BY <1>1, <2>1, WorkedType
    <2>3. /\ Worked(e, p, late).reason # "MissingRoster" =>
                e.roster # {} \/ p.reason # "MissingRoster" \/ p.msg \in Mislays(e, D)
          /\ ~Kept(e, p, late) =>
                /\ e.roster # {} \/ Worked(e, p, late).reason # "MissingRoster"
                /\ e.roster \cup e.local \subseteq Worked(e, p, late).done
      BY <1>1, WorkedWaits
    <2>4. p.reason # "MissingRoster" => e.roster # {} \/ p.msg \in mislaid
      BY <1>1, <1>2 DEF Waits
    <2> QED
      BY <2>2, <2>3, <2>4
  <1> HIDE DEF forgot
  <1>6. ASSUME NEW p \in D, NEW d \in Left(e, p) \cap e.reach
        PROVE  \E v \in Encrypted(e, D) : v.msg = p.msg /\ v.dev = d
    <2> DEFINE v == [msg |-> p.msg, dev |-> d]
    <2>1. v \in Encrypted(e, D) /\ v.msg = p.msg /\ v.dev = d
      BY DEF Encrypted
    <2> HIDE DEF v
    <2> QED
      BY <2>1
  <1>14. \A m \in Messages : InChat(m)' <=> InChat(m)
    <2>1. app \in [Messages -> Delivery] /\ (app' = app \/ \E f, M : app' = Reconcile(app, f, rows', M))
      BY DEF RetryFrom, Retry, RetryWorks, RetryBreaks, ResultsDropped, IInv, TypeOK
    <2> QED
      BY <2>1, ReconcileStays DEF InChat
  \* The stored queue is as good as before: entries go, or all are kept and written.
  <1>15. ASSUME \A q \in engine'.pending : \E p \in engine.pending : p.msg = q.msg,
                hit \subseteq hit', ~dirty' => ~dirty
         PROVE  Followed'
    <2>1. \A m \in Messages : (InChat(m)' => m \in sent') /\ (saved'[m] # NotThere => InChat(m)')
      BY <1>1, <1>14 DEF WInv, Followed
    <2>2. ASSUME NEW q \in engine'.pending, q.msg \notin hit', saved'[q.msg] # NotThere \/ ~dirty'
          PROVE  \E p \in disk'.pending : p.msg = q.msg
      <3>1. PICK p \in engine.pending : p.msg = q.msg
        BY <1>15, <2>2
      <3> QED
        BY <1>1, <1>15, <2>2, <3>1 DEF WInv, Followed
    <2> QED
      BY <2>1, <2>2 DEF Followed
  \* Enough: what the worked entries write down is given, or the message is hit.
  <1>7. ASSUME NEW late \in BOOLEAN, engine' = Retried(e, D, late), mislaid' = forgot, ~dirty' => ~dirty,
               hit \subseteq hit', \A n, d : Given(n, d) => Given(n, d)',
               \A p \in D : \/ p.msg \in hit'
                            \/ \A d \in Left(e, p) \cap e.reach : Given(p.msg, d)'
        PROVE  WInv' /\ StepSettles
    <2>1. \A p \in D : \/ p.msg \in hit'
                       \/ \A d \in Worked(e, p, late).done : Given(p.msg, d)'
      BY <1>1, <1>2, <1>5, <1>7 DEF Waits
    <2>2. ASSUME NEW q \in engine'.pending
          PROVE  /\ q.reason # "MissingRoster" => e.roster # {} \/ q.msg \in mislaid'
                 /\ q.msg \in hit' \/ \A d \in q.done : Given(q.msg, d)'
      <3>1. CASE q \in e.pending \ D
        BY <1>2, <1>7, <3>1 DEF Waits, forgot
      <3>2. CASE \E p \in D : q = Worked(e, p, late)
        BY <1>5, <1>7, <2>1, <3>2
      <3> QED
        BY <1>3, <1>7, <2>2, <3>1, <3>2
    <2>3. Waits(engine)'
      BY <1>2, <1>4, <1>7, <2>2 DEF Waits
    <2>4. Waits(disk)'
      BY <1>1, <1>7 DEF WInv, Waits, forgot
    <2>6. Followed'
      <3>1. \A q \in engine'.pending : \E p \in engine.pending : p.msg = q.msg
        BY <1>1, <1>3, <1>5, <1>7
      <3> QED
        BY <1>7, <1>15, <3>1
    <2>5. ASSUME NEW n \in Messages, Settles(n) PROVE GivenToAll(n)'
      <3>1. PICK p \in e.pending : p.msg = n
        BY <1>1, <1>14, <2>5 DEF Settles, IsPending
      <3>2. p \in D /\ ~Kept(e, p, late)
        BY <1>4, <1>5, <1>7, <2>5, <3>1 DEF Settles, IsPending
      <3>3. \A d \in e.roster \cup e.local : Given(n, d)'
        BY <1>5, <2>1, <2>5, <3>1, <3>2 DEF Settles
      <3>4. engine'.roster = e.roster /\ engine'.local = e.local
        BY <1>4, <1>7
      <3>5. engine'.roster # {} \/ n \in mislaid'
        BY <1>5, <1>7, <3>1, <3>2, <3>4
      <3> QED
        BY <3>3, <3>4, <3>5 DEF GivenToAll, Given
    <2> QED
      BY <2>3, <2>4, <2>5, <2>6 DEF WInv, StepSettles
  <1>8. CASE \E late \in BOOLEAN : RetryWorks(e, wrote, D, late)
    <2>1. PICK late \in BOOLEAN : RetryWorks(e, wrote, D, late)
      BY <1>8
    <2>2. /\ engine' = Retried(e, D, late) /\ offered' = offered \cup Encrypted(e, D) /\ hit' = hit
          /\ mislaid' = forgot /\ (~dirty' => ~dirty)
      BY <2>1 DEF RetryWorks, Publish, forgot
    <2>3. \A n, d : Given(n, d) => Given(n, d)'
      BY <2>2 DEF Given
    <2>4. \A p \in D : \A d \in Left(e, p) \cap e.reach : Given(p.msg, d)'
      BY <1>6, <2>2 DEF Given
    <2> QED
      BY <1>7, <2>2, <2>3, <2>4
  <1>9. CASE RetryBreaks(e, wrote, D)
    <2>1. /\ engine' = [e EXCEPT !.pending = {}] /\ offered' = offered
          /\ hit' = hit \cup {p.msg : p \in e.pending}
          /\ mislaid' = mislaid /\ (~dirty' => ~dirty)
      BY <1>9 DEF RetryBreaks, NoPublish
    <2>2. engine'.pending = {}
      BY <1>1, <2>1 DEF EngineType
    <2>3. WInv'
      BY <1>1, <1>2, <1>15, <2>1, <2>2 DEF WInv, Waits, Given
    <2>4. \A n \in Messages : ~Settles(n)
      BY <1>1, <1>14, <2>1 DEF Settles, IsPending
    <2> QED
      BY <2>3, <2>4 DEF StepSettles
  <1>10. CASE \E late \in BOOLEAN : ResultsDropped(e, wrote, D, late)
    <2>1. PICK late \in BOOLEAN : ResultsDropped(e, wrote, D, late)
      BY <1>10
    <2>2. /\ engine' = Retried(e, D, late) /\ offered' = offered
          /\ hit' = hit \cup {v.msg : v \in Encrypted(e, D)}
          /\ mislaid' = forgot /\ (~dirty' => ~dirty)
      BY <2>1 DEF ResultsDropped, NoPublish, forgot
    <2>3. \A n, d : Given(n, d) => Given(n, d)'
      BY <2>2 DEF Given
    <2>4. \A p \in D : p.msg \in hit' \/ \A d \in Left(e, p) \cap e.reach : Given(p.msg, d)'
      BY <1>6, <2>2
    <2> QED
      BY <1>7, <2>2, <2>3, <2>4
  <1> QED
    BY <1>8, <1>9, <1>10 DEF RetryFrom, Retry

LEMMA StepWaits == IInv /\ WInv /\ [Next]_vars => WInv' /\ [StepSettles]_vars
  <1> SUFFICES ASSUME IInv, WInv, [Next]_vars PROVE WInv' /\ [StepSettles]_vars
    OBVIOUS
  <1>1. CASE UNCHANGED vars
    BY <1>1 DEF vars, WInv, Waits, Given, Followed, InChat
  <1>2. ASSUME NEW m \in Messages, Send(m) PROVE WInv' /\ StepSettles
    BY <1>2, SendWaits
  <1>3. ASSUME NEW D \in SUBSET engine.pending, RetryDue(D) PROVE WInv' /\ StepSettles
    <2>1. RetryFrom(engine, FALSE, D)
      BY <1>3 DEF RetryDue, RetryFrom, IInv, TypeOK
    <2> QED
      BY <2>1, RetryWaits
  <1>4. ASSUME NEW e \in EngineType, e.pending = engine.pending, Learned(e),
               engine.roster # {} => e.roster # {}
        PROVE  WInv' /\ StepSettles
    <2>1. RetryFrom(e, TRUE, e.pending)
      BY <1>4 DEF Learned, RetryFrom
    <2> QED
      BY <1>4, <2>1, RetryWaits
  <1>5. ASSUME NEW R \in SUBSET Peers, LearnRoster(R) PROVE WInv' /\ StepSettles
    <2> DEFINE e == [engine EXCEPT !.roster = R]
    <2>1. e \in EngineType /\ e.pending = engine.pending /\ e.roster = R
      BY DEF IInv, TypeOK, EngineType
    <2>2. Learned(e) /\ R # {}
      BY <1>5 DEF LearnRoster
    <2> HIDE DEF e
    <2> QED
      BY <1>4, <2>1, <2>2
  <1>6. ASSUME NEW L \in SUBSET Siblings, LearnLocalRoster(L) PROVE WInv' /\ StepSettles
    <2> DEFINE e == [engine EXCEPT !.local = L, !.observed = TRUE]
    <2>1. e \in EngineType /\ e.pending = engine.pending /\ e.roster = engine.roster
      BY DEF IInv, TypeOK, EngineType
    <2>2. Learned(e)
      BY <1>6 DEF LearnLocalRoster
    <2> HIDE DEF e
    <2> QED
      BY <1>4, <2>1, <2>2
  <1>7. ASSUME NEW d \in Devices, LearnInvite(d) PROVE WInv' /\ StepSettles
    <2> DEFINE e == [engine EXCEPT !.reach = @ \cup {d}]
    <2>1. e \in EngineType /\ e.pending = engine.pending /\ e.roster = engine.roster
      BY DEF IInv, TypeOK, EngineType
    <2>2. Learned(e)
      BY <1>7 DEF LearnInvite
    <2> HIDE DEF e
    <2> QED
      BY <1>4, <2>1, <2>2
  \* In the other steps the engine's memory stays, or the process ends.
  <1>8. ASSUME UNCHANGED <<engine, disk, dirty, saved, offered, sent, hit, mislaid>>,
               \A m \in Messages : InChat(m)' <=> InChat(m)
        PROVE  WInv' /\ StepSettles
    BY <1>8 DEF WInv, Waits, Given, Followed, StepSettles, Settles, IsPending
  <1>9. ASSUME NEW v \in rows, Published(v) \/ PublishFailed(v) PROVE WInv' /\ StepSettles
    <2>1. UNCHANGED <<engine, disk, dirty, saved, offered, sent, hit, mislaid>>
      BY <1>9 DEF Published, PublishFailed, StoresUnchanged
    <2>2. app \in [Messages -> Delivery]
      BY DEF IInv, TypeOK
    <2>3. CASE Published(v)
      <3>1. \E M : app' = Reconcile(app, engine, rows', M)
        BY <2>3 DEF Published
      <3> QED
        BY <1>8, <2>1, <2>2, <3>1, ReconcileStays DEF InChat
    <2>4. CASE PublishFailed(v)
      <3>1. app' = [app EXCEPT ![v.msg] = IF @ = NotThere THEN @ ELSE "waiting"]
        BY <2>4 DEF PublishFailed
      <3>2. \A m \in Messages : InChat(m)' <=> InChat(m)
        BY <2>2, <3>1 DEF InChat, NotThere, Delivery
      <3> QED
        BY <1>8, <2>1, <3>2
    <2> QED
      BY <1>9, <2>3, <2>4
  <1>10. CASE FlushEngine
    <2>1. /\ UNCHANGED <<engine, app, saved, offered, sent, hit, mislaid>> /\ dirty' = FALSE
          /\ IF dirty THEN disk' = engine ELSE disk' = disk
      BY <1>10 DEF FlushEngine
    <2>2. Waits(engine)' /\ Waits(disk)'
      BY <2>1 DEF WInv, Waits, Given
    <2>3. Followed'
      BY <2>1 DEF WInv, Followed, InChat, IInv, TypeOK
    <2> QED
      BY <2>1, <2>2, <2>3 DEF WInv, StepSettles, Settles, IsPending, InChat
  <1>11. CASE SaveApp
    <2>1. /\ UNCHANGED <<engine, disk, dirty, app, offered, sent, hit, mislaid>> /\ saved' = app
          /\ ~dirty
      BY <1>11 DEF SaveApp, IInv, TypeOK
    <2>2. Followed'
      BY <2>1 DEF WInv, Followed, InChat
    <2> QED
      BY <2>1, <2>2 DEF WInv, Waits, Given, StepSettles, Settles, IsPending, InChat
  <1>13. CASE Restart
    <2>1. UNCHANGED <<engine, disk, dirty, app, saved, offered, sent, hit, mislaid>>
      BY <1>13 DEF Restart
    <2> QED
      BY <1>8, <2>1 DEF InChat
  <1>12. CASE Crash
    <2>1. /\ engine' = [disk EXCEPT !.observed = FALSE] /\ app' = saved /\ dirty' = FALSE
          /\ UNCHANGED <<disk, saved, offered, sent, hit, mislaid>>
      BY <1>12 DEF Crash
    <2>2. engine'.pending = disk.pending /\ engine'.roster = disk.roster
      BY <2>1 DEF IInv, TypeOK, EngineType
    <2>3. Waits(engine)' /\ Waits(disk)'
      BY <2>1, <2>2 DEF WInv, Waits, Given
    <2>4. Followed'
      BY <2>1, <2>2 DEF WInv, Followed, InChat
    \* What the chat keeps and memory had pending, the stored queue has.
    <2>5. \A m \in Messages : ~Settles(m)
      <3> SUFFICES ASSUME NEW m \in Messages, Settles(m) PROVE FALSE
        OBVIOUS
      <3>1. saved[m] # NotThere /\ m \notin hit /\ ~\E q \in disk.pending : q.msg = m
        BY <2>1, <2>2 DEF Settles, IsPending, InChat
      <3>2. \E p \in engine.pending : p.msg = m
        BY <3>1 DEF Settles, IsPending, WInv, Followed
      <3> QED
        BY <3>1, <3>2 DEF WInv, Followed
    <2> QED
      BY <2>3, <2>4, <2>5 DEF WInv, StepSettles
  <1> QED
    BY <1>1, <1>2, <1>3, <1>5, <1>6, <1>7, <1>9, <1>10, <1>11, <1>12, <1>13 DEF Next, EndOfBatch

LEMMA WaitsFromTheStart == Init => WInv
  <1> SUFFICES ASSUME Init PROVE WInv
    OBVIOUS
  <1>1. \A m \in Messages : app[m] = NotThere /\ saved[m] = NotThere
    BY DEF Init
  <1> QED
    BY <1>1 DEF Init, WInv, Waits, Followed, InChat

\* In every step, the end of a process at any moment too, a message of the chat
\* leaves the queue only when all devices known by then were given a copy, and a
\* list of the peer's is one of them unless its entry was mislaid, or after a
\* retry failed with it: the stored queue has all that the stored chat waits for.
THEOREM QueuedUntilGiven == Spec => PendingUntilGiven
  <1>1. IInv /\ WInv /\ [Next]_vars => WInv'
    BY StepWaits
  <1>2. IInv /\ WInv /\ [Next]_vars => [\A m \in Messages : Settles(m) => GivenToAll(m)']_vars
    BY StepWaits DEF StepSettles
  <1> QED
    BY <1>1, <1>2, WaitsFromTheStart, Invariance, PTL DEF Spec, PendingUntilGiven

-----------------------------------------------------------------------------
(* What is shown as sent has reached a server for the peer.  A chat state a  *)
(* is judged by entries P, by the events O ever offered and those of them,   *)
(* V, that have left the publish queue; the messages H were hit by a failing *)
(* retry or mislaid.                                                         *)

Excused == hit \cup mislaid

\* A message of the chat is pending or was offered to a device of the peer.
Known(a, P, O, H) ==
    \A m \in Messages \ H :
       a[m] # NotThere => (\E p \in P : p.msg = m) \/ (\E v \in O : v.msg = m /\ v.dev \in Peers)

\* For one that is sent, a device of the peer has it which no entry will serve again.
Reached(a, P, V, H) ==
    \A m \in Messages \ H :
       a[m] = "sent" => \E v \in V : /\ v.msg = m /\ v.dev \in Peers
                                     /\ \A p \in P : p.msg = m => v.dev \in p.done

\* Two lists of entries have served the same devices.
ServedIn(P, Q, H) == \A p \in P : p.msg \in H \/ \E q \in Q : q.msg = p.msg /\ q.done = p.done

RInv ==
    /\ Known(app, engine.pending, offered, Excused)
    /\ Known(saved, engine.pending, offered, Excused)
    /\ Known(saved, disk.pending, offered, Excused)
    /\ Reached(app, engine.pending, offered \ rows, Excused)
    /\ Reached(saved, engine.pending \cup disk.pending, offered \ rows, Excused)
    /\ ~dirty => ServedIn(engine.pending, disk.pending, Excused) /\ ServedIn(disk.pending, engine.pending, Excused)

\* Reconciling shows a message as sent only when nothing blocks it.
LEMMA ReconcileReaches ==
    ASSUME NEW a \in [Messages -> Delivery], NEW e \in EngineType, NEW r, NEW M, NEW O, NEW H,
           \A p, q \in e.pending : p.msg = q.msg => p = q,
           \A p \in e.pending : p.reason # "MissingRoster" => e.roster # {} \/ p.msg \in H,
           \A p \in e.pending : p.msg \in H \/ \A d \in p.done : \E v \in O : v.msg = p.msg /\ v.dev = d,
           Known(a, e.pending, O, H), Reached(a, e.pending, O \ r, H)
    PROVE  /\ Known(Reconcile(a, e, r, M), e.pending, O, H)
           /\ Reached(Reconcile(a, e, r, M), e.pending, O \ r, H)
  <1> DEFINE b == Reconcile(a, e, r, M)
  <1>0. e.roster \subseteq Peers
    BY DEF EngineType
  <1>1. \A m \in Messages :
           b[m] = IF a[m] = NotThere \/ m \notin M THEN a[m]
                  ELSE IF Blocked(e, m) \/ \E v \in r : v.msg = m THEN "waiting" ELSE "sent"
    BY DEF Reconcile
  <1>2. "waiting" # NotThere /\ "sent" # NotThere /\ "waiting" # "sent"
    BY DEF NotThere
  <1> HIDE DEF b
  <1>3. \A m \in Messages : b[m] # NotThere => a[m] # NotThere
    BY <1>1
  <1>4. ASSUME NEW m \in Messages \ H, b[m] = "sent"
        PROVE  \E v \in O \ r : /\ v.msg = m /\ v.dev \in Peers
                                /\ \A p \in e.pending : p.msg = m => v.dev \in p.done
    <2>1. CASE a[m] = "sent" /\ m \notin M
      BY <2>1 DEF Reached
    <2>2. CASE a[m] # NotThere /\ ~Blocked(e, m) /\ ~\E v \in r : v.msg = m
      <3>1. CASE \E p \in e.pending : p.msg = m
        <4>1. PICK p \in e.pending : p.msg = m
          BY <3>1
        <4>2. e.roster \ p.done = {} /\ e.roster # {}
          BY <2>2, <4>1 DEF Blocked, Left, RemoteLeft, LocalLeft, AwaitsRoster
        <4>3. PICK d \in e.roster : d \in p.done
          BY <4>2
        <4>4. PICK v \in O : v.msg = m /\ v.dev = d
          BY <4>1, <4>3
        <4>5. \A q \in e.pending : q.msg = m => q = p
          BY <4>1
        <4> QED
          BY <1>0, <2>2, <4>3, <4>4, <4>5
      <3>2. CASE ~\E p \in e.pending : p.msg = m
        BY <2>2, <3>2 DEF Known
      <3> QED
        BY <3>1, <3>2
    <2> QED
      BY <1>1, <1>2, <1>4, <2>1, <2>2
  <1>5. Known(b, e.pending, O, H)
    BY <1>3 DEF Known
  <1>6. Reached(b, e.pending, O \ r, H)
    BY <1>4 DEF Reached
  <1> QED
    BY <1>5, <1>6 DEF b

\* What the invariants say of the engine, in the form the lemma asks for.
EngineMakesSense(e, O, H) ==
    /\ e \in EngineType
    /\ \A p, q \in e.pending : p.msg = q.msg => p = q
    /\ \A p \in e.pending : p.reason # "MissingRoster" => e.roster # {} \/ p.msg \in H
    /\ \A p \in e.pending : p.msg \in H \/ \A d \in p.done : \E v \in O : v.msg = p.msg /\ v.dev = d

\* Fewer entries to serve and more of what has left the queue keep the promise.
LEMMA ReachedMore ==
    ASSUME NEW a, NEW P, NEW V, NEW H, NEW Q \in SUBSET P, NEW W, V \subseteq W, NEW G, H \subseteq G,
           Reached(a, P, V, H)
    PROVE  Reached(a, Q, W, G)
  BY DEF Reached

LEMMA KnownMore ==
    ASSUME NEW a, NEW P, NEW O, NEW H, NEW Q, P \subseteq Q, NEW U, O \subseteq U, NEW G, H \subseteq G,
           Known(a, P, O, H)
    PROVE  Known(a, Q, U, G)
  BY DEF Known

\* Sending a message that is new to all of them.
LEMMA SendReaches ==
    ASSUME IInv, IInv', WInv, WInv', RInv, NEW m \in Messages, Send(m)
    PROVE  RInv'
  <1>1. PICK L \in SUBSET (engine.local \cap engine.reach), gap \in BOOLEAN : SendFrom(m, L, gap)
    BY DEF Send
  <1>2. /\ m \notin sent /\ sent' = sent \cup {m}
        /\ UNCHANGED <<phase, hit, mislaid, Excused, disk, saved, torn>> /\ phase = "up" /\ dirty' = TRUE
    BY <1>1 DEF Send, StoresUnchanged, SendFrom, Excused
  <1> DEFINE D     == (engine.roster \cap engine.reach) \cup L
             E     == {[msg |-> m, dev |-> d] : d \in D}
             gaps  == gap \/ engine.roster = {} \/ ~(engine.roster \subseteq engine.reach)
             probe == ~gap /\ L = {} /\ ~Authoritative(engine)
             entry == [msg |-> m, done |-> D, probe |-> probe,
                       reason |-> IF engine.roster = {} THEN "MissingRoster"
                                  ELSE IF gaps THEN "MissingDeviceInvite" ELSE "PublishRetry"]
             queued == gaps \/ probe \/ ~(engine.local \subseteq L)
             next == [engine EXCEPT !.pending = IF queued THEN @ \cup {entry} ELSE @]
             fresh == [app EXCEPT ![m] = "waiting"]
  <1>3. /\ engine' = next /\ rows' = rows \cup E /\ offered' = offered \cup E
        /\ app' = Reconcile(fresh, next, rows', {m})
    BY <1>1 DEF SendFrom, Publish
  <1>4. engine'.pending = IF queued THEN engine.pending \cup {entry} ELSE engine.pending
    BY <1>3 DEF IInv, TypeOK, EngineType
  <1>5. entry.msg = m /\ \A v \in E : v.msg = m
    OBVIOUS
  <1>6. ~queued => \E v \in offered' : v.msg = m /\ v.dev \in Peers
    <2>1. ASSUME ~queued PROVE \E d \in D : d \in Peers
      BY <2>1 DEF IInv, TypeOK, EngineType
    <2>2. ASSUME NEW d \in D, d \in Peers PROVE \E v \in offered' : v.msg = m /\ v.dev \in Peers
      <3> DEFINE v == [msg |-> m, dev |-> d]
      <3>1. v \in offered' /\ v.msg = m /\ v.dev = d
        BY <1>3
      <3> HIDE DEF v
      <3> QED
        BY <2>2, <3>1
    <2> QED
      BY <2>1, <2>2
  <1>7. fresh \in [Messages -> Delivery] /\ \A n \in Messages : n # m => fresh[n] = app[n]
    BY DEF IInv, TypeOK, Delivery
  <1>8. fresh[m] = "waiting"
    BY DEF IInv, TypeOK
  <1>9. \A v \in offered : v.msg # m
    BY <1>2 DEF IInv
  <1>10. engine'.pending \subseteq engine.pending \cup {entry}
         /\ engine.pending \subseteq engine'.pending
         /\ (queued => entry \in engine'.pending)
    BY <1>4
  <1> HIDE DEF D, E, entry, queued, fresh, next
  <1>11. \A v \in offered \ rows : v \in offered' \ rows'
    BY <1>3, <1>5, <1>9
  <1>12. Known(fresh, engine'.pending, offered', Excused)
    BY <1>3, <1>5, <1>6, <1>7, <1>10 DEF RInv, Known
  <1>13. Reached(fresh, engine'.pending, offered' \ rows', Excused)
    <2>1. ASSUME NEW n \in Messages \ Excused, fresh[n] = "sent"
          PROVE  \E v \in offered' \ rows' : /\ v.msg = n /\ v.dev \in Peers
                                             /\ \A p \in engine'.pending : p.msg = n => v.dev \in p.done
      <3>1. n # m /\ app[n] = "sent"
        BY <1>7, <1>8, <2>1
      <3>2. PICK v \in offered \ rows : /\ v.msg = n /\ v.dev \in Peers
                                        /\ \A p \in engine.pending : p.msg = n => v.dev \in p.done
        BY <2>1, <3>1 DEF RInv, Reached
      <3> QED
        BY <1>5, <1>10, <1>11, <3>1, <3>2
    <2> QED
      BY <2>1 DEF Reached
  <1>14. Reached(saved, engine'.pending \cup disk.pending, offered' \ rows', Excused)
    <2>1. ASSUME NEW n \in Messages \ Excused, saved[n] = "sent"
          PROVE  \E v \in offered' \ rows' :
                    /\ v.msg = n /\ v.dev \in Peers
                    /\ \A p \in engine'.pending \cup disk.pending : p.msg = n => v.dev \in p.done
      <3>1. PICK v \in offered \ rows :
               /\ v.msg = n /\ v.dev \in Peers
               /\ \A p \in engine.pending \cup disk.pending : p.msg = n => v.dev \in p.done
        BY <2>1 DEF RInv, Reached
      <3>2. n # m
        BY <1>9, <3>1
      <3> QED
        BY <1>5, <1>10, <1>11, <3>1, <3>2
    <2> QED
      BY <2>1 DEF Reached
  <1>15. Known(saved, engine'.pending, offered', Excused) /\ Known(saved, disk.pending, offered', Excused)
    BY <1>3, <1>10 DEF RInv, Known
  <1>16. EngineMakesSense(engine', offered', Excused')
    BY DEF IInv, WInv, Consistent, Waits, Given, EngineMakesSense, Excused
  <1>17. /\ Known(Reconcile(fresh, engine', rows', {m}), engine'.pending, offered', Excused')
         /\ Reached(Reconcile(fresh, engine', rows', {m}), engine'.pending, offered' \ rows', Excused')
    <2>1. Known(fresh, engine'.pending, offered', Excused') /\ Reached(fresh, engine'.pending, offered' \ rows', Excused')
      BY <1>2, <1>12, <1>13
    <2> QED
      BY <1>7, <1>16, <2>1, ReconcileReaches DEF EngineMakesSense
  <1> QED
    BY <1>2, <1>3, <1>14, <1>15, <1>17 DEF RInv

\* A retry serves more devices, or forgets messages it has hit or mislaid.
LEMMA RetryReaches ==
    ASSUME IInv, IInv', WInv, WInv', RInv, NEW e, NEW wrote, NEW D, RetryFrom(e, wrote, D),
           engine.roster # {} => e.roster # {}
    PROVE  RInv'
  <1>1. /\ e \in EngineType /\ e.pending = engine.pending /\ D \in SUBSET e.pending
        /\ UNCHANGED <<phase, sent, disk, saved>> /\ e.pending \subseteq Pending /\ wrote \in BOOLEAN
    BY DEF RetryFrom, StoresUnchanged, EngineType
  <1>2. \A late \in BOOLEAN :
           /\ \A q \in Retried(e, D, late).pending :
                 q \in e.pending \ D \/ \E p \in D : q = Worked(e, p, late) /\ Kept(e, p, late)
           /\ \A p \in e.pending \ D : p \in Retried(e, D, late).pending
           /\ \A p \in D : Kept(e, p, late) => Worked(e, p, late) \in Retried(e, D, late).pending
    <2>1. Consistent(e)
      BY <1>1 DEF IInv, Consistent
    <2>2. \A late \in BOOLEAN :
             /\ \A p \in e.pending \ D : p \in Retried(e, D, late).pending
             /\ \A p \in D : Kept(e, p, late) => Worked(e, p, late) \in Retried(e, D, late).pending
      BY <1>1 DEF Retried, EngineType
    <2> QED
      BY <1>1, <2>1, <2>2, RetriedType
  <1>3. \A p \in D, late \in BOOLEAN :
           /\ Worked(e, p, late).msg = p.msg
           /\ Worked(e, p, late).done = p.done \cup (Left(e, p) \cap e.reach)
    BY <1>1, WorkedType
  <1>4. /\ \A v \in Encrypted(e, D) :
              \E p \in D : v.msg = p.msg /\ v.dev \in Left(e, p) \cap e.reach
        /\ \A p \in D : Left(e, p) \cap p.done = {}
    BY <1>1, EncryptedType DEF Left, RemoteLeft, LocalLeft
  \* An entry goes when it has served a device of the peer.
  <1>5. ASSUME NEW late \in BOOLEAN, engine' = Retried(e, D, late), Excused \subseteq Excused', offered \subseteq offered',
               \A v \in Encrypted(e, D) : v \in offered' \/ v.msg \in Excused',
               Mislays(e, D) \subseteq Excused', NEW p \in D, ~Kept(e, p, late), p.msg \notin Excused'
        PROVE  \E v \in offered' : v.msg = p.msg /\ v.dev \in Peers
    <2>1. e.roster # {} /\ e.roster \cup e.local \subseteq Worked(e, p, late).done
      <3>1. p.msg \notin Excused /\ p.msg \notin Mislays(e, D)
        BY <1>5
      <3>2. p.reason # "MissingRoster" => e.roster # {}
        BY <1>1, <3>1 DEF WInv, Waits, Excused
      <3> QED
        BY <1>1, <1>5, <3>1, <3>2, WorkedWaits
    <2>2. PICK d \in e.roster : d \in p.done \/ d \in Left(e, p) \cap e.reach
      BY <1>3, <2>1
    <2>3. d \in Peers
      BY <1>1 DEF EngineType
    <2>4. CASE d \in p.done
      <3>1. p.msg \notin hit
        BY <1>5 DEF Excused
      <3> QED
        BY <1>1, <1>5, <2>3, <2>4, <3>1 DEF WInv, Waits, Given
    <2>5. CASE d \in Left(e, p) \cap e.reach
      <3> DEFINE v == [msg |-> p.msg, dev |-> d]
      <3>1. v \in Encrypted(e, D) /\ v.msg = p.msg /\ v.dev = d
        BY <2>5 DEF Encrypted
      <3> HIDE DEF v
      <3> QED
        BY <1>5, <2>3, <3>1
    <2> QED
      BY <2>2, <2>4, <2>5
  <1>6. ASSUME NEW late \in BOOLEAN, engine' = Retried(e, D, late), Excused \subseteq Excused', offered \subseteq offered',
               \A v \in Encrypted(e, D) : v \in offered' \/ v.msg \in Excused',
               Mislays(e, D) \subseteq Excused', NEW a, Known(a, e.pending, offered, Excused)
        PROVE  Known(a, engine'.pending, offered', Excused')
    <2> SUFFICES ASSUME NEW m \in Messages \ Excused', a[m] # NotThere
                 PROVE  (\E p \in engine'.pending : p.msg = m) \/ (\E v \in offered' : v.msg = m /\ v.dev \in Peers)
      BY DEF Known
    <2>1. CASE \E p \in e.pending : p.msg = m
      <3>1. PICK p \in e.pending : p.msg = m
        BY <2>1
      <3>2. CASE p \in D /\ ~Kept(e, p, late)
        BY <1>5, <1>6, <3>1, <3>2
      <3>3. CASE ~(p \in D /\ ~Kept(e, p, late))
        BY <1>2, <1>3, <1>6, <3>1, <3>3
      <3> QED
        BY <3>2, <3>3
    <2>2. CASE \E v \in offered : v.msg = m /\ v.dev \in Peers
      BY <1>6, <2>2
    <2> QED
      BY <1>6, <2>1, <2>2 DEF Known
  <1>7. ASSUME NEW late \in BOOLEAN, engine' = Retried(e, D, late), Excused \subseteq Excused', offered \subseteq offered',
               rows' \subseteq rows \cup Encrypted(e, D), NEW a, NEW P, e.pending \subseteq P, NEW Q,
               \A q \in Q : q \in P \/ q \in engine'.pending,
               Reached(a, P, offered \ rows, Excused)
        PROVE  Reached(a, Q, offered' \ rows', Excused')
    <2> SUFFICES ASSUME NEW m \in Messages \ Excused', a[m] = "sent"
                 PROVE  \E v \in offered' \ rows' : /\ v.msg = m /\ v.dev \in Peers
                                                    /\ \A q \in Q : q.msg = m => v.dev \in q.done
      BY DEF Reached
    <2>1. PICK v \in offered \ rows : /\ v.msg = m /\ v.dev \in Peers
                                      /\ \A p \in P : p.msg = m => v.dev \in p.done
      BY <1>7 DEF Reached
    <2>2. v \notin Encrypted(e, D)
      BY <1>1, <1>4, <1>7, <2>1
    <2>3. ASSUME NEW q \in engine'.pending, q.msg = m PROVE v.dev \in q.done
      BY <1>1, <1>2, <1>3, <1>7, <2>1, <2>3
    <2> QED
      BY <1>7, <2>1, <2>2, <2>3
  <1>8. ASSUME NEW late \in BOOLEAN, engine' = Retried(e, D, late), Excused \subseteq Excused',
               dirty' = (dirty \/ wrote \/ Changes(e, D, late)), ~dirty'
        PROVE  ServedIn(engine'.pending, disk'.pending, Excused') /\ ServedIn(disk'.pending, engine'.pending, Excused')
    <2>1. ~dirty /\ Encrypted(e, D) = {} /\ \A p \in D : Kept(e, p, late)
      BY <1>8 DEF Changes
    <2>2. \A p \in D : Left(e, p) \cap e.reach = {}
      <3> SUFFICES ASSUME NEW p \in D, NEW d \in Left(e, p) \cap e.reach PROVE FALSE
        OBVIOUS
      <3>1. [msg |-> p.msg, dev |-> d] \in Encrypted(e, D)
        BY DEF Encrypted
      <3> QED
        BY <2>1, <3>1
    <2>3. \A p \in D : Worked(e, p, late).done = p.done
      BY <1>3, <2>2
    <2>4. ServedIn(e.pending, disk.pending, Excused) /\ ServedIn(disk.pending, e.pending, Excused)
      BY <1>1, <2>1 DEF RInv
    <2>5. \A q \in engine'.pending : \E p \in e.pending : q.msg = p.msg /\ q.done = p.done
      <3> SUFFICES ASSUME NEW q \in engine'.pending
                   PROVE  \E p \in e.pending : q.msg = p.msg /\ q.done = p.done
        OBVIOUS
      <3>1. q \in e.pending \ D \/ \E p \in D : q = Worked(e, p, late)
        BY <1>2, <1>8
      <3>2. CASE \E p \in D : q = Worked(e, p, late)
        <4>1. PICK p \in D : q = Worked(e, p, late)
          BY <3>2
        <4>2. q.msg = p.msg /\ q.done = p.done /\ p \in e.pending
          BY <1>1, <1>3, <2>3, <4>1
        <4> QED
          BY <4>2
      <3> QED
        BY <3>1, <3>2
    <2>6. \A p \in e.pending : \E q \in engine'.pending : q.msg = p.msg /\ q.done = p.done
      BY <1>2, <1>3, <1>8, <2>1, <2>3
    <2>7. ServedIn(engine'.pending, disk.pending, Excused')
      BY <1>8, <2>4, <2>5 DEF ServedIn
    <2>8. ServedIn(disk.pending, engine'.pending, Excused')
      BY <1>8, <2>4, <2>6 DEF ServedIn
    <2> QED
      BY <1>1, <2>7, <2>8
  <1>9. ASSUME NEW late \in BOOLEAN, engine' = Retried(e, D, late), Excused \subseteq Excused', offered \subseteq offered',
               \A v \in Encrypted(e, D) : v \in offered' \/ v.msg \in Excused', rows' \subseteq rows \cup Encrypted(e, D),
               Mislays(e, D) \subseteq Excused'
        PROVE  /\ Known(app, engine'.pending, offered', Excused')
               /\ Known(saved', engine'.pending, offered', Excused')
               /\ Known(saved', disk'.pending, offered', Excused')
               /\ Reached(app, engine'.pending, offered' \ rows', Excused')
               /\ Reached(saved', engine'.pending \cup disk'.pending, offered' \ rows', Excused')
    <2>1. Known(app, engine'.pending, offered', Excused') /\ Known(saved, engine'.pending, offered', Excused')
      BY <1>1, <1>6, <1>9 DEF RInv
    <2>2. Known(saved, disk.pending, offered', Excused')
      BY <1>9 DEF RInv, Known
    <2>3. Reached(app, engine'.pending, offered' \ rows', Excused')
      BY <1>1, <1>7, <1>9 DEF RInv
    <2>4. Reached(saved, engine'.pending \cup disk.pending, offered' \ rows', Excused')
      <3> DEFINE P == e.pending \cup disk.pending
                 Q == engine'.pending \cup disk.pending
      <3>1. Reached(saved, P, offered \ rows, Excused) /\ e.pending \subseteq P
            /\ \A q \in Q : q \in P \/ q \in engine'.pending
        BY <1>1 DEF RInv
      <3> HIDE DEF P, Q
      <3>2. Reached(saved, Q, offered' \ rows', Excused')
        BY <1>7, <1>9, <3>1
      <3> QED
        BY <3>2 DEF Q
    <2> QED
      BY <1>1, <2>1, <2>2, <2>3, <2>4
  <1>10. CASE \E late \in BOOLEAN : RetryWorks(e, wrote, D, late)
    <2>1. PICK late \in BOOLEAN : RetryWorks(e, wrote, D, late)
      BY <1>10
    <2> DEFINE M == {p.msg : p \in {q \in D : Left(e, q) # {} \/ Kept(e, q, late)}}
    <2>2. /\ engine' = Retried(e, D, late)
          /\ Excused \subseteq Excused' /\ Mislays(e, D) \subseteq Excused'
          /\ dirty' = (dirty \/ wrote \/ Changes(e, D, late))
          /\ offered' = offered \cup Encrypted(e, D) /\ rows' = rows \cup Encrypted(e, D)
          /\ app' = Reconcile(app, engine', rows', M)
      BY <2>1 DEF RetryWorks, Publish, Excused
    <2> HIDE DEF M
    <2>3. /\ Known(app, engine'.pending, offered', Excused')
          /\ Known(saved', engine'.pending, offered', Excused')
          /\ Known(saved', disk'.pending, offered', Excused')
          /\ Reached(app, engine'.pending, offered' \ rows', Excused')
          /\ Reached(saved', engine'.pending \cup disk'.pending, offered' \ rows', Excused')
      BY <1>9, <2>2
    <2>4. EngineMakesSense(engine', offered', Excused')
      BY DEF IInv, WInv, Consistent, Waits, Given, EngineMakesSense, Excused
    <2>5. app \in [Messages -> Delivery]
      BY DEF IInv, TypeOK
    <2>6. /\ Known(app', engine'.pending, offered', Excused')
          /\ Reached(app', engine'.pending, offered' \ rows', Excused')
      <3>1. app' = Reconcile(app, engine', rows', M)
        BY <2>2
      <3>2. /\ Known(Reconcile(app, engine', rows', M), engine'.pending, offered', Excused')
            /\ Reached(Reconcile(app, engine', rows', M), engine'.pending, offered' \ rows', Excused')
        BY <2>3, <2>4, <2>5, ReconcileReaches DEF EngineMakesSense
      <3> QED
        BY <3>1, <3>2
    <2>7. ~dirty' => ServedIn(engine'.pending, disk'.pending, Excused') /\ ServedIn(disk'.pending, engine'.pending, Excused')
      BY <1>8, <2>2
    <2> QED
      BY <2>3, <2>6, <2>7 DEF RInv
  <1>11. CASE RetryBreaks(e, wrote, D)
    <2>1. /\ engine' = [e EXCEPT !.pending = {}] /\ dirty' = (dirty \/ wrote)
          /\ Excused' = Excused \cup {p.msg : p \in e.pending}
          /\ UNCHANGED <<offered, rows, app>>
      BY <1>11 DEF RetryBreaks, NoPublish, Excused
    <2>2. engine'.pending = {}
      BY <1>1, <2>1 DEF EngineType
    <2>3. \A p \in engine.pending : p.msg \in Excused'
      BY <1>1, <2>1
    <2>4. Known(app', engine'.pending, offered', Excused') /\ Known(saved', engine'.pending, offered', Excused')
      BY <1>1, <2>1, <2>3 DEF RInv, Known
    <2>5. Known(saved', disk'.pending, offered', Excused')
      BY <1>1, <2>1 DEF RInv, Known
    <2>6. Reached(app', engine'.pending, offered' \ rows', Excused')
      BY <2>1, <2>2 DEF RInv, Reached
    <2>7. Reached(saved', engine'.pending \cup disk'.pending, offered' \ rows', Excused')
      BY <1>1, <2>1, <2>2 DEF RInv, Reached
    <2>8. ~dirty' => ServedIn(engine'.pending, disk'.pending, Excused') /\ ServedIn(disk'.pending, engine'.pending, Excused')
      <3>1. ASSUME ~dirty' PROVE ServedIn(disk.pending, engine.pending, Excused)
        BY <2>1, <3>1 DEF RInv
      <3>2. ASSUME ~dirty', NEW p \in disk.pending PROVE p.msg \in Excused'
        BY <2>1, <2>3, <3>1, <3>2 DEF ServedIn
      <3> QED
        BY <1>1, <2>2, <3>2 DEF ServedIn
    <2> QED
      BY <2>4, <2>5, <2>6, <2>7, <2>8 DEF RInv
  <1>12. CASE \E late \in BOOLEAN : ResultsDropped(e, wrote, D, late)
    <2>1. PICK late \in BOOLEAN : ResultsDropped(e, wrote, D, late)
      BY <1>12
    <2>2. /\ engine' = Retried(e, D, late)
          /\ dirty' = (dirty \/ wrote \/ Changes(e, D, late))
          /\ Excused' = Excused \cup {v.msg : v \in Encrypted(e, D)} \cup Mislays(e, D)
          /\ offered' = offered /\ rows' = rows /\ app' = app
      BY <2>1 DEF ResultsDropped, NoPublish, Excused
    <2>3. /\ Known(app, engine'.pending, offered', Excused')
          /\ Known(saved', engine'.pending, offered', Excused')
          /\ Known(saved', disk'.pending, offered', Excused')
          /\ Reached(app, engine'.pending, offered' \ rows', Excused')
          /\ Reached(saved', engine'.pending \cup disk'.pending, offered' \ rows', Excused')
      <3>1. /\ Excused \subseteq Excused' /\ Mislays(e, D) \subseteq Excused'
            /\ \A v \in Encrypted(e, D) : v.msg \in Excused'
        BY <2>2
      <3> QED
        BY <1>9, <2>2, <3>1
    <2>4. ~dirty' => ServedIn(engine'.pending, disk'.pending, Excused') /\ ServedIn(disk'.pending, engine'.pending, Excused')
      <3>1. Excused \subseteq Excused'
        BY <2>2
      <3> QED
        BY <1>8, <2>2, <3>1
    <2> QED
      BY <2>2, <2>3, <2>4 DEF RInv
  <1> QED
    BY <1>10, <1>11, <1>12 DEF RetryFrom, Retry

LEMMA StepReaches == IInv /\ IInv' /\ WInv /\ WInv' /\ RInv /\ [Next]_vars => RInv'
  <1> SUFFICES ASSUME IInv, IInv', WInv, WInv', RInv, [Next]_vars PROVE RInv'
    OBVIOUS
  <1>1. CASE UNCHANGED vars
    BY <1>1 DEF vars, RInv, Excused
  <1>2. ASSUME NEW m \in Messages, Send(m) PROVE RInv'
    BY <1>2, SendReaches
  <1>3. ASSUME NEW D \in SUBSET engine.pending, RetryDue(D) PROVE RInv'
    <2>1. RetryFrom(engine, FALSE, D)
      BY <1>3 DEF RetryDue, RetryFrom, IInv, TypeOK
    <2> QED
      BY <2>1, RetryReaches
  <1>4. ASSUME NEW e \in EngineType, e.pending = engine.pending, Learned(e),
               engine.roster # {} => e.roster # {}
        PROVE  RInv'
    <2>1. RetryFrom(e, TRUE, e.pending)
      BY <1>4 DEF Learned, RetryFrom
    <2> QED
      BY <1>4, <2>1, RetryReaches
  <1>5. ASSUME NEW R \in SUBSET Peers, LearnRoster(R) PROVE RInv'
    <2> DEFINE e == [engine EXCEPT !.roster = R]
    <2>1. e \in EngineType /\ e.pending = engine.pending /\ e.roster = R
      BY DEF IInv, TypeOK, EngineType
    <2>2. Learned(e) /\ R # {}
      BY <1>5 DEF LearnRoster
    <2> HIDE DEF e
    <2> QED
      BY <1>4, <2>1, <2>2
  <1>6. ASSUME NEW L \in SUBSET Siblings, LearnLocalRoster(L) PROVE RInv'
    <2> DEFINE e == [engine EXCEPT !.local = L, !.observed = TRUE]
    <2>1. e \in EngineType /\ e.pending = engine.pending /\ e.roster = engine.roster
      BY DEF IInv, TypeOK, EngineType
    <2>2. Learned(e)
      BY <1>6 DEF LearnLocalRoster
    <2> HIDE DEF e
    <2> QED
      BY <1>4, <2>1, <2>2
  <1>7. ASSUME NEW d \in Devices, LearnInvite(d) PROVE RInv'
    <2> DEFINE e == [engine EXCEPT !.reach = @ \cup {d}]
    <2>1. e \in EngineType /\ e.pending = engine.pending /\ e.roster = engine.roster
      BY DEF IInv, TypeOK, EngineType
    <2>2. Learned(e)
      BY <1>7 DEF LearnInvite
    <2> HIDE DEF e
    <2> QED
      BY <1>4, <2>1, <2>2
  <1>8. ASSUME NEW v \in rows, Published(v) PROVE RInv'
    <2> DEFINE M == {m \in Messages : m = v.msg \/ app[m] = "waiting"}
    <2>1. /\ rows' \subseteq rows /\ app' = Reconcile(app, engine, rows', M)
          /\ UNCHANGED <<engine, disk, dirty, saved, offered, Excused>>
      BY <1>8 DEF Published, StoresUnchanged, Excused
    <2> HIDE DEF M
    <2>2. /\ Reached(app, engine.pending, offered \ rows', Excused)
          /\ Reached(saved, engine.pending \cup disk.pending, offered \ rows', Excused)
      BY <2>1 DEF RInv, Reached
    <2>3. EngineMakesSense(engine, offered, Excused) /\ app \in [Messages -> Delivery]
      BY DEF IInv, TypeOK, WInv, Consistent, Waits, Given, EngineMakesSense, Excused
    <2>4. Known(app, engine.pending, offered, Excused)
      BY DEF RInv
    <2>5. /\ Known(Reconcile(app, engine, rows', M), engine.pending, offered, Excused)
          /\ Reached(Reconcile(app, engine, rows', M), engine.pending, offered \ rows', Excused)
      BY <2>2, <2>3, <2>4, ReconcileReaches DEF EngineMakesSense
    <2> QED
      BY <2>1, <2>2, <2>5 DEF RInv
  <1>9. ASSUME NEW v \in rows, PublishFailed(v) PROVE RInv'
    <2>1. /\ app' = [app EXCEPT ![v.msg] = IF @ = NotThere THEN @ ELSE "waiting"]
          /\ UNCHANGED <<engine, disk, dirty, saved, rows, offered, Excused>>
      BY <1>9 DEF PublishFailed, StoresUnchanged, Excused
    <2>2. \A m \in Messages : /\ app'[m] # NotThere => app[m] # NotThere
                              /\ app'[m] = "sent" => app[m] = "sent"
      BY <2>1 DEF IInv, TypeOK, NotThere
    <2>3. Known(app', engine.pending, offered, Excused) /\ Reached(app', engine.pending, offered \ rows, Excused)
      BY <2>2 DEF RInv, Known, Reached
    <2> QED
      BY <2>1, <2>3 DEF RInv
  <1>10. CASE FlushEngine
    <2>1. /\ UNCHANGED <<engine, app, saved, rows, offered, Excused>> /\ dirty' = FALSE
          /\ disk' = IF dirty THEN engine ELSE disk
      BY <1>10 DEF FlushEngine, Excused
    <2>2. CASE dirty
      <3>1. disk' = engine
        BY <2>1, <2>2
      <3>2. ServedIn(engine.pending, engine.pending, Excused)
        BY DEF ServedIn
      <3>3. Reached(saved, engine.pending \cup engine.pending, offered \ rows, Excused)
        BY DEF RInv, Reached
      <3> QED
        BY <2>1, <3>1, <3>2, <3>3 DEF RInv
    <2>3. CASE ~dirty
      BY <2>1, <2>3 DEF RInv
    <2> QED
      BY <2>2, <2>3
  <1>11. CASE SaveApp
    <2>1. /\ UNCHANGED <<engine, disk, app, rows, offered, Excused, dirty>> /\ saved' = app /\ ~dirty
      BY <1>11 DEF SaveApp, IInv, TypeOK, Excused
    <2>2. ServedIn(engine.pending, disk.pending, Excused) /\ ServedIn(disk.pending, engine.pending, Excused)
      BY <2>1 DEF RInv
    <2>3. Known(app, disk.pending, offered, Excused)
      BY <2>2 DEF RInv, Known, ServedIn
    <2>4. Reached(app, engine.pending \cup disk.pending, offered \ rows, Excused)
      <3> SUFFICES ASSUME NEW m \in Messages \ Excused, app[m] = "sent"
                   PROVE  \E v \in offered \ rows :
                             /\ v.msg = m /\ v.dev \in Peers
                             /\ \A p \in engine.pending \cup disk.pending : p.msg = m => v.dev \in p.done
        BY DEF Reached
      <3>1. PICK v \in offered \ rows : /\ v.msg = m /\ v.dev \in Peers
                                        /\ \A p \in engine.pending : p.msg = m => v.dev \in p.done
        BY DEF RInv, Reached
      <3>2. \A p \in disk.pending : p.msg = m => v.dev \in p.done
        BY <2>2, <3>1 DEF ServedIn
      <3> QED
        BY <3>1, <3>2
    <2> QED
      BY <2>1, <2>3, <2>4 DEF RInv
  <1>12. CASE Crash
    <2>1. /\ engine' = [disk EXCEPT !.observed = FALSE] /\ app' = saved /\ dirty' = FALSE
          /\ UNCHANGED <<disk, saved, rows, offered, Excused>>
      BY <1>12 DEF Crash, Excused
    <2>2. engine'.pending = disk.pending
      BY <2>1 DEF IInv, TypeOK, EngineType
    <2>3. ServedIn(disk.pending, disk.pending, Excused)
      BY DEF ServedIn
    <2>4. /\ Reached(saved, disk.pending, offered \ rows, Excused)
          /\ Reached(saved, disk.pending \cup disk.pending, offered \ rows, Excused)
      BY DEF RInv, Reached
    <2> QED
      BY <2>1, <2>2, <2>3, <2>4 DEF RInv
  <1>13. CASE Restart
    BY <1>13 DEF Restart, RInv, Excused
  <1> QED
    BY <1>1, <1>2, <1>3, <1>5, <1>6, <1>7, <1>8, <1>9, <1>10, <1>11, <1>12, <1>13
       DEF Next, EndOfBatch

\* A message shown as sent has left the publish queue for some device of the peer,
\* unless a retry hit it while it failed or forgot that the peer has no device list:
\* what the app shows and what it has saved name devices no entry, in memory or
\* stored, will serve again, so the event never comes back.
THEOREM SentHasReached == Spec => []SentIsReached
  <1>1. IInv /\ WInv /\ [Next]_vars => WInv'
    BY StepWaits
  <1>2. Init => RInv
    <2> SUFFICES ASSUME Init PROVE RInv
      OBVIOUS
    <2>1. \A m \in Messages : app[m] = NotThere /\ saved[m] = NotThere
      BY DEF Init
    <2>2. NotThere # "sent"
      BY DEF NotThere
    <2>3. engine.pending = {} /\ disk.pending = {}
      BY DEF Init
    <2> QED
      BY <2>1, <2>2, <2>3 DEF RInv, Known, Reached, ServedIn
  <1>3. IInv /\ IInv' /\ WInv /\ WInv' /\ RInv /\ [Next]_vars => RInv'
    BY StepReaches
  <1>4. RInv => SentIsReached
    BY DEF RInv, Reached, SentIsReached, Excused
  <1> QED
    BY <1>1, <1>2, <1>3, <1>4, WaitsFromTheStart, Invariance, PTL DEF Spec
=============================================================================
