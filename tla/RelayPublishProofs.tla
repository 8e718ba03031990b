------------------------- MODULE RelayPublishProofs -------------------------
(***************************************************************************)
(* What holds of the relay publish queue for every set of events, workers  *)
(* and tokens, every batch size and every combination of failures and      *)
(* disruptions.  All rests on one inductive invariant, IInv.               *)
(* The second half is about EngineHosts, which shares no state with the    *)
(* queue: what the engine's other hosts hand out to be published is no     *)
(* concern of it.  That half rests on HostInv.                             *)
(***************************************************************************)
EXTENDS RelayPublish, EngineHosts, FiniteSetTheorems, SequenceTheorems,
        WellFoundedInduction, TLAPS

\* What the workers hold was offered, and what they report as accepted was.
WorkersHonest ==
    \A w \in Workers : /\ worker[w].queued \subseteq offered
                       /\ worker[w].active \subseteq offered
                       /\ worker[w].ok \subseteq accepted

\* A row of the table was written, and only what was offered is.
StoreIsWritten == store \subseteq written /\ written \subseteq offered

\* The inductive invariant.  QueueIsDurable is needed because an event may be
\* declined only in favour of one that is stored, and not merely queued.
IInv == /\ TypeOK /\ WorkersHonest /\ QueueIsDurable /\ NothingLost
        /\ StoreIsWritten

-----------------------------------------------------------------------------
(* The helpers.                                                            *)

\* A batch is a part of the events it is taken from.
LEMMA FirstOfSubset == \A S, n : FirstOf(S, n) \subseteq S
  BY DEF FirstOf

LEMMA IdleTyped == IdleDrain \in DrainType /\ Coherent(IdleDrain)
                   /\ IdleWorker \in WorkerType
  BY DEF IdleDrain, DrainType, Coherent, IdleWorker, WorkerType

\* What retry_pending_relay_publishes does to the queue p and the workers ws it
\* is given: each worker is left alone or is a new one with a part of the queue.
RetryOutcome(p, ws) ==
    /\ inflight' \subseteq Events
    /\ drain' \in DrainType /\ Coherent(drain')
    /\ watchdog' \in BOOLEAN
    /\ worker' \in [Workers -> WorkerType]
    /\ \A w \in Workers :
         \/ worker'[w] = ws[w]
         \/ /\ worker'[w].queued \subseteq p
            /\ worker'[w].active = {} /\ worker'[w].ok = {}

LEMMA RetryEffect ==
  ASSUME NEW p \in SUBSET Events, NEW fly \in SUBSET Events,
         NEW d \in DrainType, Coherent(d),
         NEW ws \in [Workers -> WorkerType], NEW wd \in BOOLEAN,
         RetryFrom(p, fly, d, ws, wd)
  PROVE  RetryOutcome(p, ws)
<1> DEFINE d0    == IF d.inFlight /\ d.stale THEN [IdleDrain EXCEPT !.token = d.token] ELSE d
           fly0  == IF d.inFlight /\ d.stale THEN {} ELSE fly
           todo  == p \ fly0
           batch == FirstOf(todo, BatchSize)
<1>1. d0 \in DrainType /\ Coherent(d0) /\ fly0 \subseteq Events
  BY DEF DrainType, Coherent, IdleDrain
<1>2. batch \subseteq p /\ batch \subseteq Events
  BY FirstOfSubset
<1>3. CASE /\ inflight' \in {fly, fly0} /\ drain' \in {d, d0}
           /\ worker' = ws /\ watchdog' = wd
  BY <1>1, <1>3 DEF RetryOutcome
<1>4. CASE /\ d0.inFlight /\ inflight' = fly0 /\ drain' = [d0 EXCEPT !.dirty = TRUE]
           /\ worker' = ws /\ watchdog' = wd
  <2> HIDE DEF d0
  <2>1. drain' \in DrainType /\ Coherent(drain')
    BY <1>1, <1>4 DEF DrainType, Coherent
  <2> QED BY <1>1, <1>4, <2>1 DEF RetryOutcome
<1>5. ASSUME NEW w \in Workers, NEW t \in Tokens,
             worker' = [ws EXCEPT ![w] =
                [IdleWorker EXCEPT !.on = TRUE, !.token = t, !.queued = batch]],
             inflight' = fly0 \cup batch,
             drain' = [inFlight |-> TRUE, dirty |-> batch # todo,
                       stale |-> FALSE, token |-> t],
             watchdog' = TRUE
      PROVE  RetryOutcome(p, ws)
  <2> HIDE DEF batch, fly0, d0
  <2> DEFINE new == [IdleWorker EXCEPT !.on = TRUE, !.token = t, !.queued = batch]
  <2>1. /\ new \in WorkerType /\ new.queued = batch
        /\ new.active = {} /\ new.ok = {}
    BY <1>2 DEF WorkerType, IdleWorker
  <2>2. drain' \in DrainType /\ Coherent(drain')
    BY <1>5, DrainAssumption DEF DrainType, Coherent
  <2> HIDE DEF new
  <2>3. worker' = [ws EXCEPT ![w] = new]
    BY <1>5 DEF new
  <2>4. \A v \in Workers : worker'[v] = IF v = w THEN new ELSE ws[v]
    BY <2>3
  <2> QED BY <1>1, <1>2, <1>5, <2>1, <2>2, <2>3, <2>4 DEF RetryOutcome
<1> QED BY <1>3, <1>4, <1>5 DEF RetryFrom

\* Deleting leaves a part of the table, all of it if nothing was to go.
LEMMA AfterDeleteBounds ==
  ASSUME NEW gone, NEW remain \in AfterDelete(gone)
  PROVE  /\ remain \subseteq store /\ store \ gone \subseteq remain
         /\ "delete" \notin Failures => remain = store \ gone
  BY DEF AfterDelete

\* What RetryEffect says, in the terms of the invariant, of a handler that
\* starts from the current drain and workers.
LEMMA RetryKeeps ==
  ASSUME TypeOK, WorkersHonest, offered \subseteq offered', accepted' = accepted,
         NEW p \in SUBSET Events, p \subseteq offered',
         NEW fly \in SUBSET Events, NEW wd \in BOOLEAN,
         RetryFrom(p, fly, drain, worker, wd)
  PROVE  /\ inflight' \subseteq Events
         /\ drain' \in DrainType /\ Coherent(drain')
         /\ watchdog' \in BOOLEAN
         /\ worker' \in [Workers -> WorkerType]
         /\ WorkersHonest'
<1>1. /\ drain \in DrainType /\ Coherent(drain)
      /\ worker \in [Workers -> WorkerType]
  BY DEF TypeOK
<1>2. RetryOutcome(p, worker)
  BY <1>1, RetryEffect
<1>3. WorkersHonest'
  BY <1>2 DEF WorkersHonest, RetryOutcome
<1> QED BY <1>2, <1>3 DEF RetryOutcome

\* Forgetting the drain keeps the workers and what they hold.
LEMMA ResetKeeps ==
  ASSUME TypeOK, WorkersHonest, ResetRuntime, UNCHANGED <<accepted, offered>>
  PROVE  /\ drain' \in DrainType /\ Coherent(drain')
         /\ watchdog' \in BOOLEAN
         /\ worker' \in [Workers -> WorkerType]
         /\ WorkersHonest'
<1>1. drain' \in DrainType /\ Coherent(drain') /\ watchdog' \in BOOLEAN
  BY IdleTyped DEF ResetRuntime, TypeOK, Coherent
<1>2. \A w \in Workers : worker[w] \in WorkerType
  BY DEF TypeOK
<1>3. ASSUME NEW w \in Workers
      PROVE  /\ [worker[w] EXCEPT !.old = worker[w].on] \in WorkerType
             /\ [worker[w] EXCEPT !.old = worker[w].on].queued = worker[w].queued
             /\ [worker[w] EXCEPT !.old = worker[w].on].active = worker[w].active
             /\ [worker[w] EXCEPT !.old = worker[w].on].ok = worker[w].ok
  BY <1>2 DEF WorkerType
<1>4. worker' \in [Workers -> WorkerType]
  BY <1>3 DEF ResetRuntime
<1>5. WorkersHonest'
  BY <1>3 DEF ResetRuntime, WorkersHonest
<1> QED BY <1>1, <1>4, <1>5

-----------------------------------------------------------------------------
(* The invariant, action by action.                                        *)

LEMMA InitIInv == Init => IInv
<1> SUFFICES ASSUME Init PROVE IInv
  OBVIOUS
<1>1. TypeOK
  BY IdleTyped DEF Init, TypeOK
<1>2. WorkersHonest
  BY DEF Init, WorkersHonest, IdleWorker
<1>3. QueueIsDurable /\ NothingLost /\ StoreIsWritten
  BY DEF Init, QueueIsDurable, NothingLost, LoggedIn, StoreIsWritten
<1> QED BY <1>1, <1>2, <1>3 DEF IInv

\* A new event takes the place of older ones of its class, or gives way.
LEMMA EnqueueIInv == ASSUME IInv, NEW e \in Events, Enqueue(e) PROVE IInv'
<1> USE DEF IInv, StoreIsWritten, history
<1> DEFINE older == {f \in pending : Replaces(e, f)}
           newer == {f \in pending : Replaces(f, e)}
<1>1. /\ LoggedIn /\ e \notin offered /\ offered' = offered \cup {e}
      /\ UNCHANGED <<session, configured, accepted>>
      /\ pending \subseteq store /\ store \subseteq offered /\ pending \subseteq Events
  BY DEF Enqueue, QueueIsDurable, TypeOK
<1>0. PICK gone \in SUBSET older : \E remain \in AfterDelete(gone) :
        \/ /\ newer # {} \/ (gone = older /\ "upsert" \in Failures)
           /\ pending' = pending \ gone /\ store' = remain
           /\ inflight' = inflight \ gone
           /\ dropped' = IF newer = {} THEN dropped \cup {e} \cup (store \ remain)
                         ELSE dropped
           /\ UNCHANGED <<written, drain, worker, watchdog>>
        \/ /\ newer = {} /\ gone = older
           /\ pending' = (pending \ gone) \cup {e} /\ store' = remain \cup {e}
           /\ written' = written \cup {e} /\ UNCHANGED dropped
           /\ RetryFrom(pending', inflight \ gone, drain, worker, watchdog)
  BY DEF Enqueue
<1>2. PICK remain \in AfterDelete(gone) :
        \/ /\ newer # {} \/ (gone = older /\ "upsert" \in Failures)
           /\ pending' = pending \ gone /\ store' = remain
           /\ inflight' = inflight \ gone
           /\ dropped' = IF newer = {} THEN dropped \cup {e} \cup (store \ remain)
                         ELSE dropped
           /\ UNCHANGED <<written, drain, worker, watchdog>>
        \/ /\ newer = {} /\ gone = older
           /\ pending' = (pending \ gone) \cup {e} /\ store' = remain \cup {e}
           /\ written' = written \cup {e} /\ UNCHANGED dropped
           /\ RetryFrom(pending', inflight \ gone, drain, worker, watchdog)
  BY <1>0
<1>3. /\ remain \subseteq store /\ store \ gone \subseteq remain
      /\ "delete" \notin Failures => remain = store \ gone
  BY AfterDeleteBounds
<1>4. CASE /\ UNCHANGED <<drain, worker, watchdog>> /\ pending' = pending \ gone
           /\ store' = remain /\ inflight' = inflight \ gone
           /\ (newer # {} \/ (gone = older /\ "upsert" \in Failures))
           /\ dropped' = IF newer = {} THEN dropped \cup {e} \cup (store \ remain)
                         ELSE dropped
           /\ written' = written
  <2>1. /\ written' = written /\ offered' = offered \cup {e}
        /\ dropped \subseteq dropped' /\ dropped' \subseteq Events
        /\ \/ e \in dropped' /\ store \ remain \subseteq dropped'
           \/ \E g \in pending : Replaces(g, e)
    <3>1. /\ store \subseteq Events /\ dropped \subseteq Events
          /\ \A g \in newer : g \in pending /\ Replaces(g, e)
      BY DEF TypeOK
    <3> DEFINE more == dropped \cup {e} \cup (store \ remain)
    <3> HIDE DEF older, newer, more
    <3>2. /\ written' = written /\ offered' = offered \cup {e}
          /\ dropped' = IF newer = {} THEN more ELSE dropped
      BY <1>1, <1>4 DEF more
    <3>3. CASE newer = {}
      BY <3>1, <3>2, <3>3 DEF more
    <3>4. CASE newer # {}
      BY <3>1, <3>2, <3>4
    <3> QED BY <3>3, <3>4
  <2>2. \A f \in gone : f \in Events /\ Replaces(e, f)
    BY <1>1
  <2>3. /\ store' = remain /\ pending' = pending \ gone /\ inflight' = inflight \ gone
        /\ UNCHANGED <<drain, worker, watchdog>>
    BY <1>4
  <2> HIDE DEF older, newer
  <2>4. TypeOK'
    BY <1>1, <1>3, <2>1, <2>3 DEF TypeOK
  <2>5. WorkersHonest' /\ QueueIsDurable' /\ StoreIsWritten'
    BY <1>1, <1>3, <2>1, <2>3 DEF WorkersHonest, QueueIsDurable, LoggedIn
  <2>6. NothingLost'
    <3>1. CASE e \in dropped' /\ store \ remain \subseteq dropped'
      BY <1>1, <2>1, <2>3, <3>1 DEF NothingLost
    <3>2. ASSUME NEW g \in pending, Replaces(g, e) PROVE NothingLost'
      <4>1. g \in written /\ g \in Events
        BY <1>1
      <4>2. \A f \in gone : Replaces(g, f)
        BY <2>2, <3>2, <4>1, EventAssumption DEF Replaces
      <4> QED BY <1>1, <1>3, <2>1, <2>3, <3>2, <4>1, <4>2 DEF NothingLost
    <3> QED BY <2>1, <3>1, <3>2
  <2> QED BY <2>4, <2>5, <2>6
<1>5. CASE /\ pending' = (pending \ gone) \cup {e} /\ store' = remain \cup {e}
           /\ written' = written \cup {e} /\ UNCHANGED dropped
           /\ RetryFrom(pending', inflight \ gone, drain, worker, watchdog)
  <2>1. /\ pending' \in SUBSET Events /\ pending' \subseteq offered'
        /\ inflight \ gone \in SUBSET Events /\ watchdog \in BOOLEAN
    BY <1>1, <1>5 DEF TypeOK
  <2>2. /\ inflight' \subseteq Events
        /\ drain' \in DrainType /\ Coherent(drain')
        /\ watchdog' \in BOOLEAN
        /\ worker' \in [Workers -> WorkerType]
        /\ WorkersHonest'
    <3> DEFINE q == pending'
    <3>1. /\ q \in SUBSET Events /\ q \subseteq offered'
          /\ RetryFrom(q, inflight \ gone, drain, worker, watchdog)
      BY <2>1, <1>5
    <3> HIDE DEF q
    <3> QED BY <3>1, <2>1, <1>1, RetryKeeps
  <2>3. TypeOK'
    BY <1>1, <1>3, <1>5, <2>1, <2>2 DEF TypeOK
  <2>4. QueueIsDurable' /\ StoreIsWritten'
    BY <1>1, <1>3, <1>5 DEF QueueIsDurable, LoggedIn
  <2>5. NothingLost'
    <3>1. /\ store' = remain \cup {e} /\ written' = written \cup {e} /\ dropped' = dropped
          /\ \A f \in gone : Replaces(e, f)
      BY <1>1, <1>5
    <3> HIDE DEF older, newer
    <3> QED BY <1>1, <1>3, <3>1 DEF NothingLost
  <2> QED BY <2>2, <2>3, <2>4, <2>5
<1> QED BY <1>2, <1>4, <1>5

\* What the end of the process leaves of memory and tasks.
LEMMA EndsTyped ==
  ASSUME IInv, ProcessEnds, UNCHANGED <<offered, written>> \/ offered \subseteq offered',
         store' \subseteq Events, offered' \subseteq Events, written' \subseteq Events,
         dropped' \subseteq Events
  PROVE  TypeOK' /\ WorkersHonest' /\ QueueIsDurable'
BY IdleTyped DEF IInv, ProcessEnds, TypeOK, WorkersHonest, IdleWorker, QueueIsDurable, LoggedIn

\* An event whose writing down is cut short is given up with the rows removed for it.
LEMMA CutIInv == ASSUME IInv, NEW e \in Events, EnqueueCut(e) PROVE IInv'
<1> USE DEF IInv, StoreIsWritten
<1>1. PICK gone \in SUBSET pending :
          store' = store \ gone /\ dropped' = dropped \cup {e} \cup gone
  BY DEF EnqueueCut
<1>2. /\ ProcessEnds /\ accepted' = accepted /\ written' = written
      /\ offered' = offered \cup {e} /\ pending \subseteq Events
  BY DEF EnqueueCut, ProcessEnds, TypeOK
<1>3. TypeOK' /\ WorkersHonest' /\ QueueIsDurable'
  BY <1>1, <1>2, EndsTyped DEF TypeOK
<1>4. NothingLost' /\ StoreIsWritten'
  BY <1>1, <1>2 DEF NothingLost
<1> QED BY <1>3, <1>4

\* The handlers that only start a drain, or may.
LEMMA RetryIInv ==
  ASSUME IInv, session' \in {session, "active"}, session # "stopped",
         session = "starting" => session' = "starting",
         UNCHANGED <<store, pending, accepted, history>>, configured' \in BOOLEAN,
         NEW wd \in BOOLEAN, NEW fly \in SUBSET Events,
         RetryFrom(pending, fly, drain, worker, wd)
  PROVE  IInv'
<1> USE DEF IInv, StoreIsWritten, history
<1>1. pending \in SUBSET Events /\ pending \subseteq offered'
  BY DEF QueueIsDurable, LoggedIn, TypeOK
<1>2. /\ inflight' \subseteq Events
      /\ drain' \in DrainType /\ Coherent(drain')
      /\ watchdog' \in BOOLEAN
      /\ worker' \in [Workers -> WorkerType]
      /\ WorkersHonest'
  BY <1>1, RetryKeeps
<1>3. TypeOK'
  BY <1>2 DEF TypeOK
<1>4. QueueIsDurable' /\ NothingLost' /\ StoreIsWritten'
  BY DEF QueueIsDurable, LoggedIn, NothingLost
<1> QED BY <1>2, <1>3, <1>4

\* A step that changes one worker and, at most, adds accepted events.
LEMMA WorkerMove ==
  ASSUME IInv, NEW w \in Workers, NEW new \in WorkerType, QueueUnchanged,
         worker' = [worker EXCEPT ![w] = new],
         accepted \subseteq accepted', accepted' \subseteq Events,
         new.queued \cup new.active \subseteq worker[w].queued \cup worker[w].active,
         new.ok \subseteq accepted'
  PROVE  IInv'
<1> USE DEF IInv, StoreIsWritten, history, QueueUnchanged
<1>1. \A v \in Workers : worker'[v] = IF v = w THEN new ELSE worker[v]
  BY DEF TypeOK
<1>2. TypeOK'
  BY <1>1 DEF TypeOK
<1>3. WorkersHonest'
  BY <1>1 DEF WorkersHonest
<1>4. QueueIsDurable' /\ NothingLost' /\ StoreIsWritten'
  BY DEF QueueIsDurable, LoggedIn, NothingLost
<1> QED BY <1>2, <1>3, <1>4

LEMMA WorkerStepIInv ==
  ASSUME IInv, NEW w \in Workers, WorkerStep(w) PROVE IInv'
<1>1. /\ worker \in [Workers -> WorkerType] /\ worker[w] \in WorkerType
      /\ worker[w].ok \subseteq accepted /\ accepted \subseteq Events
  BY DEF IInv, TypeOK, WorkersHonest
<1>2. CASE WorkerTakes(w)
  <2> DEFINE next == FirstOf(worker[w].queued, 1)
             new == [worker[w] EXCEPT !.queued = @ \ next, !.active = @ \cup next]
  <2>1. next \subseteq worker[w].queued
    BY FirstOfSubset
  <2>2. worker' = [worker EXCEPT ![w] = new]
    BY <1>2 DEF WorkerTakes
  <2> HIDE DEF next
  <2>3. /\ new \in WorkerType /\ new.ok = worker[w].ok
        /\ new.queued \cup new.active \subseteq worker[w].queued \cup worker[w].active
    BY <1>1, <2>1 DEF WorkerType
  <2>4. QueueUnchanged /\ accepted' = accepted
    BY <1>2 DEF WorkerTakes
  <2> HIDE DEF new
  <2> QED BY <1>1, <2>2, <2>3, <2>4, WorkerMove
<1>3. ASSUME NEW e \in Events, AttemptAccepted(w, e) PROVE IInv'
  <2> DEFINE new == [worker[w] EXCEPT !.active = @ \ {e}, !.ok = @ \cup {e}]
  <2>1. worker' = [worker EXCEPT ![w] = new]
    BY <1>3 DEF AttemptAccepted
  <2>2. /\ new \in WorkerType /\ new.ok = worker[w].ok \cup {e}
        /\ new.queued \cup new.active \subseteq worker[w].queued \cup worker[w].active
    BY <1>1 DEF WorkerType
  <2>3. QueueUnchanged /\ accepted' = accepted \cup {e}
    BY <1>3 DEF AttemptAccepted
  <2> HIDE DEF new
  <2> QED BY <1>1, <2>1, <2>2, <2>3, WorkerMove
<1>4. ASSUME NEW e \in Events, AttemptFails(w, e) PROVE IInv'
  <2> DEFINE bad  == [worker[w] EXCEPT !.active = @ \ {e}, !.bad = @ \cup {e}]
             gaveUp == [worker[w] EXCEPT !.active = @ \ {e}, !.lost = @ \cup {e}]
  <2>1. PICK new \in {bad, gaveUp} : worker' = [worker EXCEPT ![w] = new]
    BY <1>4 DEF AttemptFails
  <2>2. /\ new \in WorkerType /\ new.ok = worker[w].ok
        /\ new.queued \cup new.active \subseteq worker[w].queued \cup worker[w].active
    <3>1. CASE new = bad
      BY <1>1, <3>1 DEF WorkerType
    <3>2. CASE new = gaveUp
      BY <1>1, <3>2 DEF WorkerType
    <3> QED BY <2>1, <3>1, <3>2
  <2>3. QueueUnchanged /\ accepted' \in {accepted, accepted \cup {e}}
    BY <1>4 DEF AttemptFails
  <2> HIDE DEF bad, gaveUp
  <2> QED BY <1>1, <2>1, <2>2, <2>3, WorkerMove
<1> QED BY <1>2, <1>3, <1>4 DEF WorkerStep

\* A result: only an accepted event leaves the queue and the table.
LEMMA ProgressIInv ==
  ASSUME IInv, NEW w \in Workers, NEW e \in Events, HandleProgress(w, e) PROVE IInv'
<1> USE DEF IInv, StoreIsWritten, history
<1> DEFINE new == [worker[w] EXCEPT !.ok = @ \ {e}, !.bad = @ \ {e}]
<1>1. /\ worker[w] \in WorkerType /\ worker' = [worker EXCEPT ![w] = new]
      /\ worker \in [Workers -> WorkerType]
  BY DEF HandleProgress, TypeOK
<1>2. /\ new \in WorkerType /\ new.queued = worker[w].queued
      /\ new.active = worker[w].active /\ new.ok \subseteq worker[w].ok
  BY <1>1 DEF WorkerType
<1> HIDE DEF new
<1>3. \A v \in Workers : worker'[v] = IF v = w THEN new ELSE worker[v]
  BY <1>1
<1>4. /\ UNCHANGED <<session, configured, drain, watchdog, accepted, history>>
      /\ inflight' \subseteq inflight
      /\ \/ UNCHANGED <<pending, store>>
         \/ /\ e \in worker[w].ok
            /\ pending' = pending \ {e} /\ store' \in AfterDelete({e})
  BY DEF HandleProgress
<1>5. /\ store' \subseteq store /\ pending' \subseteq pending
      /\ \A f \in store : f \in store' \/ (f = e /\ e \in accepted)
      /\ pending' \subseteq store' \/ ~LoggedIn
      /\ "delete" \notin Failures /\ store \subseteq pending => store' \subseteq pending'
  BY <1>4, AfterDeleteBounds DEF WorkersHonest, QueueIsDurable
<1>6. TypeOK' /\ WorkersHonest'
  BY <1>1, <1>2, <1>3, <1>4, <1>5 DEF TypeOK, WorkersHonest
<1>7. QueueIsDurable'
  BY <1>4, <1>5 DEF QueueIsDurable, LoggedIn
<1>8. NothingLost' /\ StoreIsWritten'
  BY <1>4, <1>5 DEF NothingLost
<1> QED BY <1>6, <1>7, <1>8

\* The end of a drain frees the worker, whatever it still had in hand.
LEMMA FinishedIInv ==
  ASSUME IInv, NEW w \in Workers, HandleFinished(w) PROVE IInv'
<1> USE DEF IInv, StoreIsWritten, history
<1> DEFINE done  == [IdleDrain EXCEPT !.token = drain.token]
           freed == [worker EXCEPT ![w] = IdleWorker]
<1>1. freed \in [Workers -> WorkerType] /\ done \in DrainType /\ Coherent(done)
  BY IdleTyped DEF TypeOK, IdleDrain, DrainType, Coherent
<1>2. \A v \in Workers : freed[v] = IF v = w THEN IdleWorker ELSE worker[v]
  BY DEF TypeOK
<1>3. UNCHANGED <<session, configured, store, pending, accepted, history>>
  BY DEF HandleFinished
<1>4. QueueIsDurable' /\ NothingLost' /\ StoreIsWritten'
  BY <1>3 DEF QueueIsDurable, LoggedIn, NothingLost
<1>5. CASE /\ worker' = freed /\ inflight' \in {inflight, {}}
           /\ drain' \in {drain, done} /\ UNCHANGED watchdog
  <2> HIDE DEF freed, done
  <2>1. TypeOK'
    BY <1>1, <1>3, <1>5 DEF TypeOK
  <2>2. WorkersHonest'
    BY <1>2, <1>3, <1>5 DEF WorkersHonest, IdleWorker
  <2> QED BY <1>4, <2>1, <2>2
<1>6. CASE Heeds(w) /\ RetryFrom(pending, {}, done, freed, watchdog)
  <2> HIDE DEF freed, done
  <2>0. pending \in SUBSET Events /\ watchdog \in BOOLEAN /\ pending \subseteq offered
    BY <1>6 DEF TypeOK, QueueIsDurable, LoggedIn, Heeds
  <2>1. RetryOutcome(pending, freed)
    BY <1>1, <1>6, <2>0, RetryEffect
  <2>2. TypeOK'
    BY <1>3, <2>1 DEF TypeOK, RetryOutcome
  <2>3. WorkersHonest'
    BY <1>2, <1>3, <2>0, <2>1 DEF WorkersHonest, IdleWorker, RetryOutcome
  <2> QED BY <1>4, <2>2, <2>3
<1> QED BY <1>5, <1>6 DEF HandleFinished

\* The session starts, stops, suspends or loses its servers.
LEMMA SessionIInv ==
  ASSUME IInv, \/ RemoveRelays \/ Suspend \/ StartSession \/ LoadQueue
               \/ Crash \/ Logout
  PROVE  IInv'
<1> USE DEF IInv, StoreIsWritten, history
<1>1. CASE RemoveRelays \/ Suspend \/ StartSession \/ Logout
  <2>1. ResetRuntime /\ UNCHANGED <<accepted, offered>>
    BY <1>1 DEF RemoveRelays, Suspend, StartSession, Logout
  <2>2. /\ drain' \in DrainType /\ Coherent(drain')
        /\ watchdog' \in BOOLEAN
        /\ worker' \in [Workers -> WorkerType]
        /\ WorkersHonest'
    BY <2>1, ResetKeeps
  <2>3. TypeOK'
    BY <1>1, <2>2 DEF TypeOK, RemoveRelays, Suspend, StartSession, Logout
  <2>4. QueueIsDurable' /\ StoreIsWritten'
    BY <1>1 DEF QueueIsDurable, LoggedIn, RemoveRelays, Suspend, StartSession, Logout
  <2>5. NothingLost'
    BY <1>1 DEF NothingLost, RemoveRelays, Suspend, StartSession, Logout
  <2> QED BY <2>2, <2>3, <2>4, <2>5
<1>2. CASE LoadQueue
  <2>1. TypeOK'
    BY <1>2 DEF LoadQueue, TypeOK
  <2>2. WorkersHonest' /\ StoreIsWritten'
    BY <1>2 DEF LoadQueue, WorkersHonest
  <2>3. QueueIsDurable' /\ NothingLost'
    BY <1>2 DEF LoadQueue, QueueIsDurable, LoggedIn, NothingLost
  <2> QED BY <2>1, <2>2, <2>3
<1>3. CASE Crash
  <2>1. ProcessEnds /\ UNCHANGED <<store, accepted, offered, written, dropped>>
    BY <1>3 DEF Crash, ProcessEnds
  <2>2. TypeOK' /\ WorkersHonest' /\ QueueIsDurable'
    BY <2>1, EndsTyped DEF TypeOK
  <2>3. NothingLost' /\ StoreIsWritten'
    BY <2>1 DEF NothingLost
  <2> QED BY <2>2, <2>3
<1> QED BY <1>1, <1>2, <1>3

\* A handler that ends in retry_pending_relay_publishes, or drops the timer.
LEMMA RetriesIInv ==
  ASSUME IInv, Retry \/ WatchdogFires \/ AddRelays \/ Foreground \/ SessionStarted
  PROVE  IInv'
<1> USE DEF IInv, StoreIsWritten, history
<1>0. inflight \in SUBSET Events /\ watchdog \in BOOLEAN /\ configured \in BOOLEAN
  BY DEF TypeOK
<1>1. CASE Retry
  BY <1>0, <1>1, RetryIInv DEF Retry
<1>2. CASE WatchdogFires
  <2>1. CASE RetryFrom(pending, inflight, drain, worker, FALSE) /\ session = "active"
    BY <1>0, <1>2, <2>1, RetryIInv DEF WatchdogFires
  <2>2. CASE watchdog' = FALSE /\ UNCHANGED <<inflight, drain, worker>>
    BY <1>2, <2>2
    DEF WatchdogFires, TypeOK, WorkersHonest, QueueIsDurable, LoggedIn, NothingLost
  <2> QED BY <1>2, <2>1, <2>2 DEF WatchdogFires
<1>3. CASE AddRelays
  BY <1>0, <1>3, RetryIInv DEF AddRelays
<1>4. CASE Foreground
  BY <1>0, <1>4, RetryIInv DEF Foreground
<1>5. CASE SessionStarted
  BY <1>0, <1>5, RetryIInv DEF SessionStarted
<1> QED BY <1>1, <1>2, <1>3, <1>4, <1>5

LEMMA NextIInv == IInv /\ [Next]_vars => IInv'
<1> SUFFICES ASSUME IInv, [Next]_vars PROVE IInv'
  OBVIOUS
<1>1. CASE \E e \in Events : Enqueue(e) \/ EnqueueCut(e)
  BY <1>1, EnqueueIInv, CutIInv
<1>2. CASE Retry \/ WatchdogFires \/ AddRelays \/ Foreground \/ SessionStarted
  BY <1>2, RetriesIInv
<1>3. CASE DrainAges
  <2>1. [drain EXCEPT !.stale = TRUE] \in DrainType
        /\ Coherent([drain EXCEPT !.stale = TRUE])
    BY <1>3 DEF DrainAges, IInv, TypeOK, DrainType, Coherent
  <2> QED BY <1>3, <2>1
          DEF DrainAges, IInv, StoreIsWritten, history, TypeOK, WorkersHonest, QueueIsDurable, LoggedIn, NothingLost
<1>4. ASSUME NEW w \in Workers, WorkerStep(w) PROVE IInv'
  BY <1>4, WorkerStepIInv
<1>5. ASSUME NEW w \in Workers, WorkerReport(w) PROVE IInv'
  BY <1>5, ProgressIInv, FinishedIInv DEF WorkerReport
<1>6. CASE \/ RemoveRelays \/ Suspend \/ StartSession \/ LoadQueue
           \/ Crash \/ Logout
  BY <1>6, SessionIInv
<1>7. CASE UNCHANGED vars
  BY <1>7 DEF vars, IInv, StoreIsWritten, TypeOK, WorkersHonest, QueueIsDurable, LoggedIn, NothingLost
<1> QED BY <1>1, <1>2, <1>3, <1>4, <1>5, <1>6, <1>7 DEF Next

LEMMA IInvHolds == Spec => []IInv
  BY InitIInv, NextIInv, PTL DEF Spec

-----------------------------------------------------------------------------
(* The theorems.                                                           *)

\* The variables keep their types, and the drain runtime's fields agree.
THEOREM TypeCorrect == Spec => []TypeOK
<1>1. IInv => TypeOK
  BY DEF IInv
<1> QED BY <1>1, IInvHolds, PTL

\* The queue a running session drains is stored, and all that is stored is drained.
THEOREM QueueDurable == Spec => []QueueIsDurable
<1>1. IInv => QueueIsDurable
  BY DEF IInv
<1> QED BY <1>1, IInvHolds, PTL

\* No event the application has handed over disappears before a message server
\* has it or a newer event of its class, once written, replaces it, but for what
\* a failing or interrupted write and a logout give up.
THEOREM PublishesNotLost == Spec => []NothingLost
<1>1. IInv => NothingLost
  BY DEF IInv
<1> QED BY <1>1, IInvHolds, PTL

\* The handlers that touch neither the table nor what the servers hold.
LEMMA StutterSteps ==
  ASSUME \/ Retry \/ WatchdogFires \/ DrainAges \/ RemoveRelays \/ AddRelays
         \/ Suspend \/ Foreground \/ StartSession \/ LoadQueue
         \/ SessionStarted \/ Crash \/ UNCHANGED vars
  PROVE  UNCHANGED Outbox!outboxVars
  BY DEF Retry, WatchdogFires, DrainAges, RemoveRelays, AddRelays, Suspend,
         Foreground, StartSession, LoadQueue, SessionStarted, Crash, vars,
         Outbox!outboxVars, ProcessEnds, history

\* Every step is a step of the outbox over the same table, or no step at all.
LEMMA NextRefines == IInv /\ [Next]_vars => [Outbox!Next]_Outbox!outboxVars
<1> SUFFICES ASSUME IInv, [Next]_vars PROVE [Outbox!Next]_Outbox!outboxVars
  OBVIOUS
<1> USE DEF Outbox!Next, Outbox!outboxVars, history
<1>1. ASSUME NEW e \in Events, Enqueue(e) PROVE Outbox!Next
  <2> DEFINE older == {f \in pending : Replaces(e, f)}
             newer == {f \in pending : Replaces(f, e)}
  <2>1. /\ e \notin offered /\ offered' = offered \cup {e} /\ accepted' = accepted
        /\ pending \subseteq store
    BY <1>1 DEF Enqueue, IInv, QueueIsDurable
  <2>2. PICK gone \in SUBSET older : \E remain \in AfterDelete(gone) :
          \/ store' = remain /\ (newer # {} \/ "upsert" \in Failures)
          \/ store' = remain \cup {e}
    BY <1>1 DEF Enqueue
  <2>3. PICK remain \in AfterDelete(gone) :
          \/ store' = remain /\ (newer # {} \/ "upsert" \in Failures)
          \/ store' = remain \cup {e}
    BY <2>2
  <2>4. PICK g \in SUBSET gone : remain = store \ g
    BY <2>3 DEF AfterDelete
  <2>5. g \in SUBSET {f \in store : Replaces(e, f)}
    BY <2>1, <2>2, <2>4
  <2>6. CASE store' = remain /\ newer # {}
    <3>1. Outbox!Decline(e)
      BY <2>1, <2>4, <2>5, <2>6 DEF Outbox!Decline
    <3> QED BY <3>1
  <2>7. CASE store' = remain /\ "upsert" \in Failures
    <3>1. Outbox!FailToOwe(e)
      BY <2>1, <2>4, <2>5, <2>7 DEF Outbox!FailToOwe
    <3> QED BY <3>1
  <2>8. CASE store' = remain \cup {e}
    <3>1. Outbox!Owe(e)
      BY <2>1, <2>4, <2>5, <2>8 DEF Outbox!Owe
    <3> QED BY <3>1
  <2> QED BY <2>3, <2>6, <2>7, <2>8
<1>2. ASSUME NEW w \in Workers, WorkerStep(w) PROVE [Outbox!Next]_Outbox!outboxVars
  <2>1. UNCHANGED <<store, offered>>
    BY <1>2 DEF WorkerStep, WorkerTakes, AttemptAccepted, AttemptFails, QueueUnchanged
  <2>2. \/ accepted' = accepted
        \/ \E e \in offered \cap Events : accepted' = accepted \cup {e}
    BY <1>2 DEF WorkerStep, WorkerTakes, AttemptAccepted, AttemptFails, IInv, WorkersHonest
  <2>3. ASSUME NEW e \in offered \cap Events, accepted' = accepted \cup {e}
        PROVE Outbox!Next
    BY <2>1, <2>3 DEF Outbox!Accept
  <2> QED BY <2>1, <2>2, <2>3
<1>3. ASSUME NEW w \in Workers, NEW e \in Events, HandleProgress(w, e)
      PROVE [Outbox!Next]_Outbox!outboxVars
  <2>1. UNCHANGED <<accepted, history>>
    BY <1>3 DEF HandleProgress
  <2>2. \/ store' = store
        \/ e \in worker[w].ok /\ store' \in {store, store \ {e}}
    BY <1>3 DEF HandleProgress, AfterDelete
  <2>3. CASE e \in store /\ e \in worker[w].ok /\ store' = store \ {e}
    <3>1. e \in accepted
      BY <2>3 DEF IInv, WorkersHonest
    <3> QED BY <2>1, <2>3, <3>1 DEF Outbox!Discharge
  <2> QED BY <2>1, <2>2, <2>3
<1>4. ASSUME NEW w \in Workers, HandleFinished(w) PROVE UNCHANGED Outbox!outboxVars
  BY <1>4 DEF HandleFinished
<1>5. CASE Logout
  BY <1>5 DEF Logout, Outbox!Abandon
<1>6. ASSUME NEW e \in Events, EnqueueCut(e) PROVE Outbox!Next
  <2>1. /\ "crash" \in Disruptions
        /\ e \notin offered /\ offered' = offered \cup {e} /\ accepted' = accepted
        /\ pending \subseteq store
    BY <1>6 DEF EnqueueCut, ProcessEnds, IInv, QueueIsDurable
  <2>2. PICK gone \in SUBSET {f \in pending : Replaces(e, f)} : store' = store \ gone
    BY <1>6 DEF EnqueueCut
  <2>3. gone \in SUBSET {f \in store : Replaces(e, f)}
    BY <2>1, <2>2
  <2>4. Outbox!FailToOwe(e)
    BY <2>1, <2>2, <2>3 DEF Outbox!FailToOwe
  <2> QED BY <2>4
<1> QED BY <1>1, <1>2, <1>3, <1>4, <1>5, <1>6, StutterSteps DEF Next, WorkerReport

\* The queue with its drains, tokens, retries and restarts implements the outbox.
THEOREM ImplementsTheOutbox == Spec => ImplementsOutbox
<1>1. Init => Outbox!Init
  BY DEF Init, Outbox!Init
<1>2. IInv /\ [Next]_vars => [Outbox!Next]_Outbox!outboxVars
  BY NextRefines
<1> QED BY <1>1, <1>2, IInvHolds, PTL DEF Spec, ImplementsOutbox, Outbox!Spec

-----------------------------------------------------------------------------
(* The in-flight set.                                                      *)

\* A worker of ws whose reports count under the token t holds e.
Carried(ws, t, e) ==
    \E v \in Workers : /\ ws[v].on /\ ws[v].token = t
                       /\ e \in ws[v].queued \cup ws[v].active \cup ws[v].ok
                               \cup ws[v].bad \cup ws[v].lost

\* The inductive invariant.  The watchdog of a suspended session may be gone, but
\* then the drain is stale and the next retry forgets it.
FlyInv ==
    "norelays" \notin Disruptions =>
        /\ configured
        /\ "suspend" \notin Disruptions => session # "suspended"
        /\ LoggedIn =>
             /\ inflight \subseteq pending
             /\ inflight # {} =>
                  drain.inFlight /\ (watchdog \/ (session = "suspended" /\ drain.stale))
             /\ "suspend" \notin Disruptions =>
                  \A e \in inflight : Carried(worker, drain.token, e)

\* After a retry a drain in flight has its watchdog, and the events in flight
\* are still carried or are the batch of the new worker.
LEMMA RetryCarries ==
  ASSUME NEW p, NEW fly \in SUBSET p, NEW d \in DrainType,
         NEW ws \in [Workers -> WorkerType], NEW wd, configured',
         fly # {} => d.inFlight /\ (wd \/ d.stale),
         RetryFrom(p, fly, d, ws, wd)
  PROVE  /\ inflight' \subseteq p
         /\ inflight' # {} => drain'.inFlight /\ watchdog'
         /\ (\A e \in fly : Carried(ws, d.token, e))
               => \A e \in inflight' : Carried(worker', drain'.token, e)
<1> DEFINE d0    == IF d.inFlight /\ d.stale THEN [IdleDrain EXCEPT !.token = d.token] ELSE d
           fly0  == IF d.inFlight /\ d.stale THEN {} ELSE fly
           todo  == p \ fly0
           batch == FirstOf(todo, BatchSize)
<1>1. d0.token = d.token /\ (d0.inFlight => d0 = d /\ fly0 = fly /\ ~d.stale)
      /\ (~d0.inFlight => fly0 = {})
  BY DEF IdleDrain, DrainType
<1>2. CASE p = {} /\ inflight' = fly
  BY <1>2
<1>3. CASE /\ d0.inFlight /\ inflight' = fly0 /\ drain' = [d0 EXCEPT !.dirty = TRUE]
           /\ worker' = ws /\ watchdog' = wd
  <2>1. drain'.inFlight /\ drain'.token = d.token
    BY <1>1, <1>3 DEF DrainType
  <2> HIDE DEF d0, fly0
  <2> QED BY <1>1, <1>3, <2>1
<1>4. CASE ~d0.inFlight /\ inflight' = fly0
  BY <1>1, <1>4
<1>5. ASSUME ~d0.inFlight, NEW w \in Workers, NEW t \in Tokens,
             worker' = [ws EXCEPT ![w] =
                [IdleWorker EXCEPT !.on = TRUE, !.token = t, !.queued = batch]],
             inflight' = fly0 \cup batch,
             drain' = [inFlight |-> TRUE, dirty |-> batch # todo,
                       stale |-> FALSE, token |-> t],
             watchdog' = TRUE
      PROVE  /\ inflight' \subseteq p
             /\ inflight' # {} => drain'.inFlight /\ watchdog'
             /\ \A e \in inflight' : Carried(worker', drain'.token, e)
  <2>1. batch \subseteq p /\ inflight' = batch
    BY <1>1, <1>5, FirstOfSubset
  <2> HIDE DEF d0, fly0, batch
  <2> DEFINE new == [IdleWorker EXCEPT !.on = TRUE, !.token = t, !.queued = batch]
  <2>2. new.on /\ new.token = t /\ new.queued = batch
    BY DEF IdleWorker
  <2> HIDE DEF new
  <2>3. worker' = [ws EXCEPT ![w] = new]
    BY <1>5 DEF new
  <2>4. worker'[w] = new
    BY <2>3
  <2>5. drain'.inFlight /\ drain'.token = t
    BY <1>5
  <2> QED BY <1>5, <2>1, <2>2, <2>4, <2>5 DEF Carried
<1> QED BY <1>2, <1>3, <1>4, <1>5 DEF RetryFrom

\* A step that leaves the drain alone and takes from the in-flight set whatever
\* it takes from a worker that counts.
LEMMA FlyShrinks ==
  ASSUME FlyInv, UNCHANGED <<session, configured, drain, watchdog>>,
         inflight' \subseteq inflight, inflight' \subseteq pending',
         \A e \in inflight' : Carried(worker, drain.token, e)
                                => Carried(worker', drain.token, e)
  PROVE  FlyInv'
  BY DEF FlyInv, LoggedIn

LEMMA InitFly == Init => FlyInv
  BY DEF Init, FlyInv, LoggedIn

\* A handler of a running session that ends in a retry.
LEMMA RetryFly ==
  ASSUME IInv, FlyInv, "norelays" \notin Disruptions => configured',
         NEW p, p = pending', NEW fly, fly \subseteq inflight, fly \subseteq p,
         RetryFrom(p, fly, drain, worker, watchdog),
         LoggedIn, session' \in {session, "active"}
  PROVE  FlyInv'
<1> SUFFICES ASSUME "norelays" \notin Disruptions PROVE FlyInv'
  BY DEF FlyInv
<1>1. drain \in DrainType /\ worker \in [Workers -> WorkerType] /\ configured'
  BY DEF IInv, TypeOK
<1>2. /\ fly # {} => drain.inFlight /\ (watchdog \/ drain.stale)
      /\ "suspend" \notin Disruptions =>
           (session # "suspended" /\ \A e \in fly : Carried(worker, drain.token, e))
  BY DEF FlyInv
<1>3. fly \in SUBSET p
  OBVIOUS
<1>4. /\ inflight' \subseteq p
      /\ inflight' # {} => drain'.inFlight /\ watchdog'
      /\ (\A e \in fly : Carried(worker, drain.token, e))
            => \A e \in inflight' : Carried(worker', drain'.token, e)
  BY <1>1, <1>2, <1>3, RetryCarries
<1> QED BY <1>1, <1>2, <1>4 DEF FlyInv

LEMMA EnqueueFly ==
  ASSUME IInv, FlyInv, NEW e \in Events, Enqueue(e) PROVE FlyInv'
<1> SUFFICES ASSUME "norelays" \notin Disruptions PROVE FlyInv'
  BY DEF FlyInv
<1>1. /\ LoggedIn /\ UNCHANGED <<session, configured>> /\ configured
      /\ inflight \subseteq pending
  BY DEF Enqueue, FlyInv
<1>2. PICK gone :
        \/ /\ pending' = pending \ gone /\ inflight' = inflight \ gone
           /\ UNCHANGED <<drain, worker, watchdog>>
        \/ /\ pending' = (pending \ gone) \cup {e}
           /\ RetryFrom(pending', inflight \ gone, drain, worker, watchdog)
  BY DEF Enqueue
<1>3. CASE /\ pending' = pending \ gone /\ inflight' = inflight \ gone
           /\ UNCHANGED <<drain, worker, watchdog>>
  BY <1>1, <1>3, FlyShrinks
<1>4. CASE /\ pending' = (pending \ gone) \cup {e}
           /\ RetryFrom(pending', inflight \ gone, drain, worker, watchdog)
  <2> DEFINE q == pending'
             fly == inflight \ gone
  <2>1. fly \subseteq inflight /\ fly \subseteq q
    BY <1>1, <1>4
  <2>2. RetryFrom(q, fly, drain, worker, watchdog)
    BY <1>4
  <2>3. q = pending'
    OBVIOUS
  <2> HIDE DEF q, fly
  <2> QED BY <1>1, <2>1, <2>2, <2>3, RetryFly
<1> QED BY <1>2, <1>3, <1>4

\* The watchdog fires for a drain that is stale, which the retry forgets, or when
\* none is in flight.
LEMMA WatchdogFly ==
  ASSUME IInv, FlyInv, WatchdogFires PROVE FlyInv'
<1> SUFFICES ASSUME "norelays" \notin Disruptions PROVE FlyInv'
  BY DEF FlyInv
<1>1. /\ UNCHANGED <<session, configured, pending>> /\ configured
      /\ drain \in DrainType /\ worker \in [Workers -> WorkerType]
      /\ drain.stale \/ ~drain.inFlight
  BY DEF WatchdogFires, FlyInv, IInv, TypeOK
<1>2. CASE session = "active" /\ RetryFrom(pending, inflight, drain, worker, FALSE)
  <2>1. /\ inflight \in SUBSET pending
        /\ inflight # {} => drain.inFlight /\ (FALSE \/ drain.stale)
        /\ "suspend" \notin Disruptions =>
             \A e \in inflight : Carried(worker, drain.token, e)
    BY <1>1, <1>2 DEF FlyInv, LoggedIn
  <2>2. /\ inflight' \subseteq pending
        /\ inflight' # {} => drain'.inFlight /\ watchdog'
        /\ (\A e \in inflight : Carried(worker, drain.token, e))
              => \A e \in inflight' : Carried(worker', drain'.token, e)
    BY <1>1, <1>2, <2>1, RetryCarries
  <2> QED BY <1>1, <1>2, <2>1, <2>2 DEF FlyInv
<1>3. CASE session \in {"stopped", "suspended"} /\ UNCHANGED <<inflight, drain, worker>>
  BY <1>1, <1>3 DEF FlyInv, LoggedIn, Carried
<1> QED BY <1>2, <1>3 DEF WatchdogFires

\* A worker that takes, tries or loses an event holds it as before.
LEMMA WorkerStepFly ==
  ASSUME IInv, FlyInv, NEW w \in Workers, WorkerStep(w) PROVE FlyInv'
<1>1. worker \in [Workers -> WorkerType] /\ worker[w] \in WorkerType
  BY DEF IInv, TypeOK
<1>2. UNCHANGED <<session, configured, pending, inflight, drain, watchdog>>
  BY DEF WorkerStep, WorkerTakes, AttemptAccepted, AttemptFails, QueueUnchanged
<1>3. PICK new \in WorkerType :
        /\ worker' = [worker EXCEPT ![w] = new]
        /\ new.on = worker[w].on /\ new.token = worker[w].token
        /\ new.queued \cup new.active \cup new.ok \cup new.bad \cup new.lost = Held(w)
  <2>1. CASE WorkerTakes(w)
    <3> DEFINE next == FirstOf(worker[w].queued, 1)
               new == [worker[w] EXCEPT !.queued = @ \ next, !.active = @ \cup next]
    <3>1. next \subseteq worker[w].queued
      BY FirstOfSubset
    <3>2. worker' = [worker EXCEPT ![w] = new]
      BY <2>1 DEF WorkerTakes
    <3> HIDE DEF next
    <3>3. /\ new \in WorkerType /\ new.on = worker[w].on /\ new.token = worker[w].token
          /\ new.queued \cup new.active \cup new.ok \cup new.bad \cup new.lost = Held(w)
      BY <1>1, <3>1 DEF WorkerType, Held
    <3> QED BY <3>2, <3>3
  <2>2. ASSUME NEW e \in Events, AttemptAccepted(w, e) \/ AttemptFails(w, e)
        PROVE  \E new \in WorkerType :
                 /\ worker' = [worker EXCEPT ![w] = new]
                 /\ new.on = worker[w].on /\ new.token = worker[w].token
                 /\ new.queued \cup new.active \cup new.ok \cup new.bad \cup new.lost = Held(w)
    <3> DEFINE ok == [worker[w] EXCEPT !.active = @ \ {e}, !.ok = @ \cup {e}]
               bad == [worker[w] EXCEPT !.active = @ \ {e}, !.bad = @ \cup {e}]
               gaveUp == [worker[w] EXCEPT !.active = @ \ {e}, !.lost = @ \cup {e}]
    <3>1. e \in worker[w].active /\ \E new \in {ok, bad, gaveUp} : worker' = [worker EXCEPT ![w] = new]
      BY <2>2 DEF AttemptAccepted, AttemptFails
    <3>2. \A new \in {ok, bad, gaveUp} :
            /\ new \in WorkerType
            /\ new.on = worker[w].on /\ new.token = worker[w].token
            /\ new.queued \cup new.active \cup new.ok \cup new.bad \cup new.lost = Held(w)
      <4>1. /\ ok \in WorkerType
            /\ ok.on = worker[w].on /\ ok.token = worker[w].token
            /\ ok.queued \cup ok.active \cup ok.ok \cup ok.bad \cup ok.lost = Held(w)
        BY <1>1, <3>1 DEF WorkerType, Held
      <4>2. /\ bad \in WorkerType
            /\ bad.on = worker[w].on /\ bad.token = worker[w].token
            /\ bad.queued \cup bad.active \cup bad.ok \cup bad.bad \cup bad.lost = Held(w)
        BY <1>1, <3>1 DEF WorkerType, Held
      <4>3. /\ gaveUp \in WorkerType
            /\ gaveUp.on = worker[w].on /\ gaveUp.token = worker[w].token
            /\ gaveUp.queued \cup gaveUp.active \cup gaveUp.ok \cup gaveUp.bad \cup gaveUp.lost = Held(w)
        BY <1>1, <3>1 DEF WorkerType, Held
      <4> HIDE DEF ok, bad, gaveUp
      <4> QED BY <4>1, <4>2, <4>3
    <3> HIDE DEF ok, bad, gaveUp
    <3> QED BY <3>1, <3>2
  <2> QED BY <2>1, <2>2 DEF WorkerStep
<1>4. \A v \in Workers : worker'[v] = IF v = w THEN new ELSE worker[v]
  BY <1>1, <1>3
<1>5. \A e, t : Carried(worker, t, e) => Carried(worker', t, e)
  BY <1>3, <1>4 DEF Carried, Held
<1> QED BY <1>2, <1>5 DEF FlyInv, LoggedIn

\* A report that is heeded takes its event out of the in-flight set.
LEMMA ProgressFly ==
  ASSUME IInv, FlyInv, NEW w \in Workers, NEW e \in Events, HandleProgress(w, e)
  PROVE  FlyInv'
<1> DEFINE new == [worker[w] EXCEPT !.ok = @ \ {e}, !.bad = @ \ {e}]
<1>1. /\ worker \in [Workers -> WorkerType] /\ worker[w] \in WorkerType
      /\ worker' = [worker EXCEPT ![w] = new]
      /\ UNCHANGED <<session, configured, drain, watchdog>>
      /\ session \in {"stopped", "active", "suspended"}
      /\ inflight' = IF Heeds(w) THEN inflight \ {e} ELSE inflight
      /\ \/ UNCHANGED pending
         \/ Heeds(w) /\ pending' = pending \ {e}
  BY DEF HandleProgress, IInv, TypeOK
<1>2. /\ new.on = worker[w].on /\ new.token = worker[w].token
      /\ Held(w) \ {e} \subseteq
           new.queued \cup new.active \cup new.ok \cup new.bad \cup new.lost
  BY <1>1 DEF WorkerType, Held
<1> HIDE DEF new
<1>3. \A v \in Workers : worker'[v] = IF v = w THEN new ELSE worker[v]
  BY <1>1
<1>4. \A f, t : f # e \/ worker[w].token # t =>
         (Carried(worker, t, f) => Carried(worker', t, f))
  BY <1>2, <1>3 DEF Carried, Held
<1>5. CASE session = "stopped"
  BY <1>1, <1>5 DEF FlyInv, LoggedIn
<1>6. CASE session \in {"active", "suspended"}
  <2>1. "norelays" \notin Disruptions => inflight' \subseteq pending'
    BY <1>1, <1>6 DEF FlyInv, LoggedIn
  <2>2. "suspend" \notin Disruptions /\ "norelays" \notin Disruptions =>
           \A f \in inflight' : f # e \/ worker[w].token # drain.token
    BY <1>1, <1>6 DEF FlyInv, LoggedIn, Heeds
  <2> QED BY <1>1, <1>4, <1>6, <2>1, <2>2 DEF FlyInv, LoggedIn
<1> QED BY <1>1, <1>5, <1>6

\* The end of the drain in flight leaves nothing in flight; the end of another
\* frees a worker that did not count.
LEMMA FinishedFly ==
  ASSUME IInv, FlyInv, NEW w \in Workers, HandleFinished(w) PROVE FlyInv'
<1> SUFFICES ASSUME "norelays" \notin Disruptions PROVE FlyInv'
  BY DEF FlyInv
<1> DEFINE done  == [IdleDrain EXCEPT !.token = drain.token]
           freed == [worker EXCEPT ![w] = IdleWorker]
<1>1. /\ UNCHANGED <<session, configured, pending>> /\ configured
      /\ session \in {"stopped", "active", "suspended"}
      /\ freed \in [Workers -> WorkerType] /\ done \in DrainType
  BY IdleTyped DEF HandleFinished, FlyInv, IInv, TypeOK, IdleDrain, DrainType
<1>2. \A v \in Workers : v # w => freed[v] = worker[v]
  BY DEF IInv, TypeOK
<1>3. CASE ~Heeds(w) /\ worker' = freed /\ UNCHANGED <<inflight, drain, watchdog>>
  <2>1. \A e : worker[w].token # drain.token /\ Carried(worker, drain.token, e)
                 => Carried(freed, drain.token, e)
    BY <1>2 DEF Carried
  <2> HIDE DEF freed
  <2> QED BY <1>1, <1>3, <2>1 DEF FlyInv, LoggedIn, Heeds
<1>4. CASE worker' = freed /\ inflight' = {}
  BY <1>1, <1>4 DEF FlyInv, LoggedIn
<1>5. CASE Heeds(w) /\ RetryFrom(pending, {}, done, freed, watchdog)
  <2> HIDE DEF freed, done
  <2>1. /\ {} \in SUBSET pending
        /\ \A e \in {} : Carried(freed, done.token, e)
        /\ {} # {} => done.inFlight /\ (watchdog \/ done.stale)
    OBVIOUS
  <2>2. /\ inflight' \subseteq pending
        /\ inflight' # {} => drain'.inFlight /\ watchdog'
        /\ \A e \in inflight' : Carried(worker', drain'.token, e)
    BY <1>1, <1>5, <2>1, RetryCarries
  <2> QED BY <1>1, <1>5, <2>2 DEF FlyInv, Heeds
<1> QED BY <1>3, <1>4, <1>5 DEF HandleFinished

\* The session comes and goes.
LEMMA SessionFly ==
  ASSUME IInv, FlyInv,
         \/ Retry \/ DrainAges \/ RemoveRelays \/ AddRelays \/ Suspend \/ Foreground
         \/ StartSession \/ LoadQueue \/ SessionStarted \/ Crash \/ Logout
         \/ UNCHANGED vars
  PROVE  FlyInv'
<1>1. CASE Retry \/ AddRelays \/ Foreground \/ SessionStarted
  <2> SUFFICES ASSUME "norelays" \notin Disruptions PROVE FlyInv'
    BY DEF FlyInv
  <2>1. /\ LoggedIn /\ pending' = pending /\ session' \in {session, "active"}
        /\ RetryFrom(pending, inflight, drain, worker, watchdog) /\ configured'
    BY <1>1 DEF Retry, AddRelays, Foreground, SessionStarted, LoggedIn, FlyInv
  <2>2. inflight \subseteq pending
    BY <2>1 DEF FlyInv
  <2> QED BY <2>1, <2>2, RetryFly
<1>2. CASE DrainAges
  <2>1. [drain EXCEPT !.stale = TRUE].token = drain.token
        /\ [drain EXCEPT !.stale = TRUE].inFlight = drain.inFlight
        /\ [drain EXCEPT !.stale = TRUE].stale
    BY DEF IInv, TypeOK, DrainType
  <2> QED BY <1>2, <2>1 DEF DrainAges, FlyInv, LoggedIn, Carried
<1>3. CASE RemoveRelays
  BY <1>3 DEF RemoveRelays, FlyInv
<1>4. CASE Suspend \/ StartSession \/ Crash
  BY <1>4 DEF Suspend, StartSession, Crash, ProcessEnds, FlyInv, LoggedIn
<1>5. CASE LoadQueue
  <2>1. pending \subseteq pending'
    BY <1>5 DEF LoadQueue, IInv, QueueIsDurable, LoggedIn
  <2> QED BY <1>5, <2>1 DEF LoadQueue, FlyInv, LoggedIn, Carried
<1>6. CASE Logout
  BY <1>6 DEF Logout, FlyInv, LoggedIn
<1>7. CASE UNCHANGED vars
  BY <1>7 DEF vars, FlyInv, LoggedIn, Carried
<1> QED BY <1>1, <1>2, <1>3, <1>4, <1>5, <1>6, <1>7

\* An event that retries skip is with a running drain whose watchdog is still to
\* come, and whose worker will report it unless a suspension drops the report.
THEOREM InflightWorked == Spec => []InflightIsWorked
<1>1. IInv /\ FlyInv /\ [Next]_vars => FlyInv'
  <2> SUFFICES ASSUME IInv, FlyInv, [Next]_vars PROVE FlyInv'
    OBVIOUS
  <2>1. ASSUME NEW w \in Workers, WorkerStep(w) \/ WorkerReport(w) PROVE FlyInv'
    BY <2>1, WorkerStepFly, ProgressFly, FinishedFly DEF WorkerReport
  <2>2. ASSUME NEW e \in Events, Enqueue(e) \/ EnqueueCut(e) PROVE FlyInv'
    BY <2>2, EnqueueFly DEF EnqueueCut, ProcessEnds, FlyInv, LoggedIn
  <2> QED BY <2>1, <2>2, WatchdogFly, SessionFly DEF Next
<1>2. FlyInv => InflightIsWorked
  BY DEF FlyInv, InflightIsWorked, Carried, Current, Held
<1> QED BY <1>1, <1>2, InitFly, IInvHolds, PTL DEF Spec

-----------------------------------------------------------------------------
(***************************************************************************)
(* The engine's other hosts: the direct message service and the handles    *)
(* given to other languages.  HostInv is the inductive invariant.          *)
(***************************************************************************)

(* The queue of the handle.                                                  *)

Told == {"decrypted", "publish", "announce", "subscribe", "unsubscribe"}
Items == [kind : Told, what : SUBSET (Incoming \cup Own \cup Peers)]

\* What a queue tells of, and where it changes the subscription.
Lined(q, kind) == {x \in Incoming \cup Own : \E i \in DOMAIN q : q[i] = Item(kind, x)}
Turns(q) == {i \in DOMAIN q : q[i].kind \in {"subscribe", "unsubscribe"}}

LEMMA QueuedIsLined == \A kind : QueuedAs(kind) = Lined(queue, kind)
BY DEF QueuedAs, Lined

LEMMA ItemTypes ==
    /\ \A x \in Incoming \cup Own : Item("decrypted", x) \in Items /\ Item("publish", x) \in Items
    /\ \A S \in SUBSET Peers : Subscribe(S) \in Items
    /\ Unsubscribe \in Items /\ Announcement \in Items
BY DEF Item, Items, Told, Subscribe, Unsubscribe, Announcement

\* A set of items in a row has each of them.
LEMMA InARow ==
    ASSUME NEW S, IsFiniteSet(S), S \subseteq Items
    PROVE  /\ SetToSeq(S) \in Seq(Items)
           /\ \A x : x \in S <=> \E i \in DOMAIN SetToSeq(S) : SetToSeq(S)[i] = x
<1> DEFINE n == Cardinality(S)
<1>1. n \in Nat /\ ExistsBijection(1 .. n, S)
  <2>1. PICK k \in Nat : ExistsBijection(1 .. k, S)
    BY FS_NatBijection
  <2>2. Cardinality(S) = k
    BY <2>1, FS_CountingElements
  <2>q. QED BY <2>1, <2>2
<1>2. PICK f \in [1 .. n -> S] : IsInjective(f) /\ \A x \in S : \E i \in 1 .. n : f[i] = x
  BY <1>1 DEF ExistsBijection, Bijection, Injection, Surjection, IsInjective
<1>3. SetToSeq(S) \in [1 .. n -> S] /\ IsInjective(SetToSeq(S))
  BY <1>2 DEF SetToSeq
<1> DEFINE g == SetToSeq(S)
<1>4. ASSUME NEW x \in S PROVE \E i \in 1 .. n : g[i] = x
  <2>1. IsFiniteSet(1 .. n) /\ Cardinality(1 .. n) = n
    BY <1>1, FS_Interval
  <2>2. IsFiniteSet(S \ {x}) /\ Cardinality(S \ {x}) = n - 1
    BY FS_RemoveElement
  <2>3. SUFFICES ASSUME \A i \in 1 .. n : g[i] # x PROVE FALSE
    OBVIOUS
  <2>4. g \in [1 .. n -> S \ {x}]
    BY <1>3, <2>3
  <2>5. Cardinality(S \ {x}) < Cardinality(1 .. n)
    BY <1>1, <2>1, <2>2
  <2>6. PICK i, j \in 1 .. n : i # j /\ g[i] = g[j]
    <3> HIDE DEF g
    <3>q. QED BY <2>1, <2>2, <2>4, <2>5, FS_PigeonHole
  <2>q. QED
    BY <1>3, <2>6 DEF IsInjective
<1>5. g \in Seq(Items)
  BY <1>1, <1>3
<1>6. DOMAIN g = 1 .. n
  BY <1>3
<1> HIDE DEF g, n
<1>q. QED
  <2>1. g \in [1 .. n -> S]
    BY <1>3 DEF g
  <2>2. \A x : x \in S <=> \E i \in DOMAIN g : g[i] = x
    BY <2>1, <1>4, <1>6
  <2>q. QED BY <2>2, <1>5 DEF g

LEMMA LinedConcat ==
    ASSUME NEW q \in Seq(Items), NEW s \in Seq(Items), NEW kind
    PROVE  Lined(q \o s, kind) = Lined(q, kind) \cup Lined(s, kind)
<1>1. \A i \in DOMAIN q : i \in DOMAIN (q \o s) /\ (q \o s)[i] = q[i]
  OBVIOUS
<1>2. \A i \in DOMAIN s : Len(q) + i \in DOMAIN (q \o s) /\ (q \o s)[Len(q) + i] = s[i]
  OBVIOUS
<1>3. \A i \in DOMAIN (q \o s) : \/ i \in DOMAIN q
                               \/ (i - Len(q) \in DOMAIN s /\ i = Len(q) + (i - Len(q)))
  OBVIOUS
<1> DEFINE qs == q \o s
<1>4. ASSUME NEW x \in Incoming \cup Own, NEW i \in DOMAIN qs, qs[i] = Item(kind, x)
      PROVE  x \in Lined(q, kind) \cup Lined(s, kind)
  BY <1>1, <1>2, <1>3, <1>4 DEF Lined
<1>5. ASSUME NEW x \in Lined(q, kind) \cup Lined(s, kind)
      PROVE  x \in Lined(qs, kind)
  BY <1>1, <1>2 DEF Lined
<1>q. QED
  BY <1>4, <1>5 DEF Lined

\* The last of finitely many positions.
LEMMA LastPosition ==
    ASSUME NEW q \in Seq(Items), NEW P \in SUBSET DOMAIN q, P # {}
    PROVE  \E i \in P : \A j \in P : j <= i
<1> DEFINE T == {Len(q) - i : i \in P}
           R == {ss \in Nat \X Nat : ss[1] < ss[2]}
<1>1. T \subseteq Nat /\ T # {}
  OBVIOUS
<1>2. R = OpToRel(<, Nat)
  BY DEF OpToRel
<1>3. IsWellFoundedOn(R, Nat)
  BY <1>2, NatLessThanWellFounded
<1>4. \A x, y \in Nat : y < x => <<y, x>> \in R
  OBVIOUS
<1> HIDE DEF R, T
<1>5. PICK k \in T : \A y \in T : <<y, k>> \notin R
  BY <1>1, <1>3, WFMin
<1>6. ASSUME NEW y \in T PROVE k <= y
  <2>1. k \in Nat /\ y \in Nat /\ <<y, k>> \notin R
    BY <1>1, <1>5
  <2>2. ~(y < k)
    BY <1>4, <2>1
  <2>q. QED BY <2>1, <2>2
<1>7. PICK i \in P : k = Len(q) - i
  BY DEF T
<1>8. ASSUME NEW j \in P PROVE j <= i
  <2>1. Len(q) - j \in T /\ Len(q) \in Nat /\ i \in Nat /\ j \in Nat
    BY DEF T
  <2>q. QED BY <1>6, <1>7, <2>1
<1>q. QED
  BY <1>8

\* Items that do not change the subscription change nothing of what it comes to.
LEMMA FollowsOn ==
    ASSUME NEW q \in Seq(Items), NEW s \in Seq(Items), NEW a, Turns(s) = {}
    PROVE  Follows(a, q \o s) = Follows(a, q)
<1> DEFINE qs == q \o s
<1>1. \A i \in DOMAIN q : i \in DOMAIN qs /\ qs[i] = q[i]
  OBVIOUS
<1>2. \A i \in DOMAIN qs : \/ i \in DOMAIN q
                           \/ (i - Len(q) \in DOMAIN s /\ qs[i] = s[i - Len(q)])
  OBVIOUS
<1> HIDE DEF qs
<1>3. Turns(qs) = Turns(q)
  BY <1>1, <1>2 DEF Turns
<1>4. CASE Turns(q) = {}
  BY <1>3, <1>4 DEF Follows, Turns, qs
<1>5. CASE Turns(q) # {}
  <2> DEFINE i == CHOOSE i \in Turns(q) : \A j \in Turns(q) : j <= i
  <2>1. i \in Turns(q)
    BY <1>5, LastPosition DEF Turns
  <2>2. Follows(a, qs) = qs[i].what /\ Follows(a, q) = q[i].what
    BY <1>3, <1>5 DEF Follows, Turns
  <2> HIDE DEF i
  <2>3. qs[i] = q[i]
    BY <2>1, <1>1 DEF Turns
  <2>q. QED BY <2>2, <2>3 DEF qs
<1>q. QED BY <1>4, <1>5

LEMMA FollowsLast ==
    ASSUME NEW q \in Seq(Items), NEW x \in Items, NEW a, x.kind \in {"subscribe", "unsubscribe"}
    PROVE  Follows(a, q \o <<x>>) = x.what
<1> DEFINE qs == q \o <<x>>
           n == Len(q) + 1
<1>1. n \in DOMAIN qs /\ qs[n] = x /\ \A i \in DOMAIN qs : i <= n
  OBVIOUS
<1> DEFINE i == CHOOSE i \in Turns(qs) : \A j \in Turns(qs) : j <= i
<1>2. n \in Turns(qs) /\ Turns(qs) \subseteq Nat /\ \A j \in Turns(qs) : j <= n
  BY <1>1 DEF Turns
<1> HIDE DEF qs
<1>3. i \in Turns(qs) /\ \A j \in Turns(qs) : j <= i
  BY <1>2
<1>4. n \in Nat /\ i = n
  <2>1. i \in Nat /\ n <= i /\ i <= n
    BY <1>2, <1>3
  <2>q. QED BY <2>1
<1>5. Follows(a, qs) = qs[i].what
  BY <1>2 DEF Follows, Turns
<1>q. QED BY <1>1, <1>4, <1>5 DEF qs

LEMMA ItemsFinite ==
    ASSUME NEW S, IsFiniteSet(S), NEW kind
    PROVE  IsFiniteSet({Item(kind, x) : x \in S})
<1> DEFINE f == [x \in S |-> Item(kind, x)]
           T == {Item(kind, x) : x \in S}
<1>1. f \in Surjection(S, T)
  BY DEF Surjection
<1>q. QED BY <1>1, FS_Surjection

\* What is told is one longer queue.
LEMMA EnqueuedEffect ==
    ASSUME NEW q \in Seq(Items), Lined(q, "decrypted") = QueuedAs("decrypted"),
           NEW M \in SUBSET Incoming, NEW T \in SUBSET Own, NEW a
    PROVE  LET s == Enqueued(q, M, T)
           IN  /\ s \in Seq(Items) /\ Follows(a, s) = Follows(a, q)
               /\ Lined(s, "decrypted") = Lined(q, "decrypted") \cup M
               /\ Lined(s, "publish") = Lined(q, "publish") \cup T
<1> DEFINE D == {Item("decrypted", m) : m \in M \ QueuedAs("decrypted")}
           P == {Item("publish", t) : t \in T}
           d == SetToSeq(D)
           p == SetToSeq(P)
<1>1. IsFiniteSet(D) /\ D \subseteq Items
  <2>1. IsFiniteSet(M \ QueuedAs("decrypted"))
    BY HostAssumption, FS_Subset DEF HostAssumption
  <2>q. QED BY <2>1, ItemsFinite, ItemTypes
<1>2. IsFiniteSet(P) /\ P \subseteq Items
  <2>1. IsFiniteSet(T)
    BY HostAssumption, FS_Subset DEF HostAssumption
  <2>q. QED BY <2>1, ItemsFinite, ItemTypes
<1>3. d \in Seq(Items) /\ \A x : x \in D <=> \E i \in DOMAIN d : d[i] = x
  BY <1>1, InARow
<1>4. p \in Seq(Items) /\ \A x : x \in P <=> \E i \in DOMAIN p : p[i] = x
  BY <1>2, InARow
<1>5. Enqueued(q, M, T) = (q \o d) \o p
  BY DEF Enqueued
<1>6. /\ \A m : Item("decrypted", m) \in D <=> m \in M \ QueuedAs("decrypted")
      /\ \A m : Item("publish", m) \in P <=> m \in T
      /\ \A m : Item("publish", m) \notin D /\ Item("decrypted", m) \notin P
  BY DEF Item
<1>7. /\ \A x \in D : x.kind = "decrypted"
      /\ \A x \in P : x.kind = "publish"
  BY DEF Item
<1> HIDE DEF D, P, d, p
<1>8. /\ Lined(d, "decrypted") = M \ QueuedAs("decrypted") /\ Lined(d, "publish") = {}
      /\ Lined(p, "decrypted") = {} /\ Lined(p, "publish") = T
  BY <1>3, <1>4, <1>6 DEF Lined
<1>9. Turns(d) = {} /\ Turns(p) = {}
  BY <1>3, <1>4, <1>7 DEF Turns
<1> DEFINE qd == q \o d
<1>10. qd \in Seq(Items)
  BY <1>3
<1>11. /\ Lined(qd, "decrypted") = Lined(q, "decrypted") \cup M
       /\ Lined(qd, "publish") = Lined(q, "publish")
       /\ Follows(a, qd) = Follows(a, q)
  <2>1. Lined(qd, "decrypted") = Lined(q, "decrypted") \cup Lined(d, "decrypted")
    BY <1>3, LinedConcat
  <2>2. Lined(qd, "publish") = Lined(q, "publish") \cup Lined(d, "publish")
    BY <1>3, LinedConcat
  <2>3. Follows(a, qd) = Follows(a, q)
    BY <1>3, <1>9, FollowsOn
  <2> HIDE DEF qd
  <2>q. QED BY <1>8, <2>1, <2>2, <2>3
<1> HIDE DEF qd
<1>12. /\ Lined(qd \o p, "decrypted") = Lined(qd, "decrypted")
       /\ Lined(qd \o p, "publish") = Lined(qd, "publish") \cup T
       /\ Follows(a, qd \o p) = Follows(a, qd) /\ qd \o p \in Seq(Items)
  <2>1. Lined(qd \o p, "decrypted") = Lined(qd, "decrypted") \cup Lined(p, "decrypted")
    BY <1>4, <1>10, LinedConcat
  <2>2. Lined(qd \o p, "publish") = Lined(qd, "publish") \cup Lined(p, "publish")
    BY <1>4, <1>10, LinedConcat
  <2>3. Follows(a, qd \o p) = Follows(a, qd) /\ qd \o p \in Seq(Items)
    BY <1>4, <1>9, <1>10, FollowsOn
  <2>q. QED BY <1>8, <2>1, <2>2, <2>3
<1>q. QED
  BY <1>5, <1>11, <1>12 DEF qd

\* An item more that is neither of these.
LEMMA AppendedEffect ==
    ASSUME NEW q \in Seq(Items), NEW x \in Items, x.kind \notin {"decrypted", "publish"}
    PROVE  /\ q \o <<x>> \in Seq(Items)
           /\ Lined(q \o <<x>>, "decrypted") = Lined(q, "decrypted")
           /\ Lined(q \o <<x>>, "publish") = Lined(q, "publish")
<1>1. <<x>> \in Seq(Items) /\ DOMAIN <<x>> = {1} /\ <<x>>[1] = x
  OBVIOUS
<1> DEFINE s == <<x>>
<1> HIDE DEF s
<1>2. Lined(s, "decrypted") = {} /\ Lined(s, "publish") = {}
  BY <1>1 DEF Lined, Item, s
<1>3. s \in Seq(Items)
  BY <1>1 DEF s
<1>4. /\ Lined(q \o s, "decrypted") = Lined(q, "decrypted")
      /\ Lined(q \o s, "publish") = Lined(q, "publish") /\ q \o s \in Seq(Items)
  <2>1. Lined(q \o s, "decrypted") = Lined(q, "decrypted") \cup Lined(s, "decrypted")
    BY <1>3, LinedConcat
  <2>2. Lined(q \o s, "publish") = Lined(q, "publish") \cup Lined(s, "publish")
    BY <1>3, LinedConcat
  <2>3. q \o s \in Seq(Items)
    BY <1>3
  <2>q. QED BY <1>2, <2>1, <2>2, <2>3
<1>q. QED BY <1>4 DEF s

LEMMA AnnouncedEffect ==
    ASSUME NEW q \in Seq(Items), NEW a
    PROVE  LET s == Append(q, Announcement)
           IN  /\ s \in Seq(Items) /\ Follows(a, s) = Follows(a, q)
               /\ Lined(s, "decrypted") = Lined(q, "decrypted")
               /\ Lined(s, "publish") = Lined(q, "publish")
<1>1. Append(q, Announcement) = q \o <<Announcement>>
  BY ItemTypes
<1>2. Announcement.kind = "announce"
  BY DEF Announcement
<1>3. Turns(<<Announcement>>) = {}
  BY <1>2 DEF Turns
<1>4. <<Announcement>> \in Seq(Items)
  BY ItemTypes
<1>5. LET s == q \o <<Announcement>>
      IN  /\ s \in Seq(Items) /\ Lined(s, "decrypted") = Lined(q, "decrypted")
          /\ Lined(s, "publish") = Lined(q, "publish")
  BY <1>2, ItemTypes, AppendedEffect
<1>6. Follows(a, q \o <<Announcement>>) = Follows(a, q)
  BY <1>3, <1>4, FollowsOn
<1>q. QED
  BY <1>1, <1>5, <1>6

\* After the subscription is brought up to date it is the one the engine asks for.
LEMMA SyncedEffect ==
    ASSUME NEW q \in Seq(Items), NEW e, e.known \in SUBSET Peers
    PROVE  LET s == Synced(q, e)
           IN  /\ s \in Seq(Items)
               /\ \A a : Follows(a, q) = asked => Follows(a, s) = e.known
               /\ Lined(s, "decrypted") = Lined(q, "decrypted")
               /\ Lined(s, "publish") = Lined(q, "publish")
<1>0. CASE e.known = asked
  BY <1>0 DEF Synced
<1>1. CASE e.known # asked
  <2> DEFINE b == IF asked = {} THEN q ELSE q \o <<Unsubscribe>>
             c == IF e.known = {} THEN b ELSE b \o <<Subscribe(e.known)>>
  <2>0. /\ Unsubscribe \in Items /\ Unsubscribe.kind = "unsubscribe" /\ Unsubscribe.what = {}
        /\ Subscribe(e.known) \in Items
        /\ Subscribe(e.known).kind = "subscribe" /\ Subscribe(e.known).what = e.known
    BY ItemTypes DEF Unsubscribe, Subscribe
  <2>1. /\ b \in Seq(Items)
        /\ \A a : Follows(a, q) = asked => Follows(a, b) = {}
        /\ Lined(b, "decrypted") = Lined(q, "decrypted")
        /\ Lined(b, "publish") = Lined(q, "publish")
    <3>1. CASE asked = {}
      BY <3>1
    <3>2. CASE asked # {}
      BY <3>2, <2>0, AppendedEffect, FollowsLast
    <3>q. QED BY <3>1, <3>2
  <2> HIDE DEF b
  <2>2. /\ c \in Seq(Items)
        /\ \A a : Follows(a, b) = {} => Follows(a, c) = e.known
        /\ Lined(c, "decrypted") = Lined(b, "decrypted")
        /\ Lined(c, "publish") = Lined(b, "publish")
    <3>1. CASE e.known = {}
      BY <3>1, <2>1
    <3>2. CASE e.known # {}
      BY <3>2, <2>0, <2>1, AppendedEffect, FollowsLast
    <3>q. QED BY <3>1, <3>2
  <2>3. Synced(q, e) = c
    <3>1. Synced(q, e) = q \o (IF asked = {} THEN <<>> ELSE <<Unsubscribe>>)
                           \o (IF e.known = {} THEN <<>> ELSE <<Subscribe(e.known)>>)
      BY <1>1 DEF Synced
    <3>2. q \o (IF asked = {} THEN <<>> ELSE <<Unsubscribe>>) = b
      BY DEF b
    <3>3. b \o <<>> = b
      BY <2>1
    <3>q. QED BY <3>1, <3>2, <3>3
  <2>q. QED BY <2>1, <2>2, <2>3
<1>q. QED BY <1>0, <1>1

-----------------------------------------------------------------------------
(* The engine.                                                               *)

Engines == [known : SUBSET Peers, waiting : SUBSET Incoming, recorded : SUBSET Incoming,
            opened : SUBSET Incoming, outbox : SUBSET Own, texts : SUBSET Own]

\* What a retry that finds e leaves: M is what it opened.
Retried(e, r, M) ==
    LET f == r.engine
        d == r.disk
    IN  /\ M \subseteq e.waiting /\ M \cap e.opened = {}
        /\ f \in Engines /\ d \in Engines
        /\ f.known = e.known /\ d.known = e.known /\ f.texts = e.texts /\ d.texts = e.texts
        /\ f.opened = e.opened \cup M /\ d.opened = e.opened \cup M
        /\ f.recorded = e.recorded /\ d.recorded = e.recorded
        /\ f.outbox = e.outbox \ Sendable(e) /\ d.outbox = e.outbox \ Sendable(e)
        /\ Sendable(e) \subseteq Own
        /\ r.fails \in BOOLEAN
        /\ ~r.fails => /\ f.waiting = e.waiting \ M
                       /\ r.got = e.recorded \cup M /\ r.sent = Sendable(e)
        /\ r.fails => r.cut = e.waiting \cup Sendable(e)

LEMMA WorkedTypes ==
    ASSUME NEW e \in Engines, NEW M \in SUBSET e.waiting
    PROVE  LET f == Worked(e, M)
           IN  /\ f \in Engines /\ f.known = e.known /\ f.texts = e.texts
               /\ f.recorded = e.recorded /\ f.opened = e.opened \cup M
               /\ f.outbox = e.outbox \ Sendable(e) /\ f.waiting = e.waiting \ M
BY DEF Engines, Worked

LEMMA NoQueueTypes ==
    ASSUME NEW e \in Engines
    PROVE  LET f == NoQueue(e)
           IN  /\ f \in Engines /\ f.known = e.known /\ f.texts = e.texts
               /\ f.recorded = e.recorded /\ f.opened = e.opened
               /\ f.outbox = e.outbox /\ f.waiting = {}
BY DEF Engines, NoQueue

LEMMA RetryEffects ==
    ASSUME NEW e \in Engines, NEW woken, NEW r \in RetryResults(e, woken)
    PROVE  \E M \in SUBSET Incoming : Retried(e, r, M)
<1>0. Sendable(e) \subseteq Own /\ e.waiting \subseteq Incoming
  BY DEF Sendable, Engines
<1>1. ASSUME NEW due \in SUBSET e.waiting, r = RetryWorks(e, due)
      PROVE  \E M \in SUBSET Incoming : Retried(e, r, M)
  <2> DEFINE M == {m \in due : OpensNow(e, m)}
             next == Worked(e, M)
  <2>1. M \in SUBSET e.waiting /\ M \cap e.opened = {}
    BY <1>1 DEF OpensNow
  <2>2. /\ r.engine = next /\ r.disk = IF M = {} THEN next ELSE NoQueue(next)
        /\ r.got = e.recorded \cup M /\ r.sent = Sendable(e) /\ r.fails = FALSE
    BY <1>1 DEF RetryWorks
  <2> HIDE DEF M
  <2>3. /\ next \in Engines /\ next.known = e.known /\ next.texts = e.texts
        /\ next.recorded = e.recorded /\ next.opened = e.opened \cup M
        /\ next.outbox = e.outbox \ Sendable(e) /\ next.waiting = e.waiting \ M
    BY <2>1, WorkedTypes
  <2> HIDE DEF next
  <2>31. /\ NoQueue(next) \in Engines /\ NoQueue(next).known = e.known
         /\ NoQueue(next).texts = e.texts /\ NoQueue(next).recorded = e.recorded
         /\ NoQueue(next).opened = e.opened \cup M
         /\ NoQueue(next).outbox = e.outbox \ Sendable(e) /\ NoQueue(next).waiting = {}
    BY <2>3, NoQueueTypes
  <2>32. r.disk = next \/ r.disk = NoQueue(next)
    BY <2>2
  <2>33. /\ r.disk \in Engines /\ r.disk.known = e.known /\ r.disk.texts = e.texts
         /\ r.disk.recorded = e.recorded /\ r.disk.opened = e.opened \cup M
         /\ r.disk.outbox = e.outbox \ Sendable(e)
         /\ r.disk.waiting \subseteq e.waiting \ M
    BY <2>3, <2>31, <2>32
  <2>4. Retried(e, r, M)
    BY <1>0, <2>1, <2>2, <2>3, <2>33 DEF Retried
  <2>q. QED BY <2>4, <2>1, <1>0
<1>2. ASSUME NEW M \in SUBSET {m \in e.waiting : OpensNow(e, m)}, r = RetryFails(e, M)
      PROVE  \E N \in SUBSET Incoming : Retried(e, r, N)
  <2> DEFINE next == Worked(e, M)
  <2>1. M \in SUBSET e.waiting /\ M \cap e.opened = {}
    BY <1>2 DEF OpensNow
  <2>2. /\ r.engine = NoQueue(next) /\ r.disk = IF M = {} THEN next ELSE NoQueue(next)
        /\ r.cut = e.waiting \cup Sendable(e) /\ r.fails = TRUE
    BY <1>2 DEF RetryFails
  <2>3. /\ next \in Engines /\ next.known = e.known /\ next.texts = e.texts
        /\ next.recorded = e.recorded /\ next.opened = e.opened \cup M
        /\ next.outbox = e.outbox \ Sendable(e) /\ next.waiting = e.waiting \ M
    BY <2>1, WorkedTypes
  <2> DEFINE bare == NoQueue(next)
  <2>4. /\ bare \in Engines /\ bare.known = e.known /\ bare.texts = e.texts
        /\ bare.recorded = e.recorded /\ bare.opened = e.opened \cup M
        /\ bare.outbox = e.outbox \ Sendable(e) /\ bare.waiting = {}
    BY <2>3, NoQueueTypes
  <2>5. r.engine = bare /\ r.disk = IF M = {} THEN next ELSE bare
    BY <2>2
  <2> HIDE DEF next, bare
  <2>6. Retried(e, r, M)
    BY <1>0, <2>1, <2>2, <2>3, <2>4, <2>5 DEF Retried
  <2>q. QED BY <2>6, <2>1, <1>0
<1>q. QED
  BY <1>1, <1>2 DEF RetryResults

\* A start changes what waits, and nothing else.
LEMMA StartedTypes ==
    ASSUME NEW e \in Engines
    PROVE  LET f == Started(e)
           IN  /\ f \in Engines /\ f.known = e.known /\ f.opened = e.opened
               /\ f.recorded = e.recorded /\ f.outbox = e.outbox /\ f.texts = e.texts
BY DEF Started, Engines

LEMMA HearingTypes ==
    ASSUME NEW e \in Engines, NEW p \in Peers
    PROVE  LET f == Hearing(e, p)
           IN  /\ f \in Engines /\ f.texts = e.texts
               /\ f.recorded = e.recorded /\ f.opened = e.opened
               /\ f.outbox = e.outbox /\ f.waiting = e.waiting
BY DEF Engines, Hearing

\* A message that comes is opened and recorded, or waits.
LEMMA ReceivedTypes ==
    ASSUME NEW e \in Engines, NEW m \in Incoming
    PROVE  LET f == Received(e, m)
               it == {m} \cap (f.opened \ e.opened)
           IN  /\ f \in Engines /\ f.texts = e.texts /\ f.known = e.known /\ f.outbox = e.outbox
               /\ f.opened = e.opened \cup it /\ f.recorded = e.recorded \cup it
               /\ it = {} => m \in f.waiting
               /\ e.waiting \subseteq f.waiting
<1>1. CASE OpensNow(e, m)
  <2>1. Received(e, m) = Opening(e, m) /\ m \notin e.opened
    BY <1>1 DEF Received, OpensNow
  <2>2. LET f == Opening(e, m)
        IN  /\ f \in Engines /\ f.texts = e.texts /\ f.known = e.known /\ f.outbox = e.outbox
            /\ f.opened = e.opened \cup {m} /\ f.recorded = e.recorded \cup {m}
            /\ f.waiting = e.waiting
    BY DEF Engines, Opening
  <2>q. QED BY <2>1, <2>2
<1>2. CASE ~OpensNow(e, m)
  <2>1. Received(e, m) = Keeping(e, m)
    BY <1>2 DEF Received
  <2>2. LET f == Keeping(e, m)
        IN  /\ f \in Engines /\ f.texts = e.texts /\ f.known = e.known /\ f.outbox = e.outbox
            /\ f.opened = e.opened /\ f.recorded = e.recorded
            /\ f.waiting = e.waiting \cup {m}
    BY DEF Engines, Keeping
  <2>q. QED BY <2>1, <2>2
<1>q. QED BY <1>1, <1>2

LEMMA SendingTypes ==
    ASSUME NEW e \in Engines, NEW t \in Own
    PROVE  LET f == Sending(e, t)
           IN  /\ f \in Engines /\ f.known = e.known /\ f.recorded = e.recorded
               /\ f.opened = e.opened /\ f.waiting = e.waiting
               /\ f.texts = e.texts \cup {t}
               /\ e.outbox \subseteq f.outbox /\ f.outbox \subseteq e.outbox \cup {t}
BY DEF Engines, Sending

-----------------------------------------------------------------------------
(* The inductive invariant.                                                  *)

HostTypes ==
    /\ host \in {"service", "own", "linked"} /\ loaded \in BOOLEAN
    /\ engine \in Engines /\ disk \in Engines
    /\ rows \in [Incoming \cup Own -> {"none", "received", "pending", "sent"}]
    /\ \A m \in Incoming : rows[m] \in {"none", "received"}
    /\ queue \in Seq(Items)
    /\ handed \in [Incoming -> Nat] /\ given \subseteq Incoming \cup Own /\ lost \subseteq Incoming \cup Own
    /\ behind \in {"no", "call", "drain"}

\* The engine in memory and the stored one differ in what waits, which a retry has in its
\* hands, and in what has been acknowledged only in memory.
Alike(e, d) ==
    /\ d.known = e.known /\ d.opened = e.opened /\ d.outbox = e.outbox /\ d.texts = e.texts
    /\ e.recorded \subseteq d.recorded /\ d.recorded \subseteq d.opened

ServicePart ==
    host = "service" =>
        /\ queue = <<>> /\ engine.recorded = disk.recorded
        /\ \A m \in Incoming : handed[m] = 0

\* What a handle has told is not recorded any more and not in its queue; and when a message
\* is in the queue, so is every recorded one, so that acknowledging all of them is right.
ToldPart ==
    /\ \A m \in Incoming : handed[m] > 0 => m \in engine.opened /\ m \notin disk.recorded
    /\ \A m \in QueuedAs("decrypted") : m \in engine.opened /\ handed[m] = 0
    /\ QueuedAs("decrypted") # {} =>
           /\ loaded /\ engine.recorded = disk.recorded
           /\ engine.recorded \ lost \subseteq QueuedAs("decrypted")

\* A queue ends with the subscription that was last asked for, unless a failing drain has
\* made away with it.
AskedPart ==
    /\ behind # "drain" => Follows(live, queue) = asked
    /\ behind = "no" /\ loaded => asked = engine.known

HandlePart ==
    host # "service" =>
        /\ seen = {} /\ \A m \in Incoming \cup Own : rows[m] = "none"
        /\ ToldPart /\ AskedPart

HostInv ==
    /\ HostTypes /\ Alike(engine, disk) /\ (~loaded => engine = disk)
    /\ OpenedIsKept /\ ToldOnce /\ SeenIsKnown /\ RowsAreTrue
    /\ ServicePart /\ HandlePart

Texts(e, g, P, l) == \A t \in e.texts \ l : t \in e.outbox \cup g \cup P

LEMMA HostStarts == HostInit => HostInv
<1> SUFFICES ASSUME HostInit PROVE HostInv
  OBVIOUS
<1>1. NewEngine \in Engines /\ NewEngine.recorded = {} /\ NewEngine.opened = {}
      /\ NewEngine.texts = {} /\ NewEngine.known = {}
  BY DEF NewEngine, Engines
<1> DEFINE e == NewEngine
<1> HIDE DEF e
<1>2. engine = e /\ disk = e
  BY DEF HostInit, e
<1>3. /\ queue = <<>> /\ live = {} /\ asked = {} /\ seen = {} /\ loaded = FALSE /\ behind = "no"
      /\ rows = [m \in Incoming \cup Own |-> "none"] /\ handed = [m \in Incoming |-> 0]
      /\ given = {} /\ lost = {} /\ host \in {"service", "own", "linked"}
  BY DEF HostInit
<1>4. /\ \A kind : Lined(queue, kind) = {} /\ Follows(live, queue) = asked
      /\ queue \in Seq(Items)
  BY <1>3 DEF Lined, Follows
<1>5. \A kind : QueuedAs(kind) = {}
  BY <1>4, QueuedIsLined
<1>6. HostTypes
  BY <1>1, <1>2, <1>3, <1>4 DEF HostTypes, e
<1>7. Alike(engine, disk) /\ engine = disk
  BY <1>1, <1>2 DEF Alike, e
<1>8. OpenedIsKept /\ ToldOnce /\ SeenIsKnown /\ RowsAreTrue
  BY <1>1, <1>2, <1>3 DEF OpenedIsKept, ToldOnce, SeenIsKnown, RowsAreTrue, e
<1>9. ServicePart /\ HandlePart
  BY <1>1, <1>2, <1>3, <1>4, <1>5 DEF ServicePart, HandlePart, ToldPart, AskedPart
<1>q. QED
  BY <1>6, <1>7, <1>8, <1>9 DEF HostInv

-----------------------------------------------------------------------------
(* The handle.                                                               *)

\* What a queue q may be when the engine is f: D and P are what it tells.
Fits(f, D, P, l) ==
    /\ \A m \in f.opened \ l : m \in f.recorded \cup D \/ handed[m] > 0
    /\ D \subseteq f.opened /\ \A m \in D : handed[m] = 0
    /\ D # {} => f.recorded \ l \subseteq D
    /\ \A m \in Incoming : handed[m] > 0 => m \in f.opened /\ m \notin f.recorded
    /\ Texts(f, given, P, l)

\* In a handle no row is written and no event marked.
LEMMA HandleFacts ==
    ASSUME HostInv, Handle
    PROVE  /\ host \in {"own", "linked"} /\ host' = host /\ rows' = rows /\ seen' = seen
           /\ seen = {} /\ \A m \in Incoming \cup Own : rows[m] = "none"
           /\ ToldPart /\ AskedPart
           /\ \A m \in Incoming : handed[m] <= 1
           /\ HostTypes /\ Alike(engine, disk)
           /\ Texts(engine, given, QueuedAs("publish"), lost)
           /\ \A m \in engine.opened \ lost :
                  m \in engine.recorded \cup QueuedAs("decrypted") \/ handed[m] > 0
<1>1. host \in {"own", "linked"} /\ host' = host /\ rows' = rows /\ seen' = seen
  BY DEF HostInv, HostTypes, Handle
<1>2. seen = {} /\ (\A m \in Incoming \cup Own : rows[m] = "none") /\ ToldPart /\ AskedPart
  BY <1>1 DEF HostInv, HandlePart
<1>3. \A m \in Incoming : handed[m] <= 1
  BY DEF HostInv, ToldOnce
<1>4. HostTypes /\ Alike(engine, disk) /\ OpenedIsKept /\ RowsAreTrue
  BY DEF HostInv
<1>5. Texts(engine, given, QueuedAs("publish"), lost)
  BY <1>4 DEF RowsAreTrue, Texts, HostTypes, Engines
<1>6. ASSUME NEW m \in engine.opened \ lost
      PROVE  m \in engine.recorded \cup QueuedAs("decrypted") \/ handed[m] > 0
  <2>1. m \in Incoming
    BY <1>4 DEF HostTypes, Engines
  <2>q. QED BY <1>2, <1>4, <2>1 DEF OpenedIsKept
<1>q. QED BY <1>1, <1>2, <1>3, <1>4, <1>5, <1>6

\* Whatever a call of a handle leaves, it keeps the invariant if the queue fits the engine.
LEMMA HandleKeeps ==
    ASSUME HostInv, Handle, UNCHANGED handed,
           NEW f \in Engines, NEW g \in Engines, Alike(f, g), f.recorded = g.recorded,
           engine' = f, disk' = g, loaded' \in BOOLEAN, loaded' \/ f = g,
           queue' \in Seq(Items), given' = given, lost' \subseteq Incoming \cup Own,
           behind' \in {"no", "call", "drain"},
           loaded' \/ QueuedAs("decrypted")' = {},
           Fits(f, QueuedAs("decrypted")', QueuedAs("publish")', lost'), AskedPart'
    PROVE  HostInv'
<1>1. /\ host \in {"own", "linked"} /\ host' = host /\ rows' = rows /\ seen' = seen
      /\ seen = {} /\ \A m \in Incoming \cup Own : rows[m] = "none"
      /\ \A m \in Incoming : handed[m] <= 1
      /\ HostTypes
  BY HandleFacts
<1>2. HostTypes'
  BY <1>1 DEF HostTypes
<1>3. Alike(engine', disk') /\ (~loaded' => engine' = disk')
  OBVIOUS
<1> DEFINE D == QueuedAs("decrypted")'
           P == QueuedAs("publish")'
           l == lost'
<1> HIDE DEF D, P, l
<1>4. Fits(f, D, P, l)
  BY DEF D, P, l
<1>5. OpenedIsKept'
  <2>1. \A m \in f.opened \ l : m \in f.recorded \/ m \in D \/ handed[m] > 0
    BY <1>4 DEF Fits
  <2>q. QED BY <2>1 DEF OpenedIsKept, D, l
<1>6. ToldOnce' /\ SeenIsKnown'
  BY <1>1 DEF ToldOnce, SeenIsKnown
<1>7. RowsAreTrue'
  <2>1. \A t \in Own \ l : t \in f.texts => t \in f.outbox \cup given \cup P
    BY <1>4 DEF Fits, Texts
  <2>2. \A t \in Own : rows'[t] = "none"
    BY <1>1
  <2>q. QED BY <2>1, <2>2 DEF RowsAreTrue, P, l
<1>8. ToldPart'
  <2>1. /\ \A m \in Incoming : handed[m] > 0 => m \in f.opened /\ m \notin g.recorded
        /\ \A m \in D : m \in f.opened /\ handed[m] = 0
        /\ D # {} => loaded' /\ f.recorded = g.recorded /\ f.recorded \ l \subseteq D
    BY <1>4 DEF Fits, D
  <2>q. QED BY <2>1 DEF ToldPart, D, l
<1>9. HandlePart'
  BY <1>1, <1>8 DEF HandlePart
<1>10. ServicePart'
  BY <1>1 DEF ServicePart
<1>q. QED
  BY <1>2, <1>3, <1>5, <1>6, <1>7, <1>9, <1>10 DEF HostInv

LEMMA LinedIsIn == \A q, kind : Lined(q, kind) \subseteq Incoming \cup Own
BY DEF Lined

LEMMA DoneKeeps ==
    ASSUME HostInv, Handle,
           NEW f \in Engines, NEW g \in Engines, Alike(f, g), f.recorded = g.recorded,
           disk' = g, loaded' = TRUE, NEW q \in Seq(Items),
           Follows(live, q) = Follows(live, queue), Done(f, q),
           Fits(f, Lined(q, "decrypted"), Lined(q, "publish"), lost)
    PROVE  HostInv'
<1>1. /\ engine' = f /\ queue' = Synced(q, f) /\ asked' = f.known /\ live' = live
      /\ behind' = (IF behind = "call" THEN "no" ELSE behind)
      /\ UNCHANGED <<handed, given, lost>>
  BY DEF Done
<1>2. f.known \in SUBSET Peers
  BY DEF Engines
<1>3. /\ queue' \in Seq(Items)
      /\ Follows(live, q) = asked => Follows(live, queue') = f.known
      /\ Lined(queue', "decrypted") = Lined(q, "decrypted")
      /\ Lined(queue', "publish") = Lined(q, "publish")
  BY <1>1, <1>2, SyncedEffect
<1>4. QueuedAs("decrypted")' = Lined(q, "decrypted") /\ QueuedAs("publish")' = Lined(q, "publish")
  BY <1>3 DEF QueuedAs, Lined
<1>5. HostTypes /\ AskedPart
  BY HandleFacts
<1>6. AskedPart'
  BY <1>1, <1>3, <1>5 DEF AskedPart, HostTypes
<1>7. behind' \in {"no", "call", "drain"} /\ lost' \subseteq Incoming \cup Own
  BY <1>1, <1>5 DEF HostTypes
<1>8. Fits(f, QueuedAs("decrypted")', QueuedAs("publish")', lost')
  BY <1>1, <1>4
<1>q. QED
  BY <1>1, <1>3, <1>6, <1>7, <1>8, HandleKeeps

LEMMA FailedKeeps ==
    ASSUME HostInv, Handle,
           NEW f \in Engines, NEW g \in Engines, Alike(f, g), f.recorded = g.recorded,
           disk' = g, loaded' \in BOOLEAN, loaded' \/ f = g,
           NEW q \in Seq(Items), Follows(live, q) = Follows(live, queue),
           loaded' \/ Lined(q, "decrypted") = {},
           NEW cut \in SUBSET (Incoming \cup Own), Failed(f, q, cut),
           Fits(f, Lined(q, "decrypted"), Lined(q, "publish"), lost \cup cut)
    PROVE  HostInv'
<1>1. /\ engine' = f /\ queue' = q /\ lost' = lost \cup cut
      /\ behind' = (IF behind = "no" THEN "call" ELSE behind)
      /\ UNCHANGED <<asked, live, handed, given>>
  BY DEF Failed
<1>2. QueuedAs("decrypted")' = Lined(q, "decrypted") /\ QueuedAs("publish")' = Lined(q, "publish")
  BY <1>1 DEF QueuedAs, Lined
<1>3. HostTypes /\ AskedPart
  BY HandleFacts
<1>4. AskedPart'
  BY <1>1, <1>3 DEF AskedPart, HostTypes
<1>5. behind' \in {"no", "call", "drain"} /\ lost' \subseteq Incoming \cup Own
  BY <1>1, <1>3 DEF HostTypes
<1>6. Fits(f, QueuedAs("decrypted")', QueuedAs("publish")', lost')
  BY <1>1, <1>2
<1>7. loaded' \/ QueuedAs("decrypted")' = {}
  BY <1>2
<1>q. QED
  BY <1>1, <1>4, <1>5, <1>6, <1>7, HandleKeeps

\* The engine a call hands to the retry; it is what the call has opened.
Prepared(e, it) ==
    /\ e \in Engines /\ e.texts = engine.texts /\ e.outbox = engine.outbox
    /\ it \in SUBSET Incoming /\ it \cap engine.opened = {}
    /\ e.opened = engine.opened \cup it /\ e.recorded = engine.recorded \cup it

\* A queue that tells what the present one does.
SameTale(q) ==
    /\ q \in Seq(Items) /\ Follows(live, q) = Follows(live, queue)
    /\ Lined(q, "decrypted") = QueuedAs("decrypted") /\ Lined(q, "publish") = QueuedAs("publish")

LEMMA TaleGoesOn ==
    ASSUME NEW q, SameTale(q), NEW M \in SUBSET Incoming, NEW T \in SUBSET Own
    PROVE  LET s == Enqueued(q, M, T)
           IN  /\ s \in Seq(Items) /\ Follows(live, s) = Follows(live, queue)
               /\ Lined(s, "decrypted") = QueuedAs("decrypted") \cup M
               /\ Lined(s, "publish") = QueuedAs("publish") \cup T
<1>1. /\ q \in Seq(Items) /\ Follows(live, q) = Follows(live, queue)
      /\ Lined(q, "decrypted") = QueuedAs("decrypted") /\ Lined(q, "publish") = QueuedAs("publish")
  BY DEF SameTale
<1>2. LET s == Enqueued(q, M, T)
      IN  /\ s \in Seq(Items) /\ Follows(live, s) = Follows(live, q)
          /\ Lined(s, "decrypted") = Lined(q, "decrypted") \cup M
          /\ Lined(s, "publish") = Lined(q, "publish") \cup T
  BY <1>1, EnqueuedEffect
<1> DEFINE s == Enqueued(q, M, T)
<1>3. /\ s \in Seq(Items) /\ Follows(live, s) = Follows(live, q)
      /\ Lined(s, "decrypted") = Lined(q, "decrypted") \cup M
      /\ Lined(s, "publish") = Lined(q, "publish") \cup T
  BY <1>2
<1> HIDE DEF s
<1>4. /\ s \in Seq(Items) /\ Follows(live, s) = Follows(live, queue)
      /\ Lined(s, "decrypted") = QueuedAs("decrypted") \cup M
      /\ Lined(s, "publish") = QueuedAs("publish") \cup T
  BY <1>1, <1>3, Zenon
<1> USE DEF s
<1>q. QED BY <1>4

LEMMA RetryWorksKeeps ==
    ASSUME HostInv, Handle, NEW e, NEW it, Prepared(e, it), NEW q, SameTale(q),
           NEW woken, NEW r \in RetryResults(e, woken), ~r.fails,
           disk' = r.disk, loaded' = TRUE, Done(r.engine, Enqueued(q, r.got \cup it, r.sent))
    PROVE  HostInv'
<1>1. PICK M \in SUBSET Incoming : Retried(e, r, M)
  BY RetryEffects DEF Prepared
<1> DEFINE f == r.engine
           g == r.disk
           got == r.got \cup it
           S == Sendable(e)
           D == QueuedAs("decrypted")
           P == QueuedAs("publish")
           s == Enqueued(q, got, r.sent)
<1>2. /\ f \in Engines /\ g \in Engines /\ f.known = g.known
      /\ f.texts = e.texts /\ g.texts = e.texts
      /\ f.opened = e.opened \cup M /\ g.opened = e.opened \cup M
      /\ f.recorded = e.recorded /\ g.recorded = e.recorded
      /\ f.outbox = e.outbox \ S /\ g.outbox = e.outbox \ S /\ S \subseteq Own
      /\ r.got = e.recorded \cup M /\ r.sent = S
      /\ M \cap e.opened = {}
  BY <1>1 DEF Retried
<1>3. /\ e.texts = engine.texts /\ e.outbox = engine.outbox
      /\ it \subseteq Incoming /\ it \cap engine.opened = {}
      /\ e.opened = engine.opened \cup it /\ e.recorded = engine.recorded \cup it
      /\ e.recorded \subseteq Incoming
  BY DEF Prepared, Engines
<1>4. /\ q \in Seq(Items) /\ Follows(live, q) = Follows(live, queue)
      /\ Lined(q, "decrypted") = D /\ Lined(q, "publish") = P
  BY DEF SameTale
<1>5. got \in SUBSET Incoming /\ got = e.recorded \cup M
  BY <1>2, <1>3
<1> HIDE DEF got, P, S
<1>6. /\ s \in Seq(Items) /\ Follows(live, s) = Follows(live, q)
      /\ Lined(s, "decrypted") = D \cup got /\ Lined(s, "publish") = P \cup S
  <2>1. r.sent \in SUBSET Own /\ r.sent = S /\ got \in SUBSET Incoming
    BY <1>2, <1>5
  <2>2. /\ s \in Seq(Items) /\ Follows(live, s) = Follows(live, queue)
        /\ Lined(s, "decrypted") = QueuedAs("decrypted") \cup got
        /\ Lined(s, "publish") = QueuedAs("publish") \cup r.sent
    <3>1. \A G \in SUBSET Incoming, T \in SUBSET Own :
             LET z == Enqueued(q, G, T)
             IN  /\ z \in Seq(Items) /\ Follows(live, z) = Follows(live, queue)
                 /\ Lined(z, "decrypted") = QueuedAs("decrypted") \cup G
                 /\ Lined(z, "publish") = QueuedAs("publish") \cup T
      BY TaleGoesOn
    <3>q. QED BY <2>1, <3>1
  <2> HIDE DEF s
  <2>q. QED BY <1>4, <2>1, <2>2 DEF P
<1> HIDE DEF D
<1>7. Done(f, s)
  BY DEF got
<1>8. /\ HostTypes /\ ToldPart /\ Alike(engine, disk)
      /\ Texts(engine, given, P, lost)
      /\ \A m \in engine.opened \ lost : m \in engine.recorded \cup D \/ handed[m] > 0
  BY HandleFacts DEF D, P
<1>9. /\ \A m \in Incoming : handed[m] > 0 => m \in engine.opened /\ m \notin engine.recorded
      /\ \A m \in D : m \in engine.opened /\ handed[m] = 0
      /\ engine.recorded \subseteq engine.opened
      /\ \A m \in Incoming : handed[m] \in Nat
  BY <1>8 DEF ToldPart, Alike, D, HostTypes
<1> HIDE DEF f, g, s, S
<1>10. Alike(f, g) /\ f.recorded = g.recorded
  BY <1>2, <1>3, <1>9 DEF Alike
<1>11. Fits(f, D \cup got, P \cup S, lost)
  <2>1. \A m \in f.opened \ lost : m \in f.recorded \cup (D \cup got) \/ handed[m] > 0
    BY <1>2, <1>3, <1>5, <1>8
  <2>2. D \cup got \subseteq f.opened
    BY <1>2, <1>3, <1>5, <1>9
  <2>3. \A m \in D \cup got : handed[m] = 0
    BY <1>2, <1>3, <1>5, <1>9
  <2>4. f.recorded \subseteq D \cup got
    BY <1>2, <1>5
  <2>5. \A m \in Incoming : handed[m] > 0 => m \in f.opened /\ m \notin f.recorded
    BY <1>2, <1>3, <1>9
  <2>6. Texts(f, given, P \cup S, lost)
    BY <1>2, <1>3, <1>8 DEF Texts
  <2>q. QED BY <2>1, <2>2, <2>3, <2>4, <2>5, <2>6 DEF Fits
<1>12. disk' = g
  BY DEF g
<1>13. Fits(f, Lined(s, "decrypted"), Lined(s, "publish"), lost)
  BY <1>6, <1>11
<1>q. QED
  BY <1>2, <1>4, <1>6, <1>7, <1>10, <1>12, <1>13, DoneKeeps

LEMMA RetryFailsKeeps ==
    ASSUME HostInv, Handle, NEW e, NEW it, Prepared(e, it), NEW q, SameTale(q),
           NEW woken, NEW r \in RetryResults(e, woken), r.fails, NEW f,
           \/ loaded' = TRUE /\ f = r.engine
           \/ loaded' = FALSE /\ ~loaded /\ f = r.disk,
           disk' = r.disk, Failed(f, q, r.cut \cup it)
    PROVE  HostInv'
<1>1. PICK M \in SUBSET Incoming : Retried(e, r, M)
  BY RetryEffects DEF Prepared
<1> DEFINE g == r.disk
           cut == r.cut \cup it
           S == Sendable(e)
           D == QueuedAs("decrypted")
           P == QueuedAs("publish")
<1>2. /\ f \in Engines /\ g \in Engines /\ f.known = g.known
      /\ f.texts = e.texts /\ g.texts = e.texts
      /\ f.opened = e.opened \cup M /\ g.opened = e.opened \cup M
      /\ f.recorded = e.recorded /\ g.recorded = e.recorded
      /\ f.outbox = e.outbox \ S /\ g.outbox = e.outbox \ S /\ S \subseteq Own
      /\ r.cut = e.waiting \cup S
      /\ M \cap e.opened = {} /\ M \subseteq e.waiting
  BY <1>1 DEF Retried
<1>3. /\ e.texts = engine.texts /\ e.outbox = engine.outbox
      /\ it \subseteq Incoming /\ it \cap engine.opened = {}
      /\ e.opened = engine.opened \cup it /\ e.recorded = engine.recorded \cup it
      /\ e.waiting \subseteq Incoming
  BY DEF Prepared, Engines
<1>4. /\ q \in Seq(Items) /\ Follows(live, q) = Follows(live, queue)
      /\ Lined(q, "decrypted") = D /\ Lined(q, "publish") = P
  BY DEF SameTale
<1>5. cut \in SUBSET (Incoming \cup Own) /\ M \cup S \cup it \subseteq cut
  BY <1>2, <1>3
<1> HIDE DEF D, P, S, cut
<1>6. Failed(f, q, cut) /\ (loaded' \/ f = g) /\ loaded' \in BOOLEAN /\ (loaded' \/ ~loaded)
  BY DEF cut
<1>8. /\ HostTypes /\ ToldPart /\ Alike(engine, disk)
      /\ Texts(engine, given, P, lost)
      /\ \A m \in engine.opened \ lost : m \in engine.recorded \cup D \/ handed[m] > 0
  BY HandleFacts DEF D, P
<1>9. /\ \A m \in Incoming : handed[m] > 0 => m \in engine.opened /\ m \notin engine.recorded
      /\ \A m \in D : m \in engine.opened /\ handed[m] = 0
      /\ D # {} => loaded /\ engine.recorded \ lost \subseteq D
      /\ engine.recorded \subseteq engine.opened
  BY <1>8 DEF ToldPart, Alike, D
<1>12. disk' = g
  OBVIOUS
<1> HIDE DEF g
<1>10. Alike(f, g) /\ f.recorded = g.recorded
  BY <1>2, <1>3, <1>9 DEF Alike
<1>11. Fits(f, D, P, lost \cup cut)
  <2>1. \A m \in f.opened \ (lost \cup cut) : m \in f.recorded \cup D \/ handed[m] > 0
    BY <1>2, <1>3, <1>5, <1>8
  <2>2. D \subseteq f.opened /\ \A m \in D : handed[m] = 0
    BY <1>2, <1>3, <1>9
  <2>4. D # {} => f.recorded \ (lost \cup cut) \subseteq D
    BY <1>2, <1>3, <1>5, <1>9
  <2>5. \A m \in Incoming : handed[m] > 0 => m \in f.opened /\ m \notin f.recorded
    BY <1>2, <1>3, <1>9
  <2>6. Texts(f, given, P, lost \cup cut)
    BY <1>2, <1>3, <1>5, <1>8 DEF Texts
  <2>q. QED BY <2>1, <2>2, <2>4, <2>5, <2>6 DEF Fits
<1>13. Fits(f, Lined(q, "decrypted"), Lined(q, "publish"), lost \cup cut)
  BY <1>4, <1>11
<1>14. loaded' \/ Lined(q, "decrypted") = {}
  BY <1>4, <1>6, <1>9
<1>q. QED
  BY <1>2, <1>4, <1>5, <1>6, <1>10, <1>12, <1>13, <1>14, FailedKeeps

LEMMA QueueIsSame == ASSUME HostTypes PROVE SameTale(queue)
BY DEF HostTypes, SameTale, QueuedAs, Lined

LEMMA AnnouncedIsSame == ASSUME HostTypes PROVE SameTale(Append(queue, Announcement))
<1>1. queue \in Seq(Items)
  BY DEF HostTypes
<1> DEFINE s == Append(queue, Announcement)
<1>2. /\ s \in Seq(Items) /\ Follows(live, s) = Follows(live, queue)
      /\ Lined(s, "decrypted") = Lined(queue, "decrypted")
      /\ Lined(s, "publish") = Lined(queue, "publish")
  BY <1>1, AnnouncedEffect
<1> HIDE DEF s
<1>3. SameTale(s)
  BY <1>2, QueuedIsLined DEF SameTale
<1>q. QED BY <1>3 DEF s

LEMMA FitsNow ==
    ASSUME HostInv, Handle
    PROVE  Fits(engine, QueuedAs("decrypted"), QueuedAs("publish"), lost)
<1>1. /\ HostTypes /\ ToldPart /\ Alike(engine, disk)
      /\ Texts(engine, given, QueuedAs("publish"), lost)
      /\ \A m \in engine.opened \ lost :
             m \in engine.recorded \cup QueuedAs("decrypted") \/ handed[m] > 0
  BY HandleFacts
<1> DEFINE D == QueuedAs("decrypted")
<1>2. /\ \A m \in Incoming : handed[m] > 0 => m \in engine.opened /\ m \notin engine.recorded
      /\ \A m \in D : m \in engine.opened /\ handed[m] = 0
      /\ D # {} => engine.recorded \ lost \subseteq D
  BY <1>1 DEF ToldPart, Alike
<1> HIDE DEF D
<1>q. QED BY <1>1, <1>2 DEF Fits, D

\* A queue fits two engines that have opened, recorded and queued the same.
LEMMA FitsOther ==
    ASSUME NEW e, NEW f, NEW D, NEW P, NEW l, Fits(e, D, P, l),
           f.opened = e.opened, f.recorded = e.recorded, f.texts = e.texts, f.outbox = e.outbox
    PROVE  Fits(f, D, P, l)
BY DEF Fits, Texts

LEMMA InitsKeeps == ASSUME HostInv, HandleInits PROVE HostInv'
<1> DEFINE e == Started(disk)
<1>1. /\ Handle /\ ~loaded /\ engine = disk /\ engine \in Engines /\ HostTypes
      /\ e \in Engines /\ e.known = disk.known /\ e.opened = disk.opened
      /\ e.recorded = disk.recorded /\ e.outbox = disk.outbox /\ e.texts = disk.texts
  BY StartedTypes DEF HandleInits, HostInv, HostTypes
<1> DEFINE q == Append(queue, Announcement)
<1>2. SameTale(q)
  BY <1>1, AnnouncedIsSame
<1>i. \/ \E r \in RetryResults(e, {}) : InitWith(r)
      \/ loaded' = TRUE /\ disk' = e /\ Done(e, q)
  BY DEF HandleInits
<1> HIDE DEF e
<1>3. Prepared(e, {})
  BY <1>1 DEF Prepared
<1>4. ASSUME NEW r \in RetryResults(e, {}), InitWith(r) PROVE HostInv'
  <2>1. disk' = r.disk
    BY <1>4 DEF InitWith
  <2>2. CASE r.fails
    <3>1. loaded' = FALSE /\ Failed(r.disk, q, r.cut)
      BY <1>4, <2>2 DEF InitWith
    <3>2. r.cut \cup {} = r.cut
      OBVIOUS
    <3> HIDE DEF q
    <3>3. Failed(r.disk, q, r.cut \cup {})
      BY <3>1, <3>2
    <3>q. QED BY <1>1, <1>2, <1>3, <2>1, <2>2, <3>1, <3>3, RetryFailsKeeps
  <2>3. CASE ~r.fails
    <3>1. loaded' = TRUE /\ Done(r.engine, Enqueued(q, r.got, r.sent))
      BY <1>4, <2>3 DEF InitWith
    <3>2. r.got \cup {} = r.got
      OBVIOUS
    <3> HIDE DEF q
    <3>3. Done(r.engine, Enqueued(q, r.got \cup {}, r.sent))
      BY <3>1, <3>2
    <3>q. QED BY <1>1, <1>2, <1>3, <2>1, <2>3, <3>1, <3>3, RetryWorksKeeps
  <2>q. QED BY <2>2, <2>3
<1>5. ASSUME loaded' = TRUE, disk' = e, Done(e, q) PROVE HostInv'
  <2>1. Alike(e, e)
    BY <1>1 DEF HostInv, Alike
  <2>2. Fits(e, QueuedAs("decrypted"), QueuedAs("publish"), lost)
    BY <1>1, FitsNow, FitsOther
  <2>3. /\ q \in Seq(Items) /\ Follows(live, q) = Follows(live, queue)
        /\ Lined(q, "decrypted") = QueuedAs("decrypted")
        /\ Lined(q, "publish") = QueuedAs("publish")
    BY <1>2 DEF SameTale
  <2> HIDE DEF q
  <2>4. Fits(e, Lined(q, "decrypted"), Lined(q, "publish"), lost)
    BY <2>2, <2>3
  <2>q. QED BY <1>1, <1>5, <2>1, <2>3, <2>4, DoneKeeps
<1>q. QED
  BY <1>4, <1>5, <1>i

LEMMA HearsKeeps == ASSUME HostInv, NEW p \in Peers, HandleHears(p) PROVE HostInv'
<1> DEFINE e == Hearing(engine, p)
<1>1. Handle /\ loaded' = TRUE /\ engine \in Engines /\ HostTypes
  BY DEF HandleHears, HostInv, HostTypes
<1>2. SameTale(queue)
  BY <1>1, QueueIsSame
<1>3. Prepared(e, {})
  BY <1>1, HearingTypes DEF Prepared
<1>4. PICK r \in RetryResults(e, WokenBy(engine, p)) :
          /\ disk' = r.disk
          /\ IF r.fails THEN Failed(r.engine, queue, r.cut)
             ELSE Done(r.engine, Enqueued(queue, r.got, r.sent))
  BY DEF HandleHears
<1>5. r.got \cup {} = r.got /\ r.cut \cup {} = r.cut
  OBVIOUS
<1> HIDE DEF e
<1>6. CASE r.fails
  <2>1. Failed(r.engine, queue, r.cut \cup {})
    BY <1>4, <1>5, <1>6
  <2>q. QED BY <1>1, <1>2, <1>3, <1>4, <1>6, <2>1, RetryFailsKeeps
<1>7. CASE ~r.fails
  <2>1. Done(r.engine, Enqueued(queue, r.got \cup {}, r.sent))
    BY <1>4, <1>5, <1>7
  <2>q. QED BY <1>1, <1>2, <1>3, <1>4, <1>7, <2>1, RetryWorksKeeps
<1>q. QED BY <1>6, <1>7

LEMMA ReceivesKeeps == ASSUME HostInv, NEW m \in Incoming, HandleReceives(m) PROVE HostInv'
<1> DEFINE e == Received(engine, m)
           it == {m} \cap (e.opened \ engine.opened)
<1>1. Handle /\ loaded' = TRUE /\ engine \in Engines /\ HostTypes
  BY DEF HandleReceives, HostInv, HostTypes
<1>2. SameTale(queue)
  BY <1>1, QueueIsSame
<1>3. Prepared(e, it)
  <2>1. /\ e \in Engines /\ e.texts = engine.texts /\ e.outbox = engine.outbox
        /\ e.opened = engine.opened \cup it /\ e.recorded = engine.recorded \cup it
    BY <1>1, ReceivedTypes
  <2>2. it \in SUBSET Incoming /\ it \cap engine.opened = {}
    OBVIOUS
  <2>q. QED BY <2>1, <2>2 DEF Prepared
<1>4. PICK r \in RetryResults(e, {}) :
          /\ disk' = r.disk
          /\ IF r.fails THEN Failed(r.engine, queue, r.cut \cup it)
             ELSE Done(r.engine, Enqueued(queue, r.got \cup it, r.sent))
  BY DEF HandleReceives
<1> HIDE DEF e, it
<1>5. CASE r.fails
  <2>1. Failed(r.engine, queue, r.cut \cup it)
    BY <1>4, <1>5
  <2>q. QED BY <1>1, <1>2, <1>3, <1>4, <1>5, <2>1, RetryFailsKeeps
<1>6. CASE ~r.fails
  <2>1. Done(r.engine, Enqueued(queue, r.got \cup it, r.sent))
    BY <1>4, <1>6
  <2>q. QED BY <1>1, <1>2, <1>3, <1>4, <1>6, <2>1, RetryWorksKeeps
<1>q. QED BY <1>5, <1>6

LEMMA AcceptsKeeps == ASSUME HostInv, NEW p \in Peers, HandleAccepts(p) PROVE HostInv'
<1> DEFINE f == Hearing(engine, p)
           q == Append(queue, Announcement)
<1>1. Handle /\ loaded' = TRUE /\ engine \in Engines /\ HostTypes /\ disk' = f /\ Done(f, q)
      /\ Alike(engine, disk)
  BY DEF HandleAccepts, HostInv, HostTypes
<1>2. /\ q \in Seq(Items) /\ Follows(live, q) = Follows(live, queue)
      /\ Lined(q, "decrypted") = QueuedAs("decrypted")
      /\ Lined(q, "publish") = QueuedAs("publish")
  BY <1>1, AnnouncedIsSame DEF SameTale
<1>3. /\ f \in Engines /\ f.texts = engine.texts /\ f.recorded = engine.recorded
      /\ f.opened = engine.opened /\ f.outbox = engine.outbox
  BY <1>1, HearingTypes
<1> HIDE DEF f, q
<1>4. Fits(f, QueuedAs("decrypted"), QueuedAs("publish"), lost)
  BY <1>1, <1>3, FitsNow, FitsOther
<1>5. Fits(f, Lined(q, "decrypted"), Lined(q, "publish"), lost)
  BY <1>2, <1>4
<1>6. Alike(f, f)
  BY <1>1, <1>3 DEF Alike
<1>q. QED BY <1>1, <1>2, <1>3, <1>5, <1>6, DoneKeeps

LEMMA SendsKeeps == ASSUME HostInv, NEW t \in Own, HandleSends(t) PROVE HostInv'
<1> DEFINE f == Sending(engine, t)
           T == {t} \ f.outbox
           q == Enqueued(queue, {}, T)
<1>1. Handle /\ loaded' = TRUE /\ engine \in Engines /\ HostTypes /\ Alike(engine, disk)
  BY DEF HandleSends, HostInv, HostTypes
<1>2. disk' = f /\ Done(f, q)
  BY DEF HandleSends
<1>3. /\ q \in Seq(Items) /\ Follows(live, q) = Follows(live, queue)
      /\ Lined(q, "decrypted") = QueuedAs("decrypted") \cup {}
      /\ Lined(q, "publish") = QueuedAs("publish") \cup T
  <2>1. SameTale(queue) /\ {} \in SUBSET Incoming /\ T \in SUBSET Own
    BY <1>1, QueueIsSame
  <2>2. \A M \in SUBSET Incoming, S \in SUBSET Own :
             LET z == Enqueued(queue, M, S)
             IN  /\ z \in Seq(Items) /\ Follows(live, z) = Follows(live, queue)
                 /\ Lined(z, "decrypted") = QueuedAs("decrypted") \cup M
                 /\ Lined(z, "publish") = QueuedAs("publish") \cup S
    BY <2>1, TaleGoesOn
  <2> HIDE DEF T
  <2>q. QED BY <2>1, <2>2
<1>4. /\ f \in Engines /\ f.known = engine.known /\ f.recorded = engine.recorded
      /\ f.opened = engine.opened /\ f.texts = engine.texts \cup {t}
      /\ engine.outbox \subseteq f.outbox
  BY <1>1, SendingTypes
<1>5. {t} \subseteq f.outbox \cup T
  OBVIOUS
<1> HIDE DEF f, q, T
<1>6. Fits(engine, QueuedAs("decrypted"), QueuedAs("publish"), lost)
  BY <1>1, FitsNow
<1> DEFINE D == QueuedAs("decrypted")
           P == QueuedAs("publish")
<1>7. Lined(q, "decrypted") = D /\ Lined(q, "publish") = P \cup T
  BY <1>3
<1>8. Fits(engine, D, P, lost)
  BY <1>6
<1> HIDE DEF D, P
<1>9. Fits(f, D, P \cup T, lost)
  <2>1. Texts(f, given, P \cup T, lost)
    BY <1>4, <1>5, <1>8 DEF Fits, Texts
  <2>q. QED BY <1>4, <1>8, <2>1 DEF Fits
<1>10. Fits(f, Lined(q, "decrypted"), Lined(q, "publish"), lost)
  BY <1>7, <1>9
<1>11. Alike(f, f)
  BY <1>1, <1>4 DEF Alike
<1>q. QED BY <1>1, <1>2, <1>3, <1>4, <1>10, <1>11, DoneKeeps

LEMMA EndsKeeps == ASSUME HostInv, HandleEnds PROVE HostInv'
<1>1. /\ Handle /\ HostTypes /\ Alike(engine, disk) /\ disk' = disk /\ engine' = disk
      /\ loaded' = FALSE /\ asked' = {} /\ live' = {} /\ queue' = <<>> /\ behind' = "no"
      /\ UNCHANGED <<handed, given>>
      /\ lost' = lost \cup (QueuedAs("decrypted") \ disk.recorded) \cup QueuedAs("publish")
                      \cup (engine.waiting \ disk.waiting)
  BY DEF HandleEnds, EndsHere, HostInv
<1>2. engine \in Engines /\ disk \in Engines /\ lost \subseteq Incoming \cup Own
  BY <1>1 DEF HostTypes
<1> DEFINE D == QueuedAs("decrypted")
           P == QueuedAs("publish")
           l == lost'
<1>3. D \cup P \subseteq Incoming \cup Own
  BY DEF QueuedAs
<1>4. Fits(engine, D, P, lost)
  BY <1>1, FitsNow
<1>5. ToldPart
  BY <1>1, HandleFacts
<1>6. \A m \in Incoming : handed[m] > 0 => m \in engine.opened /\ m \notin disk.recorded
  BY <1>5 DEF ToldPart
<1>7. l = lost \cup (D \ disk.recorded) \cup P \cup (engine.waiting \ disk.waiting)
  BY <1>1
<1> HIDE DEF D, P, l
<1>8. l \subseteq Incoming \cup Own
  BY <1>2, <1>3, <1>7 DEF Engines
<1>9. Fits(disk, {}, {}, l)
  <2>1. \A m \in disk.opened \ l : m \in disk.recorded \cup {} \/ handed[m] > 0
    BY <1>1, <1>4, <1>7 DEF Fits, Alike
  <2>2. \A m \in Incoming : handed[m] > 0 => m \in disk.opened /\ m \notin disk.recorded
    BY <1>1, <1>6 DEF Alike
  <2>3. Texts(disk, given, {}, l)
    BY <1>1, <1>4, <1>7 DEF Fits, Texts, Alike
  <2>q. QED BY <2>1, <2>2, <2>3 DEF Fits
<1>10. /\ queue' \in Seq(Items) /\ Follows(live', queue') = {}
       /\ QueuedAs("decrypted")' = {} /\ QueuedAs("publish")' = {}
  BY <1>1 DEF QueuedAs, Follows
<1>11. AskedPart'
  BY <1>1, <1>10 DEF AskedPart
<1>12. Fits(disk, QueuedAs("decrypted")', QueuedAs("publish")', lost')
  BY <1>9, <1>10 DEF l
<1>13. Alike(disk, disk)
  BY <1>1 DEF Alike
<1>14. lost' \subseteq Incoming \cup Own
  BY <1>8 DEF l
<1>q. QED BY <1>1, <1>2, <1>10, <1>11, <1>12, <1>13, <1>14, HandleKeeps

LEMMA AckedTypes ==
    ASSUME NEW e \in Engines
    PROVE  LET f == Acked(e)
           IN  /\ f \in Engines /\ f.known = e.known /\ f.recorded = {} /\ f.opened = e.opened
               /\ f.texts = e.texts /\ f.outbox = e.outbox
BY DEF Engines, Acked

LEMMA DrainKeeps == ASSUME HostInv, Drain PROVE HostInv'
<1> DEFINE D == QueuedAs("decrypted")
           P == QueuedAs("publish")
           acks == loaded /\ D # {} /\ engine.recorded # {}
<1>1. /\ Handle /\ queue' = <<>> /\ UNCHANGED <<loaded, asked>>
      /\ engine' = IF acks THEN Acked(engine) ELSE engine
  BY DEF Drain
<1>2. /\ host \in {"own", "linked"} /\ host' = host /\ rows' = rows /\ seen' = seen
      /\ seen = {} /\ \A m \in Incoming \cup Own : rows[m] = "none"
      /\ ToldPart /\ AskedPart
      /\ \A m \in Incoming : handed[m] <= 1
      /\ HostTypes /\ Alike(engine, disk)
  BY <1>1, HandleFacts
<1>3. Fits(engine, D, P, lost)
  BY <1>1, FitsNow
<1>4. D \subseteq engine.opened /\ D \cup P \subseteq Incoming \cup Own /\ engine.opened \subseteq Incoming
  BY <1>2, <1>3 DEF Fits, QueuedAs, HostTypes, Engines
<1>5. /\ queue' \in Seq(Items) /\ QueuedAs("decrypted")' = {} /\ QueuedAs("publish")' = {}
      /\ \A a : Follows(a, queue') = a
  BY <1>1 DEF QueuedAs, Follows
<1>6. /\ \A m \in Incoming : handed[m] > 0 => m \in engine.opened /\ m \notin disk.recorded
      /\ D # {} => loaded /\ engine.recorded = disk.recorded
  BY <1>2 DEF ToldPart
<1>7. engine \in Engines /\ disk \in Engines /\ handed \in [Incoming -> Nat]
  BY <1>2 DEF HostTypes
<1>8. /\ Acked(engine) \in Engines /\ Acked(engine).known = engine.known
      /\ Acked(engine).recorded = {} /\ Acked(engine).opened = engine.opened
      /\ Acked(engine).texts = engine.texts /\ Acked(engine).outbox = engine.outbox
  BY <1>7, AckedTypes
<1> DEFINE f == engine'
<1>9. /\ f \in Engines /\ f.known = engine.known /\ f.opened = engine.opened
      /\ f.texts = engine.texts /\ f.outbox = engine.outbox
      /\ f.recorded = IF acks THEN {} ELSE engine.recorded
  BY <1>1, <1>7, <1>8
<1>10. /\ \A m \in engine.opened \ lost : m \in engine.recorded \cup D \/ handed[m] > 0
       /\ \A m \in D : handed[m] = 0
       /\ D # {} => engine.recorded \ lost \subseteq D
       /\ Texts(engine, given, P, lost)
  BY <1>3 DEF Fits
<1> DEFINE told == [m \in Incoming |-> handed[m] + (IF m \in D THEN 1 ELSE 0)]
<1>11. CASE /\ disk' = IF acks THEN engine' ELSE disk
            /\ handed' = told /\ given' = given \cup P /\ live' = Follows(live, queue)
            /\ UNCHANGED <<lost, behind>>
  <2> DEFINE g == disk'
             h == handed'
  <2>1. /\ g \in Engines /\ g.known = disk.known /\ g.opened = disk.opened
        /\ g.texts = disk.texts /\ g.outbox = disk.outbox
        /\ g.recorded = IF acks THEN {} ELSE disk.recorded
    BY <1>2, <1>7, <1>8, <1>9, <1>11 DEF Alike
  <2>2. /\ h \in [Incoming -> Nat]
        /\ \A m \in Incoming : h[m] = handed[m] + (IF m \in D THEN 1 ELSE 0)
    BY <1>7, <1>11
  <2>3. given' = given \cup P /\ lost' = lost /\ behind' = behind
    BY <1>11
  <2> HIDE DEF f, g, h, D, P
  <2>4. given' \subseteq Incoming \cup Own
    BY <1>2, <1>4, <2>3 DEF HostTypes
  <2>5. HostTypes'
    BY <1>2, <1>5, <1>9, <2>1, <2>2, <2>3, <2>4, <1>1 DEF HostTypes, f, g, h
  <2>6. Alike(f, g)
    BY <1>2, <1>9, <2>1 DEF Alike
  <2>7. ~loaded => f = g
    BY <1>1, <1>11 DEF f, g, HostInv
  <2>8. \A m \in f.opened \ lost : m \in f.recorded \/ h[m] > 0
    BY <1>4, <1>7, <1>9, <1>10, <2>2
  <2>9. \A m \in Incoming : h[m] <= 1
    BY <1>2, <1>4, <1>7, <1>10, <2>2
  <2>10. \A m \in Incoming : h[m] > 0 => m \in f.opened /\ m \notin g.recorded
    BY <1>2, <1>4, <1>6, <1>7, <1>9, <2>1, <2>2
  <2>11. \A t \in f.texts \ lost : t \in f.outbox \cup given'
    BY <1>9, <1>10, <2>3 DEF Texts
  <2>12. AskedPart'
    BY <1>1, <1>2, <1>5, <1>9, <1>11 DEF AskedPart, f
  <2>13. OpenedIsKept' /\ ToldOnce' /\ SeenIsKnown'
    BY <1>2, <2>3, <2>8, <2>9 DEF OpenedIsKept, ToldOnce, SeenIsKnown, f, h
  <2>14. RowsAreTrue'
    BY <1>2, <2>3, <2>11 DEF RowsAreTrue, f
  <2>15. ToldPart'
    BY <1>5, <2>10 DEF ToldPart, f, g, h
  <2>16. ServicePart' /\ HandlePart'
    BY <1>2, <2>12, <2>15 DEF ServicePart, HandlePart
  <2>q. QED
    BY <1>1, <2>5, <2>6, <2>7, <2>13, <2>14, <2>16 DEF HostInv, f, g
<1>12. CASE /\ acks /\ lost' = lost \cup D \cup P /\ behind' = "drain"
            /\ UNCHANGED <<disk, handed, given, live>>
  <2> HIDE DEF f, D, P
  <2>1. HostTypes'
    BY <1>1, <1>2, <1>4, <1>5, <1>9, <1>12 DEF HostTypes, f
  <2>2. Alike(f, disk)
    BY <1>2, <1>9 DEF Alike
  <2>3. loaded'
    BY <1>1, <1>12
  <2>4. \A m \in f.opened \ lost' : handed[m] > 0
    BY <1>9, <1>10, <1>12
  <2>5. \A t \in f.texts \ lost' : t \in f.outbox \cup given
    BY <1>9, <1>10, <1>12 DEF Texts
  <2>6. OpenedIsKept' /\ ToldOnce' /\ SeenIsKnown'
    BY <1>2, <1>12, <2>4 DEF OpenedIsKept, ToldOnce, SeenIsKnown, f
  <2>7. RowsAreTrue'
    BY <1>2, <1>12, <2>5 DEF RowsAreTrue, f
  <2>8. ToldPart'
    BY <1>5, <1>6, <1>9, <1>12 DEF ToldPart, f
  <2>9. AskedPart'
    BY <1>12 DEF AskedPart
  <2>10. ServicePart' /\ HandlePart'
    BY <1>2, <2>8, <2>9 DEF ServicePart, HandlePart
  <2>q. QED
    BY <1>12, <2>1, <2>2, <2>3, <2>6, <2>7, <2>10 DEF HostInv, f
<1>q. QED
  BY <1>11, <1>12 DEF Drain

-----------------------------------------------------------------------------
(* The service.                                                              *)

RowTypes(r) ==
    /\ r \in [Incoming \cup Own -> {"none", "received", "pending", "sent"}]
    /\ \A m \in Incoming : r[m] \in {"none", "received"}

LEMMA InsertedRows ==
    ASSUME NEW r, RowTypes(r), NEW M \in SUBSET Incoming
    PROVE  LET s == Inserted(r, M, "received")
           IN  /\ RowTypes(s)
               /\ \A m \in Incoming : s[m] = "received" <=> m \in M \/ r[m] = "received"
               /\ \A t \in Own : s[t] = r[t]
BY HostAssumption DEF RowTypes, Inserted, HostAssumption

LEMMA MarkedRows ==
    ASSUME NEW r, RowTypes(r), NEW T \in SUBSET Own
    PROVE  LET s == MarkedSent(r, T)
           IN  /\ RowTypes(s) /\ \A m \in Incoming : s[m] = r[m]
               /\ \A t \in Own : s[t] = IF t \in T /\ r[t] # "none" THEN "sent" ELSE r[t]
BY HostAssumption DEF RowTypes, MarkedSent, HostAssumption

\* What the rows r say of the texts is true.
TrueRows(e, r, g, l) ==
    \A t \in Own \ l :
        /\ r[t] = "pending" => t \in e.outbox
        /\ r[t] = "sent" => t \in g
        /\ t \in e.texts => t \in e.outbox \cup g

ServiceHas(e, r, s, g, l) ==
    /\ \A m \in e.opened \ l : m \in e.recorded \/ r[m] = "received"
    /\ s \cap Incoming \subseteq e.waiting \cup e.opened \cup l
    /\ TrueRows(e, r, g, l)

LEMMA ServiceFacts ==
    ASSUME HostInv, Service
    PROVE  /\ host = "service" /\ host' = host /\ queue = <<>> /\ queue' = queue
           /\ handed' = handed /\ behind' = behind
           /\ engine.recorded = disk.recorded /\ \A m \in Incoming : handed[m] = 0
           /\ engine \in Engines /\ disk \in Engines /\ Alike(engine, disk) /\ RowTypes(rows)
           /\ engine.recorded \subseteq engine.opened
           /\ given \subseteq Incoming \cup Own /\ lost \subseteq Incoming \cup Own
           /\ ServiceHas(engine, rows, seen \ pruned, given, lost)
<1>1. /\ host = "service" /\ host' = host /\ queue' = queue
      /\ handed' = handed /\ behind' = behind
  BY DEF Service
<1>2. /\ HostTypes /\ ServicePart /\ OpenedIsKept /\ SeenIsKnown /\ RowsAreTrue
      /\ Alike(engine, disk)
  BY DEF HostInv
<1>3. queue = <<>> /\ engine.recorded = disk.recorded /\ \A m \in Incoming : handed[m] = 0
  BY <1>1, <1>2 DEF ServicePart
<1>4. \A kind : QueuedAs(kind) = {}
  BY <1>3 DEF QueuedAs
<1>5. engine \in Engines /\ disk \in Engines /\ RowTypes(rows)
      /\ given \subseteq Incoming \cup Own /\ lost \subseteq Incoming \cup Own
  BY <1>2 DEF HostTypes, RowTypes
<1>6. \A m \in engine.opened \ lost : m \in engine.recorded \/ rows[m] = "received"
  BY <1>2, <1>3, <1>4, <1>5 DEF OpenedIsKept, Engines
<1>7. TrueRows(engine, rows, given, lost)
  BY <1>2, <1>4 DEF RowsAreTrue, TrueRows
<1>8. (seen \ pruned) \cap Incoming \subseteq engine.waiting \cup engine.opened \cup lost
  BY <1>2 DEF SeenIsKnown
<1>9. engine.recorded \subseteq engine.opened
  BY <1>2 DEF Alike
<1>q. QED BY <1>1, <1>2, <1>3, <1>5, <1>6, <1>7, <1>8, <1>9 DEF ServiceHas

LEMMA ServiceKeeps ==
    ASSUME HostInv, Service,
           NEW f \in Engines, NEW g \in Engines, Alike(f, g), f.recorded = g.recorded,
           engine' = f, disk' = g, loaded' \in BOOLEAN, loaded' \/ f = g,
           RowTypes(rows'), given' \subseteq Incoming \cup Own, lost' \subseteq Incoming \cup Own,
           ServiceHas(f, rows', seen' \ pruned', given', lost')
    PROVE  HostInv'
<1>1. /\ host = "service" /\ host' = host /\ queue = <<>> /\ queue' = queue
      /\ handed' = handed /\ behind' = behind /\ \A m \in Incoming : handed[m] = 0
  BY ServiceFacts
<1>2. HostTypes
  BY DEF HostInv
<1>3. HostTypes'
  BY <1>1, <1>2 DEF HostTypes, RowTypes
<1>4. OpenedIsKept' /\ ToldOnce' /\ SeenIsKnown'
  BY <1>1 DEF ServiceHas, OpenedIsKept, ToldOnce, SeenIsKnown
<1>5. RowsAreTrue'
  BY DEF ServiceHas, TrueRows, RowsAreTrue
<1>6. ServicePart' /\ HandlePart'
  BY <1>1 DEF ServicePart, HandlePart
<1>q. QED BY <1>3, <1>4, <1>5, <1>6 DEF HostInv

\* What is found on the disk is in the hands of the service again, but for what a start drops.
LEMMA ReloadKeeps ==
    ASSUME HostInv, Service, NEW g \in Engines, engine' = g, disk' = g, loaded' \in BOOLEAN,
           g.known = disk.known, g.opened = disk.opened, g.recorded = disk.recorded,
           g.outbox = disk.outbox, g.texts = disk.texts,
           pruned \cup (disk.waiting \ g.waiting) \subseteq pruned',
           lost' = lost \cup (engine.waiting \ disk.waiting), UNCHANGED <<rows, seen, given>>
    PROVE  HostInv'
<1>1. /\ engine.recorded = disk.recorded /\ RowTypes(rows)
      /\ engine \in Engines /\ disk \in Engines /\ Alike(engine, disk)
      /\ given \subseteq Incoming \cup Own /\ lost \subseteq Incoming \cup Own
      /\ ServiceHas(engine, rows, seen \ pruned, given, lost)
  BY ServiceFacts
<1> DEFINE l == lost'
           x == pruned'
<1>2. /\ l = lost \cup (engine.waiting \ disk.waiting)
      /\ pruned \cup (disk.waiting \ g.waiting) \subseteq x
  OBVIOUS
<1> HIDE DEF l, x
<1>3. ServiceHas(g, rows, seen \ x, given, l)
  <2>1. \A m \in g.opened \ l : m \in g.recorded \/ rows[m] = "received"
    BY <1>1, <1>2 DEF ServiceHas, Alike
  <2>2. (seen \ x) \cap Incoming \subseteq g.waiting \cup g.opened \cup l
    BY <1>1, <1>2 DEF ServiceHas, Alike
  <2>3. TrueRows(g, rows, given, l)
    BY <1>1, <1>2 DEF ServiceHas, TrueRows, Alike
  <2>q. QED BY <2>1, <2>2, <2>3 DEF ServiceHas
<1>4. Alike(g, g) /\ l \subseteq Incoming \cup Own
  BY <1>1, <1>2 DEF Alike, Engines
<1>5. ServiceHas(g, rows', seen' \ pruned', given', lost')
  BY <1>3 DEF l, x
<1>q. QED BY <1>1, <1>4, <1>5, ServiceKeeps DEF l

LEMMA ServiceReceivesKeeps ==
    ASSUME HostInv, NEW m \in Incoming, ServiceReceives(m), UNCHANGED pruned PROVE HostInv'
<1> DEFINE f == Received(engine, m)
           it == {m} \cap (f.opened \ engine.opened)
<1>1. /\ engine.recorded = disk.recorded /\ RowTypes(rows)
      /\ engine \in Engines /\ disk \in Engines /\ Alike(engine, disk)
      /\ engine.recorded \subseteq engine.opened
      /\ given \subseteq Incoming \cup Own /\ lost \subseteq Incoming \cup Own
      /\ ServiceHas(engine, rows, seen \ pruned, given, lost) /\ Service
  BY ServiceFacts DEF ServiceReceives
<1>2. disk' = f /\ UNCHANGED <<given, lost>>
  BY DEF ServiceReceives
<1>3. /\ f \in Engines /\ f.texts = engine.texts /\ f.outbox = engine.outbox
      /\ f.opened = engine.opened \cup it /\ f.recorded = engine.recorded \cup it
      /\ it = {} => m \in f.waiting
      /\ engine.waiting \subseteq f.waiting
  BY <1>1, ReceivedTypes
<1>4. it \subseteq {m}
  OBVIOUS
<1>5. /\ engine' = f /\ loaded' \in BOOLEAN /\ seen' \subseteq seen \cup {m}
      /\ rows' \in {Inserted(rows, it, "received"), rows}
  <2>1. loaded \in BOOLEAN
    BY DEF HostInv, HostTypes
  <2>2. CASE /\ engine' = disk' /\ seen' = seen \cup {m}
             /\ rows' = Inserted(rows, {m} \cap (disk'.opened \ engine.opened), "received")
             /\ Goes /\ UNCHANGED <<loaded, asked, live>>
    BY <1>2, <2>1, <2>2
  <2>3. CASE EndsHere /\ seen' \in {seen, seen \cup {m}} /\ UNCHANGED rows
    BY <1>2, <2>3 DEF EndsHere
  <2>q. QED BY <2>2, <2>3 DEF ServiceReceives
<1> HIDE DEF f, it
<1> DEFINE r == rows'
<1>6. /\ RowTypes(r) /\ \A t \in Own : r[t] = rows[t]
      /\ \A n \in Incoming : rows[n] = "received" => r[n] = "received"
  <2>1. it \in SUBSET Incoming
    BY <1>4
  <2>2. CASE r = rows
    BY <2>2, <1>1
  <2>3. CASE r = Inserted(rows, it, "received")
    BY <2>1, <2>3, <1>1, InsertedRows
  <2>q. QED BY <1>5, <2>2, <2>3
<1>7. ServiceHas(f, r, seen' \ pruned', given, lost)
  <2> HIDE DEF r
  <2>1. \A n \in f.opened \ lost : n \in f.recorded \/ r[n] = "received"
    BY <1>1, <1>3, <1>6 DEF ServiceHas, Engines
  <2>2. (seen' \ pruned') \cap Incoming \subseteq f.waiting \cup f.opened \cup lost
    BY <1>1, <1>3, <1>4, <1>5 DEF ServiceHas
  <2>3. TrueRows(f, r, given, lost)
    BY <1>1, <1>3, <1>6 DEF ServiceHas, TrueRows
  <2>q. QED BY <2>1, <2>2, <2>3 DEF ServiceHas
<1>8. Alike(f, f)
  BY <1>1, <1>3 DEF Alike
<1>q. QED BY <1>1, <1>2, <1>3, <1>5, <1>6, <1>7, <1>8, ServiceKeeps

LEMMA ServiceHearsKeeps ==
    ASSUME HostInv, NEW h \in Peers \X Hearings, ServiceHears(h), UNCHANGED pruned PROVE HostInv'
<1> DEFINE e == Hearing(engine, h[1])
<1>1. /\ engine.recorded = disk.recorded /\ RowTypes(rows)
      /\ engine \in Engines /\ disk \in Engines /\ Alike(engine, disk)
      /\ engine.recorded \subseteq engine.opened
      /\ given \subseteq Incoming \cup Own /\ lost \subseteq Incoming \cup Own
      /\ ServiceHas(engine, rows, seen \ pruned, given, lost) /\ Service
  BY ServiceFacts DEF ServiceHears
<1>2. /\ e \in Engines /\ e.texts = engine.texts
      /\ e.recorded = engine.recorded /\ e.opened = engine.opened
      /\ e.outbox = engine.outbox /\ e.waiting = engine.waiting
  BY <1>1, HearingTypes
<1>3. PICK r \in RetryResults(e, WokenBy(engine, h[1])) :
          /\ disk' = r.disk
          /\ \/ /\ ~r.fails /\ engine' = r.engine /\ seen' = seen \cup {h}
                /\ rows' = MarkedSent(Inserted(rows, r.got, "received"), r.sent)
                /\ given' = given \cup r.sent
                /\ Goes /\ UNCHANGED <<loaded, asked, live, lost>>
             \/ /\ r.fails /\ engine' = r.engine /\ Stop
                /\ lost' = lost \cup r.cut
                /\ UNCHANGED <<loaded, asked, live, seen, rows, given>>
             \/ /\ ~r.fails /\ EndsHere /\ seen' \in {seen, seen \cup {h}}
                /\ \E M \in SUBSET r.got, T \in SUBSET r.sent :
                      /\ rows' = MarkedSent(Inserted(rows, M, "received"), T)
                      /\ lost' = lost \cup (r.got \ (M \cup r.disk.recorded)) \cup r.sent
                                      \cup (r.engine.waiting \ r.disk.waiting)
                /\ UNCHANGED given
  BY DEF ServiceHears
<1> HIDE DEF e
<1>4. PICK N \in SUBSET Incoming : Retried(e, r, N)
  BY <1>2, RetryEffects
<1> DEFINE f == r.engine
           g == r.disk
           S == Sendable(e)
<1>5. /\ f \in Engines /\ g \in Engines /\ f.known = g.known
      /\ f.texts = e.texts /\ g.texts = e.texts
      /\ f.opened = e.opened \cup N /\ g.opened = e.opened \cup N
      /\ f.recorded = e.recorded /\ g.recorded = e.recorded
      /\ f.outbox = e.outbox \ S /\ g.outbox = e.outbox \ S /\ S \subseteq Own
      /\ N \cap e.opened = {} /\ N \subseteq e.waiting
      /\ ~r.fails => f.waiting = e.waiting \ N /\ r.got = e.recorded \cup N /\ r.sent = S
      /\ r.fails => r.cut = e.waiting \cup S
  BY <1>4 DEF Retried
<1>6. /\ e.recorded \subseteq Incoming /\ e.waiting \subseteq Incoming
      /\ f.waiting \subseteq Incoming /\ g.waiting \subseteq Incoming
      /\ f.opened \subseteq Incoming
  BY <1>2, <1>5 DEF Engines
<1>7. h \notin Incoming
  BY HostAssumption DEF HostAssumption
<1>8. disk' = g
  BY <1>3
<1>9. loaded \in BOOLEAN
  BY DEF HostInv, HostTypes
<1> HIDE DEF f, g, S
<1>10. Alike(f, g) /\ Alike(g, g)
  BY <1>1, <1>2, <1>5 DEF Alike
<1>11. CASE /\ ~r.fails /\ engine' = r.engine /\ seen' = seen \cup {h}
            /\ rows' = MarkedSent(Inserted(rows, r.got, "received"), r.sent)
            /\ given' = given \cup r.sent
            /\ Goes /\ UNCHANGED <<loaded, asked, live, lost>>
  <2> DEFINE i == Inserted(rows, r.got, "received")
             n == MarkedSent(i, r.sent)
  <2>1. r.got \in SUBSET Incoming /\ r.got = e.recorded \cup N /\ r.sent \in SUBSET Own /\ r.sent = S
    BY <1>5, <1>6, <1>11
  <2>2. /\ RowTypes(i) /\ \A t \in Own : i[t] = rows[t]
        /\ \A m \in Incoming : i[m] = "received" <=> m \in r.got \/ rows[m] = "received"
    BY <1>1, <2>1, InsertedRows
  <2> HIDE DEF i
  <2>3. /\ RowTypes(n) /\ \A m \in Incoming : n[m] = i[m]
        /\ \A t \in Own : n[t] = IF t \in r.sent /\ i[t] # "none" THEN "sent" ELSE i[t]
    BY <2>1, <2>2, MarkedRows
  <2>4. engine' = f /\ rows' = n /\ seen' = seen \cup {h} /\ given' = given \cup S /\ lost' = lost
        /\ loaded' = loaded
    BY <1>11, <2>1 DEF i, f
  <2> HIDE DEF n
  <2>5. \A m \in f.opened \ lost : m \in f.recorded \/ n[m] = "received"
    BY <1>1, <1>2, <1>5, <1>6, <2>1, <2>2, <2>3 DEF ServiceHas
  <2>6. ((seen \cup {h}) \ pruned) \cap Incoming \subseteq f.waiting \cup f.opened \cup lost
    BY <1>1, <1>2, <1>5, <1>7, <1>11 DEF ServiceHas
  <2>7. TrueRows(f, n, given \cup S, lost)
    BY <1>1, <1>2, <1>5, <2>1, <2>2, <2>3 DEF ServiceHas, TrueRows
  <2>8. ServiceHas(f, rows', seen' \ pruned', given', lost')
    BY <2>4, <2>5, <2>6, <2>7 DEF ServiceHas
  <2>9. given' \subseteq Incoming \cup Own /\ lost' \subseteq Incoming \cup Own /\ RowTypes(rows')
    BY <1>1, <1>5, <2>3, <2>4
  <2>10. loaded' \in BOOLEAN /\ (loaded' \/ f = g)
    <3>1. loaded
      BY DEF ServiceHears
    <3>q. QED BY <3>1, <2>4
  <2>q. QED BY <1>1, <1>5, <1>8, <1>10, <2>4, <2>8, <2>9, <2>10, ServiceKeeps
<1>12. CASE /\ r.fails /\ engine' = r.engine /\ Stop
            /\ lost' = lost \cup r.cut
            /\ UNCHANGED <<loaded, asked, live, seen, rows, given>>
  <2> DEFINE l == lost'
  <2>1. engine' = f /\ rows' = rows /\ seen' = seen /\ given' = given /\ loaded' = loaded
        /\ l = lost \cup e.waiting \cup S
    BY <1>5, <1>12 DEF f
  <2> HIDE DEF l
  <2>2. \A m \in f.opened \ l : m \in f.recorded \/ rows[m] = "received"
    BY <1>1, <1>2, <1>5, <2>1 DEF ServiceHas
  <2>3. (seen \ pruned) \cap Incoming \subseteq f.waiting \cup f.opened \cup l
    BY <1>1, <1>2, <1>5, <2>1 DEF ServiceHas
  <2>4. TrueRows(f, rows, given, l)
    BY <1>1, <1>2, <1>5, <2>1 DEF ServiceHas, TrueRows
  <2>5. ServiceHas(f, rows', seen' \ pruned', given', lost')
    BY <2>1, <2>2, <2>3, <2>4 DEF ServiceHas, l
  <2>6. l \subseteq Incoming \cup Own
    BY <1>1, <1>5, <1>6, <2>1
  <2>7. loaded' \in BOOLEAN /\ (loaded' \/ f = g)
    <3>1. loaded
      BY DEF ServiceHears
    <3>q. QED BY <3>1, <2>1
  <2>q. QED BY <1>1, <1>5, <1>8, <1>10, <2>1, <2>5, <2>6, <2>7, ServiceKeeps DEF l
<1>13. CASE /\ ~r.fails /\ EndsHere /\ seen' \in {seen, seen \cup {h}}
            /\ \E M \in SUBSET r.got, T \in SUBSET r.sent :
                  /\ rows' = MarkedSent(Inserted(rows, M, "received"), T)
                  /\ lost' = lost \cup (r.got \ (M \cup r.disk.recorded)) \cup r.sent
                                  \cup (r.engine.waiting \ r.disk.waiting)
            /\ UNCHANGED given
  <2>1. r.got = e.recorded \cup N /\ r.sent = S
    BY <1>5, <1>13
  <2>2. PICK M \in SUBSET r.got, T \in SUBSET r.sent :
            /\ rows' = MarkedSent(Inserted(rows, M, "received"), T)
            /\ lost' = lost \cup (r.got \ (M \cup g.recorded)) \cup r.sent
                            \cup (f.waiting \ g.waiting)
    BY <1>13 DEF f, g
  <2> DEFINE i == Inserted(rows, M, "received")
             n == MarkedSent(i, T)
             l == lost'
  <2>3. M \in SUBSET Incoming /\ T \in SUBSET Own /\ T \subseteq S
    BY <1>5, <1>6, <2>1
  <2>4. /\ RowTypes(i) /\ \A t \in Own : i[t] = rows[t]
        /\ \A m \in Incoming : i[m] = "received" <=> m \in M \/ rows[m] = "received"
    BY <1>1, <2>3, InsertedRows
  <2> HIDE DEF i
  <2>5. /\ RowTypes(n) /\ \A m \in Incoming : n[m] = i[m]
        /\ \A t \in Own : n[t] = IF t \in T /\ i[t] # "none" THEN "sent" ELSE i[t]
    BY <2>3, <2>4, MarkedRows
  <2>6. engine' = g /\ rows' = n /\ seen' \subseteq seen \cup {h} /\ given' = given
        /\ loaded' = FALSE
    BY <1>8, <1>13, <2>2 DEF i, EndsHere
  <2>7. l = lost \cup ((e.recorded \cup N) \ (M \cup g.recorded)) \cup S \cup (f.waiting \ g.waiting)
    BY <2>1, <2>2
  <2>8. f.waiting = e.waiting \ N
    BY <1>5, <1>13
  <2> HIDE DEF n, l
  <2>9. \A m \in g.opened \ l : m \in g.recorded \/ n[m] = "received"
    BY <1>1, <1>2, <1>5, <1>6, <2>4, <2>5, <2>7 DEF ServiceHas
  <2>10. (seen' \ pruned') \cap Incoming \subseteq g.waiting \cup g.opened \cup l
    BY <1>1, <1>2, <1>5, <1>7, <2>6, <2>7, <2>8 DEF ServiceHas
  <2>11. TrueRows(g, n, given, l)
    BY <1>1, <1>2, <1>5, <2>3, <2>4, <2>5, <2>7 DEF ServiceHas, TrueRows
  <2>12. ServiceHas(g, rows', seen' \ pruned', given', lost')
    BY <2>6, <2>9, <2>10, <2>11 DEF ServiceHas, l
  <2>13. l \subseteq Incoming \cup Own /\ RowTypes(rows')
    BY <1>1, <1>5, <1>6, <2>5, <2>6, <2>7
  <2>q. QED BY <1>1, <1>5, <1>8, <1>10, <2>6, <2>12, <2>13, ServiceKeeps DEF l
<1>q. QED BY <1>3, <1>11, <1>12, <1>13

LEMMA ServiceSendsKeeps ==
    ASSUME HostInv, NEW t \in Own, ServiceSends(t), UNCHANGED pruned PROVE HostInv'
<1> DEFINE f == Sending(engine, t)
           how == IF t \in f.outbox THEN "pending" ELSE "sent"
<1>1. /\ engine.recorded = disk.recorded /\ RowTypes(rows)
      /\ engine \in Engines /\ disk \in Engines /\ Alike(engine, disk)
      /\ engine.recorded \subseteq engine.opened
      /\ given \subseteq Incoming \cup Own /\ lost \subseteq Incoming \cup Own
      /\ ServiceHas(engine, rows, seen \ pruned, given, lost) /\ Service
  BY ServiceFacts DEF ServiceSends
<1>2. disk' = f /\ loaded /\ seen' = seen
  BY DEF ServiceSends
<1>3. /\ f \in Engines /\ f.known = engine.known /\ f.recorded = engine.recorded
      /\ f.opened = engine.opened /\ f.waiting = engine.waiting
      /\ f.texts = engine.texts \cup {t}
      /\ engine.outbox \subseteq f.outbox /\ f.outbox \subseteq engine.outbox \cup {t}
  BY <1>1, SendingTypes
<1>4. Alike(f, f)
  BY <1>1, <1>3 DEF Alike
<1>5. CASE /\ engine' = disk'
           /\ rows' = Inserted(rows, {t}, IF t \in disk'.outbox THEN "pending" ELSE "sent")
           /\ given' = given \cup ({t} \ disk'.outbox)
           /\ Goes /\ UNCHANGED <<loaded, asked, live, lost>>
  <2> DEFINE n == Inserted(rows, {t}, how)
             g == given \cup ({t} \ f.outbox)
  <2>1. engine' = f /\ rows' = n /\ given' = g /\ lost' = lost /\ loaded' = TRUE
    BY <1>2, <1>5 DEF HostInv, HostTypes
  <2>2. how \in {"pending", "sent"} /\ (how = "pending" <=> t \in f.outbox)
    OBVIOUS
  <2> HIDE DEF f, how
  <2>3. /\ RowTypes(n) /\ \A m \in Incoming : n[m] = rows[m]
        /\ \A u \in Own : n[u] = IF u = t /\ rows[u] = "none" THEN how ELSE rows[u]
    BY <1>1, <2>2, HostAssumption DEF RowTypes, Inserted, HostAssumption
  <2> HIDE DEF n
  <2>4. \A m \in f.opened \ lost : m \in f.recorded \/ n[m] = "received"
    BY <1>1, <1>3, <2>3 DEF ServiceHas, Engines
  <2>5. (seen \ pruned) \cap Incoming \subseteq f.waiting \cup f.opened \cup lost
    BY <1>1, <1>3 DEF ServiceHas
  <2>6. TrueRows(f, n, g, lost)
    BY <1>1, <1>3, <2>2, <2>3 DEF ServiceHas, TrueRows
  <2>7. ServiceHas(f, rows', seen' \ pruned', given', lost')
    BY <1>2, <2>1, <2>4, <2>5, <2>6 DEF ServiceHas
  <2>8. given' \subseteq Incoming \cup Own /\ RowTypes(rows')
    BY <1>1, <2>1, <2>3
  <2>q. QED BY <1>1, <1>2, <1>3, <1>4, <2>1, <2>7, <2>8, ServiceKeeps
<1>6. CASE EndsHere /\ lost' = lost \cup {t} /\ UNCHANGED <<rows, given>>
  <2>1. engine' = f /\ rows' = rows /\ given' = given /\ lost' = lost \cup {t} /\ loaded' = FALSE
    BY <1>2, <1>6 DEF EndsHere
  <2> HIDE DEF f
  <2>2. \A m \in f.opened \ (lost \cup {t}) : m \in f.recorded \/ rows[m] = "received"
    BY <1>1, <1>3 DEF ServiceHas
  <2>3. (seen \ pruned) \cap Incoming \subseteq f.waiting \cup f.opened \cup (lost \cup {t})
    BY <1>1, <1>3 DEF ServiceHas
  <2>4. TrueRows(f, rows, given, lost \cup {t})
    BY <1>1, <1>3 DEF ServiceHas, TrueRows
  <2>5. ServiceHas(f, rows', seen' \ pruned', given', lost')
    BY <1>2, <2>1, <2>2, <2>3, <2>4 DEF ServiceHas
  <2>6. lost' \subseteq Incoming \cup Own
    BY <1>1, <2>1
  <2>q. QED BY <1>1, <1>2, <1>3, <1>4, <2>1, <2>5, <2>6, ServiceKeeps
<1>q. QED BY <1>5, <1>6 DEF ServiceSends

LEMMA ActivateKeeps == ASSUME HostInv, Activate PROVE HostInv'
<1>1. /\ Service /\ engine' = Started(disk) /\ disk' = Started(disk) /\ loaded' \in BOOLEAN
      /\ pruned' = pruned \cup (disk.waiting \ Started(disk).waiting)
      /\ lost' = lost \cup (engine.waiting \ disk.waiting) /\ UNCHANGED <<rows, seen, given>>
  BY DEF Activate, Starts
<1>2. disk \in Engines
  BY DEF HostInv, HostTypes
<1>q. QED BY <1>1, <1>2, StartedTypes, ReloadKeeps

LEMMA ServiceEndsKeeps == ASSUME HostInv, ServiceEnds, UNCHANGED pruned PROVE HostInv'
<1>1. /\ Service /\ engine' = disk /\ disk' = disk /\ loaded' \in BOOLEAN
      /\ lost' = lost \cup (engine.waiting \ disk.waiting) /\ UNCHANGED <<rows, seen, given>>
  BY DEF ServiceEnds, EndsHere
<1>2. disk \in Engines
  BY DEF HostInv, HostTypes
<1>q. QED BY <1>1, <1>2, ReloadKeeps

LEMMA OpenThreadKeeps == ASSUME HostInv, OpenThread, UNCHANGED pruned PROVE HostInv'
<1>1. /\ Service /\ loaded /\ UNCHANGED <<loaded, engine, disk, rows, seen, given, lost>>
  BY DEF OpenThread
<1>2. /\ engine.recorded = disk.recorded /\ RowTypes(rows)
      /\ engine \in Engines /\ disk \in Engines /\ Alike(engine, disk)
      /\ given \subseteq Incoming \cup Own /\ lost \subseteq Incoming \cup Own
      /\ ServiceHas(engine, rows, seen \ pruned, given, lost)
  BY <1>1, ServiceFacts
<1>3. loaded' = TRUE
  BY <1>1 DEF HostInv, HostTypes
<1>q. QED BY <1>1, <1>2, <1>3, ServiceKeeps

-----------------------------------------------------------------------------

LEMMA RestKeeps == ASSUME HostInv, UNCHANGED hostVars PROVE HostInv'
<1>1. UNCHANGED <<host, loaded, engine, disk, rows, seen, queue, asked, live, handed, given, lost,
                  pruned, behind>>
  BY DEF hostVars
<1>2. \A kind : QueuedAs(kind)' = QueuedAs(kind)
  BY <1>1 DEF QueuedAs
<1>3. HostTypes'
  BY <1>1 DEF HostInv, HostTypes
<1>4. OpenedIsKept' /\ ToldOnce' /\ SeenIsKnown' /\ RowsAreTrue'
  BY <1>1, <1>2 DEF HostInv, OpenedIsKept, ToldOnce, SeenIsKnown, RowsAreTrue
<1>5. ToldPart' <=> ToldPart
  BY <1>1, <1>2 DEF ToldPart
<1>6. ServicePart' /\ HandlePart'
  BY <1>1, <1>5 DEF HostInv, ServicePart, HandlePart, AskedPart
<1>q. QED BY <1>1, <1>3, <1>4, <1>6 DEF HostInv

LEMMA HostStepKeeps == HostInv /\ [HostNext]_hostVars => HostInv'
<1> SUFFICES ASSUME HostInv, [HostNext]_hostVars PROVE HostInv'
  OBVIOUS
<1>1. CASE Activate
  BY <1>1, ActivateKeeps
<1>2. CASE OpenThread /\ UNCHANGED pruned
  BY <1>2, OpenThreadKeeps
<1>3. CASE ServiceEnds /\ UNCHANGED pruned
  BY <1>3, ServiceEndsKeeps
<1>4. CASE HandleInits
  BY <1>4, InitsKeeps
<1>5. CASE Drain
  BY <1>5, DrainKeeps
<1>6. CASE HandleEnds
  BY <1>6, EndsKeeps
<1>7. ASSUME NEW m \in Incoming, ServiceReceives(m) \/ HandleReceives(m), UNCHANGED pruned
      PROVE  HostInv'
  BY <1>7, ServiceReceivesKeeps, ReceivesKeeps
<1>8. ASSUME NEW t \in Own, ServiceSends(t) \/ HandleSends(t), UNCHANGED pruned
      PROVE  HostInv'
  BY <1>8, ServiceSendsKeeps, SendsKeeps
<1>9. ASSUME NEW p \in Peers, HandleAccepts(p) \/ HandleHears(p) PROVE HostInv'
  BY <1>9, AcceptsKeeps, HearsKeeps
<1>10. ASSUME NEW h \in Peers \X Hearings, ServiceHears(h), UNCHANGED pruned
       PROVE  HostInv'
  BY <1>10, ServiceHearsKeeps
<1>11. CASE UNCHANGED hostVars
  BY <1>11, RestKeeps
<1>q. QED
  BY <1>1, <1>2, <1>3, <1>4, <1>5, <1>6, <1>7, <1>8, <1>9, <1>10, <1>11
  DEF HostNext, HostCall

LEMMA HostInvGives == HostInv => HostsAgree
<1> SUFFICES ASSUME HostInv PROVE HostsAgree
  OBVIOUS
<1>1. OpenedIsKept /\ ToldOnce /\ SeenIsKnown /\ RowsAreTrue /\ HostTypes
  BY DEF HostInv
<1>2. SubscriptionFollows
  <2> SUFFICES ASSUME host # "service", loaded, behind = "no"
               PROVE  Follows(live, queue) = engine.known
    BY DEF SubscriptionFollows
  <2>1. AskedPart
    BY DEF HostInv, HandlePart
  <2>q. QED BY <2>1 DEF AskedPart
<1>q. QED BY <1>1, <1>2 DEF HostsAgree

\* Between calls the direct message service, or a handle given to another language, agrees
\* with its engine on every message, text and on whom to subscribe to: what a retry, a
\* drain or the end of the process makes away with is only what it had in its hands; what a
\* start drops is a message whose sender it does not know.
THEOREM EngineAndHost == HostSpec => []HostsAgree
<1>1. HostSpec => []HostInv
  BY HostStarts, HostStepKeeps, PTL DEF HostSpec
<1>q. QED BY <1>1, HostInvGives, PTL
=============================================================================
