----------------------- MODULE ProtocolInboundProofs -----------------------
(***************************************************************************)
(* What ProtocolInbound promises for any events, senders, refusals and     *)
(* failures: its type invariant, that what was decrypted as it arrived is   *)
(* not lost, and that what waits has not been marked as seen.              *)
(* The second half is about NearbyMailbag, the other way by which events   *)
(* come in, which shares no state with the engine: that neighbours agree.  *)
(* It rests on the inductive invariant MailInv.                            *)
(***************************************************************************)
EXTENDS ProtocolInbound, NearbyMailbag, FiniteSetTheorems, SequenceTheorems,
        WellFoundedInduction, TLAPS

\* DecryptedIsKept is about the engine's store; it is preserved because the
\* engine's memory keeps the same promise, because deliveries are shown before
\* anything is saved, and because the app's save is complete when the engine
\* forgets them.
EngineKeeps == engine.used \ late \subseteq saved.shown \cup engine.deliveries

Handed ==
    /\ phase # "down" => engine.deliveries \ late \subseteq app.shown
    /\ saved.shown \subseteq app.shown /\ saved.seen \subseteq app.seen

SaveIsComplete == phase = "saved" => app.shown \subseteq saved.shown

\* WaitingIsUnseen is about memory; after a crash it is about the stores, which
\* are written at different times.
Unseen(e, a) == e.pending \cap a.seen \subseteq a.shown \cup Broken \cup late

QueuesUnseen ==
    /\ Unseen(engine, app) /\ Unseen(engine, saved)
    /\ Unseen(disk, app) /\ Unseen(disk, saved)

IInv ==
    TypeOK /\ DecryptedIsKept /\ EngineKeeps /\ Handed /\ SaveIsComplete /\ QueuesUnseen

\* A step that keeps the invariant; its parts hidden behind a name.
KeepsInv == IInv'

-----------------------------------------------------------------------------
(* The retry, for any state a handler may call it in.                      *)

\* What the caller of a retry has seen to: e and a are of their types, a shows
\* what is saved, and e's used keys are safe once a's texts have their rows.
Prepared(e, a) ==
    /\ e \in EngineType /\ a \in AppType
    /\ saved.shown \subseteq a.shown /\ saved.seen \subseteq a.seen
    /\ Unseen(e, a) /\ Unseen(e, saved) /\ Unseen(disk, a) /\ Unseen(disk, saved)
    /\ e.used \ late \subseteq saved.shown \cup (a.shown \cap Rows) \cup e.deliveries

\* Where the retry leaves the batch.
OpenNext == phase' = "open" /\ direct' \in BOOLEAN /\ unsaved' \in BOOLEAN

LEMMA RetryWorksKeeps ==
    ASSUME IInv, OpenNext,
           NEW e, NEW a, Prepared(e, a),
           NEW wrote \in BOOLEAN, NEW D \in SUBSET e.pending,
           RetryWorks(e, wrote, a, D)
    PROVE  KeepsInv
<1> DEFINE M    == {x \in D : Opens(e, x)}
           next == [e EXCEPT !.used = @ \cup M, !.pending = @ \ M]
           bare == [next EXCEPT !.pending = {}]
           all  == M \cup e.deliveries
<1>1. e.used \in SUBSET Events /\ e.pending \in SUBSET Events
      /\ e.deliveries \in SUBSET Events
      /\ e.peers \in [Senders -> {"unknown", "claimed", "ready"}]
  BY DEF Prepared, EngineType
<1>2. a.shown \in SUBSET Events /\ a.seen \in SUBSET Events
  BY DEF Prepared, AppType
<1>3. M \subseteq Events
  BY <1>1
<1>4. next \in EngineType /\ next.used = e.used \cup M
      /\ next.deliveries = e.deliveries /\ next.pending = e.pending \ M
  BY <1>1, <1>3 DEF Prepared, EngineType
<1>5. bare \in EngineType /\ bare.used = e.used \cup M
      /\ bare.deliveries = e.deliveries /\ bare.pending = {}
  BY <1>4 DEF EngineType
<1>6. /\ engine' = next /\ late' = late \cup (M \ Rows)
      /\ disk' \in {bare, e, disk}
      /\ dirty' \in BOOLEAN
      /\ app' = [shown |-> a.shown \cup all, seen |-> a.seen \cup all]
      /\ saved' = [saved EXCEPT !.shown = @ \cup ((a.shown \cup all) \cap Rows)]
  BY DEF RetryWorks, Written, Deferred, AppBecomes, Apply, IInv, TypeOK
<1> HIDE DEF next, bare
<1>7. /\ saved'.shown = saved.shown \cup ((a.shown \cup all) \cap Rows)
      /\ saved'.seen = saved.seen /\ saved' \in AppType
  BY <1>1, <1>2, <1>3, <1>6 DEF IInv, TypeOK, AppType
<1>8. app'.shown = a.shown \cup all /\ app'.seen = a.seen \cup all /\ app' \in AppType
  BY <1>1, <1>2, <1>3, <1>6 DEF AppType
<1>9. TypeOK'
  BY <1>3, <1>4, <1>5, <1>6, <1>7, <1>8 DEF IInv, TypeOK, OpenNext, Phases, Prepared
<1>10. EngineKeeps'
  BY <1>4, <1>6, <1>7 DEF EngineKeeps, Prepared
<1>11. DecryptedIsKept'
  <2>1. CASE disk' = bare
    BY <2>1, <1>5, <1>6, <1>7 DEF DecryptedIsKept, Prepared
  <2>2. CASE disk' = e
    BY <2>2, <1>6, <1>7 DEF DecryptedIsKept, Prepared
  <2>3. CASE disk' = disk
    BY <2>3, <1>6, <1>7 DEF DecryptedIsKept, IInv
  <2> QED
    BY <1>6, <2>1, <2>2, <2>3
<1>12. Handed'
  BY <1>4, <1>6, <1>7, <1>8 DEF Handed, Prepared
<1>13. SaveIsComplete'
  BY DEF SaveIsComplete, OpenNext
<1>14. QueuesUnseen'
  <2>1. Unseen(engine, app)' /\ Unseen(engine, saved)'
    BY <1>4, <1>6, <1>7, <1>8 DEF Prepared, Unseen
  <2>2. Unseen(disk, app)' /\ Unseen(disk, saved)'
    <3>1. CASE disk' = bare
      BY <3>1, <1>5 DEF Unseen
    <3>2. CASE disk' = e
      BY <3>2, <1>6, <1>7, <1>8 DEF Prepared, Unseen
    <3>3. CASE disk' = disk
      BY <3>3, <1>6, <1>7, <1>8 DEF Prepared, Unseen
    <3> QED
      BY <1>6, <3>1, <3>2, <3>3
  <2> QED
    BY <2>1, <2>2 DEF QueuesUnseen
<1> QED
  BY <1>9, <1>10, <1>11, <1>12, <1>13, <1>14 DEF KeepsInv, IInv

\* A retry that breaks: what it decrypted and what it had collected are late.
LEMMA RetryBreaksKeeps ==
    ASSUME IInv, OpenNext,
           NEW e, NEW a, Prepared(e, a),
           NEW wrote \in BOOLEAN, NEW D \in SUBSET e.pending,
           RetryBreaks(e, wrote, a, D)
    PROVE  KeepsInv
<1>1. PICK M \in SUBSET {x \in D : Opens(e, x)} :
          LET next == [e EXCEPT !.used = @ \cup M, !.pending = {}]
          IN  /\ engine' = next /\ late' = late \cup M \cup e.deliveries
              /\ disk' = IF direct' /\ M # {} THEN next ELSE Written(e, wrote)
              /\ Deferred(wrote \/ M # {})
              /\ AppBecomes(a)
  BY DEF RetryBreaks
<1> DEFINE next == [e EXCEPT !.used = @ \cup M, !.pending = {}]
<1>2. e.used \in SUBSET Events /\ e.pending \in SUBSET Events
      /\ e.deliveries \in SUBSET Events /\ M \in SUBSET Events
  BY DEF Prepared, EngineType
<1>3. next \in EngineType /\ next.used = e.used \cup M
      /\ next.deliveries = e.deliveries /\ next.pending = {}
  BY <1>2 DEF Prepared, EngineType
<1>4. /\ engine' = next /\ late' = late \cup M \cup e.deliveries
      /\ disk' \in {next, e, disk} /\ dirty' \in BOOLEAN
      /\ app' = a /\ saved' = [saved EXCEPT !.shown = @ \cup (a.shown \cap Rows)]
  BY <1>1 DEF Written, Deferred, AppBecomes, IInv, TypeOK
<1> HIDE DEF next
<1>5. /\ saved'.shown = saved.shown \cup (a.shown \cap Rows)
      /\ saved'.seen = saved.seen /\ saved' \in AppType
  BY <1>4 DEF IInv, TypeOK, AppType, Prepared
<1>6. TypeOK'
  BY <1>2, <1>3, <1>4, <1>5 DEF IInv, TypeOK, OpenNext, Phases, Prepared
<1>7. EngineKeeps' /\ Handed'
  BY <1>3, <1>4, <1>5 DEF EngineKeeps, Handed, Prepared
<1>8. DecryptedIsKept'
  <2>1. CASE disk' = next
    BY <2>1, <1>3, <1>4, <1>5 DEF DecryptedIsKept, Prepared
  <2>2. CASE disk' = e
    BY <2>2, <1>4, <1>5 DEF DecryptedIsKept, Prepared
  <2>3. CASE disk' = disk
    BY <2>3, <1>4, <1>5 DEF DecryptedIsKept, IInv
  <2> QED
    BY <1>4, <2>1, <2>2, <2>3
<1>9. SaveIsComplete'
  BY DEF SaveIsComplete, OpenNext
<1>10. QueuesUnseen'
  <2>1. Unseen(engine, app)' /\ Unseen(engine, saved)'
    BY <1>3, <1>4 DEF Unseen
  <2>2. CASE disk' = next
    BY <2>1, <2>2, <1>3 DEF QueuesUnseen, Unseen
  <2>3. CASE disk' = e
    BY <2>1, <2>3, <1>4, <1>5 DEF QueuesUnseen, Prepared, Unseen
  <2>4. CASE disk' = disk
    BY <2>1, <2>4, <1>4, <1>5 DEF QueuesUnseen, Prepared, Unseen
  <2> QED
    BY <1>4, <2>2, <2>3, <2>4
<1> QED
  BY <1>6, <1>7, <1>8, <1>9, <1>10 DEF KeepsInv, IInv

\* Nothing due, a retry that ends well, or one that breaks.
LEMMA RetryIfDueKeeps ==
    ASSUME IInv, OpenNext,
           NEW e, NEW a, Prepared(e, a),
           NEW wrote \in BOOLEAN, NEW D \in SUBSET e.pending,
           RetryIfDue(e, wrote, a, D)
    PROVE  KeepsInv
<1>1. CASE e.pending = {} /\ e.deliveries = {}
  <2>1. /\ engine' = e /\ late' = late /\ disk' \in {e, disk} /\ dirty' \in BOOLEAN
        /\ app' = a /\ saved' = [saved EXCEPT !.shown = @ \cup (a.shown \cap Rows)]
    BY <1>1 DEF RetryIfDue, Written, Deferred, AppBecomes, IInv, TypeOK
  <2>2. /\ saved'.shown = saved.shown \cup (a.shown \cap Rows)
        /\ saved'.seen = saved.seen /\ saved' \in AppType
    BY <2>1 DEF IInv, TypeOK, AppType, Prepared
  <2>3. TypeOK'
    BY <2>1, <2>2 DEF IInv, TypeOK, OpenNext, Phases, Prepared
  <2>4. EngineKeeps'
    BY <2>1, <2>2 DEF EngineKeeps, Prepared
  <2>5. DecryptedIsKept'
    <3>1. CASE disk' = e
      BY <3>1, <2>1, <2>2 DEF DecryptedIsKept, Prepared
    <3>2. CASE disk' = disk
      BY <3>2, <2>1, <2>2 DEF DecryptedIsKept, IInv
    <3> QED
      BY <2>1, <3>1, <3>2
  <2>6. Handed'
    BY <1>1, <2>1, <2>2 DEF Handed, Prepared
  <2>7. SaveIsComplete'
    BY DEF SaveIsComplete, OpenNext
  <2>8. QueuesUnseen'
    <3>1. CASE disk' = e
      BY <3>1, <2>1, <2>2 DEF QueuesUnseen, Unseen, Prepared
    <3>2. CASE disk' = disk
      BY <3>2, <2>1, <2>2 DEF QueuesUnseen, Unseen, Prepared
    <3> QED
      BY <2>1, <3>1, <3>2
  <2> QED
    BY <2>3, <2>4, <2>5, <2>6, <2>7, <2>8 DEF KeepsInv, IInv
<1>2. CASE RetryWorks(e, wrote, a, D)
  BY <1>2, RetryWorksKeeps
<1>3. CASE RetryBreaks(e, wrote, a, D)
  BY <1>3, RetryBreaksKeeps
<1> QED
  BY <1>1, <1>2, <1>3 DEF RetryIfDue

-----------------------------------------------------------------------------
(* The steps.                                                              *)

LEMMA InitIInv == Init => IInv
<1> SUFFICES ASSUME Init PROVE IInv
  OBVIOUS
<1>1. engine \in EngineType /\ engine.used = {} /\ engine.deliveries = {}
      /\ engine.pending = {}
  BY DEF Init, EngineType
<1>2. app \in AppType /\ app.shown = {}
  BY DEF Init, AppType
<1>3. disk = engine /\ saved = app /\ phase = "idle" /\ late = {}
      /\ dirty = FALSE /\ direct = FALSE /\ unsaved = FALSE
  BY DEF Init
<1>4. TypeOK
  BY <1>1, <1>2, <1>3 DEF TypeOK, Phases
<1> QED
  BY <1>1, <1>2, <1>3, <1>4
     DEF IInv, DecryptedIsKept, EngineKeeps, Handed, SaveIsComplete, QueuesUnseen, Unseen

LEMMA ReceiveOpensStep ==
    ASSUME IInv, NEW x \in Events, ReceiveOpens(x)
    PROVE  KeepsInv
<1> DEFINE e == [engine EXCEPT !.used = @ \cup {x}, !.deliveries = @ \cup {x}]
           a == Apply(app, {x})
<1>1. OpenNext /\ phase # "down"
  BY DEF ReceiveOpens, InBatch, OpenNext, IInv, TypeOK
<1>2. /\ engine.used \in SUBSET Events /\ engine.deliveries \in SUBSET Events
      /\ engine \in EngineType
  BY DEF IInv, TypeOK, EngineType
<1>3. e \in EngineType /\ e.used = engine.used \cup {x}
      /\ e.deliveries = engine.deliveries \cup {x} /\ e.pending = engine.pending
  BY <1>2 DEF EngineType
<1>4. a \in AppType /\ a.shown = app.shown \cup {x} /\ a.seen = app.seen \cup {x}
  BY DEF IInv, TypeOK, AppType, Apply
<1>5. PICK D \in SUBSET e.pending : RetryIfDue(e, TRUE, a, D)
  BY DEF ReceiveOpens
<1> HIDE DEF e, a
<1>6. Prepared(e, a)
  BY <1>1, <1>3, <1>4 DEF Prepared, IInv, EngineKeeps, Handed, QueuesUnseen, Unseen
<1> QED
  BY <1>1, <1>5, <1>6, RetryIfDueKeeps

LEMMA ReceiveWaitsStep ==
    ASSUME IInv, NEW x \in Events, ReceiveWaits(x)
    PROVE  KeepsInv
<1>1. /\ phase # "down" /\ phase' = "open" /\ direct' = direct /\ unsaved' = TRUE
      /\ x \notin app.seen
      /\ app' = app /\ saved' = saved /\ late' = late
      /\ engine' = [engine EXCEPT !.pending = @ \cup {x}]
      /\ disk' \in {engine', disk} /\ dirty' \in BOOLEAN
  BY DEF ReceiveWaits, InBatch, Written, Deferred, IInv, TypeOK
<1>2. engine' \in EngineType /\ engine'.used = engine.used
      /\ engine'.deliveries = engine.deliveries /\ engine'.pending = engine.pending \cup {x}
  BY <1>1 DEF IInv, TypeOK, EngineType
<1>3. TypeOK'
  BY <1>1, <1>2 DEF IInv, TypeOK, Phases
<1>4. EngineKeeps' /\ Handed' /\ SaveIsComplete'
  BY <1>1, <1>2 DEF IInv, EngineKeeps, Handed, SaveIsComplete
<1>5. DecryptedIsKept'
  BY <1>1, <1>2 DEF IInv, EngineKeeps, DecryptedIsKept
<1>6. QueuesUnseen'
  BY <1>1, <1>2 DEF IInv, QueuesUnseen, Unseen, Handed
<1> QED
  BY <1>3, <1>4, <1>5, <1>6 DEF KeepsInv, IInv

\* What the ratchet of a known sender turns down is broken, or has been opened:
\* then it is shown, or an error took it.
LEMMA ReceiveFailsStep ==
    ASSUME IInv, NEW x \in Events, ReceiveFails(x)
    PROVE  KeepsInv
<1>1. /\ phase # "down" /\ phase' = "open" /\ direct' = direct /\ unsaved' = unsaved
      /\ engine' = engine /\ disk' = disk /\ dirty' = dirty /\ saved' = saved
      /\ late' = late /\ app' = [app EXCEPT !.seen = @ \cup {x}]
      /\ x \in engine.used \cup Broken
  BY DEF ReceiveFails, InBatch, Opens
<1>2. app' \in AppType /\ app'.shown = app.shown /\ app'.seen = app.seen \cup {x}
  BY <1>1 DEF IInv, TypeOK, AppType
<1>3. x \in app.shown \cup Broken \cup late
  BY <1>1 DEF IInv, EngineKeeps, Handed
<1>4. TypeOK'
  BY <1>1, <1>2 DEF IInv, TypeOK, Phases
<1>5. EngineKeeps' /\ Handed' /\ SaveIsComplete' /\ DecryptedIsKept'
  BY <1>1, <1>2 DEF IInv, EngineKeeps, Handed, SaveIsComplete, DecryptedIsKept
<1>6. QueuesUnseen'
  BY <1>1, <1>2, <1>3 DEF IInv, QueuesUnseen, Unseen
<1> QED
  BY <1>4, <1>5, <1>6 DEF KeepsInv, IInv

LEMMA ProtocolInputStep ==
    ASSUME IInv, NEW s \in Senders, NEW state \in {"claimed", "ready"},
           ProtocolInput(s, state)
    PROVE  KeepsInv
<1> DEFINE e == [engine EXCEPT !.peers[s] = state]
<1>1. OpenNext /\ phase # "down"
  BY DEF ProtocolInput, InBatch, OpenNext, IInv, TypeOK
<1>2. e \in EngineType /\ e.used = engine.used /\ e.deliveries = engine.deliveries
      /\ e.pending = engine.pending
  BY DEF IInv, TypeOK, EngineType
<1>3. PICK D \in SUBSET e.pending :
          RetryWorks(e, TRUE, app, D) \/ RetryBreaks(e, TRUE, app, D)
  BY DEF ProtocolInput
<1> HIDE DEF e
<1>4. Prepared(e, app)
  BY <1>1, <1>2 DEF Prepared, IInv, TypeOK, EngineKeeps, Handed, QueuesUnseen, Unseen
<1> QED
  BY <1>1, <1>3, <1>4, RetryWorksKeeps, RetryBreaksKeeps

LEMMA RetryDueStep ==
    ASSUME IInv, NEW D \in SUBSET Events, RetryDue(D)
    PROVE  KeepsInv
<1>1. OpenNext /\ phase # "down" /\ D \in SUBSET engine.pending
  BY DEF RetryDue, InBatch, OpenNext, IInv, TypeOK
<1>2. Prepared(engine, app)
  BY <1>1 DEF Prepared, IInv, TypeOK, EngineKeeps, Handed, QueuesUnseen
<1>3. RetryWorks(engine, FALSE, app, D) \/ RetryBreaks(engine, FALSE, app, D)
  BY DEF RetryDue
<1> QED
  BY <1>1, <1>2, <1>3, RetryWorksKeeps, RetryBreaksKeeps

LEMMA OtherWorkStep ==
    ASSUME IInv, NEW wrote \in BOOLEAN, NEW touched \in BOOLEAN,
           OtherWork(wrote, touched)
    PROVE  KeepsInv
<1>1. /\ phase # "down" /\ phase' = "open" /\ direct' = direct /\ unsaved' \in BOOLEAN
      /\ engine' = engine /\ app' = app /\ saved' = saved /\ late' = late
      /\ disk' \in {engine, disk} /\ dirty' \in BOOLEAN
  BY DEF OtherWork, InBatch, Written, Deferred, IInv, TypeOK
<1> QED
  BY <1>1 DEF KeepsInv, IInv, TypeOK, Phases, EngineKeeps, Handed,
              SaveIsComplete, DecryptedIsKept, QueuesUnseen, Unseen

LEMMA FlushEngineStep ==
    ASSUME IInv, NEW ok \in BOOLEAN, FlushEngine(ok)
    PROVE  KeepsInv
<1>1. /\ phase # "down" /\ phase' = "flushed" /\ direct' = direct /\ unsaved' = unsaved
      /\ engine' = engine /\ app' = app /\ saved' = saved /\ late' = late
      /\ disk' \in {engine, disk} /\ dirty' = FALSE
  BY DEF FlushEngine
<1> QED
  BY <1>1 DEF KeepsInv, IInv, TypeOK, Phases, EngineKeeps, Handed,
              SaveIsComplete, DecryptedIsKept, QueuesUnseen, Unseen

\* The app's save takes in all that memory shows, and memory shows every delivery.
LEMMA SaveAppStep ==
    ASSUME IInv, NEW ok \in BOOLEAN, SaveApp(ok)
    PROVE  KeepsInv
<1>1. /\ phase = "flushed" /\ engine' = engine /\ app' = app /\ disk' = disk
      /\ dirty' = dirty /\ late' = late /\ unsaved' = FALSE
      /\ \/ phase' = "saved" /\ saved' = app
         \/ phase' = "idle" /\ saved' = saved
      /\ direct' \in BOOLEAN /\ (phase' = "idle" => direct' = FALSE)
  BY DEF SaveApp, IInv, TypeOK
<1>2. saved.shown \subseteq saved'.shown
  BY <1>1 DEF IInv, Handed
<1> QED
  BY <1>1, <1>2 DEF KeepsInv, IInv, TypeOK, Phases, EngineKeeps, Handed,
                    SaveIsComplete, DecryptedIsKept, QueuesUnseen, Unseen

\* The engine may forget its deliveries: the save before had all of them.
LEMMA AcknowledgeStep ==
    ASSUME IInv, NEW ok \in BOOLEAN, Acknowledge(ok)
    PROVE  KeepsInv
<1>1. /\ phase = "saved" /\ phase' = "idle" /\ direct' = FALSE
      /\ dirty' = dirty /\ app' = app /\ saved' = saved /\ unsaved' = unsaved
      /\ late' = late /\ disk' \in {engine', disk}
      /\ engine' = [engine EXCEPT !.deliveries = {}]
  BY DEF Acknowledge
<1>2. engine' \in EngineType /\ engine'.used = engine.used /\ engine'.deliveries = {}
      /\ engine'.pending = engine.pending
  BY <1>1 DEF IInv, TypeOK, EngineType
<1>3. engine.deliveries \ late \subseteq saved.shown
  BY <1>1 DEF IInv, Handed, SaveIsComplete
<1>4. EngineKeeps' /\ Handed' /\ SaveIsComplete'
  BY <1>1, <1>2, <1>3 DEF IInv, EngineKeeps, Handed, SaveIsComplete
<1>5. DecryptedIsKept'
  BY <1>1, <1>2, <1>4 DEF IInv, EngineKeeps, DecryptedIsKept
<1>6. TypeOK'
  BY <1>1, <1>2 DEF IInv, TypeOK, Phases
<1>7. QueuesUnseen'
  BY <1>1, <1>2 DEF IInv, QueuesUnseen, Unseen
<1> QED
  BY <1>4, <1>5, <1>6, <1>7 DEF KeepsInv, IInv

LEMMA CrashStep ==
    ASSUME IInv, Crash
    PROVE  KeepsInv
BY DEF Crash, KeepsInv, IInv, TypeOK, Phases, EngineKeeps, Handed,
       SaveIsComplete, DecryptedIsKept, QueuesUnseen, Unseen

LEMMA RestartStep ==
    ASSUME IInv, Restart
    PROVE  KeepsInv
<1> DEFINE known == {x \in disk.pending : disk.peers[Sender[x]] # "unknown"}
           e     == [disk EXCEPT !.pending = known]
<1>1. OpenNext
  BY DEF Restart, OpenNext
<1>2. e \in EngineType /\ e.used = disk.used /\ e.deliveries = disk.deliveries
      /\ e.pending = known /\ known \subseteq disk.pending
  BY DEF IInv, TypeOK, EngineType
<1>3. \E D \in SUBSET known : RetryIfDue(e, TRUE, saved, D)
  BY DEF Restart
<1> HIDE DEF e, known
<1>4. Prepared(e, saved)
  BY <1>2 DEF Prepared, IInv, TypeOK, DecryptedIsKept, QueuesUnseen, Unseen
<1>5. PICK D \in SUBSET e.pending : RetryIfDue(e, TRUE, saved, D)
  BY <1>2, <1>3
<1> QED
  BY <1>1, <1>4, <1>5, RetryIfDueKeeps

LEMMA NextIInv ==
    ASSUME IInv, [Next]_vars
    PROVE  KeepsInv
<1>1. CASE UNCHANGED vars
  BY <1>1 DEF vars, KeepsInv, IInv, TypeOK, EngineKeeps, Handed,
              SaveIsComplete, DecryptedIsKept, QueuesUnseen, Unseen
<1>2. ASSUME NEW x \in Events, Receive(x)
      PROVE  KeepsInv
  BY <1>2, ReceiveOpensStep, ReceiveWaitsStep, ReceiveFailsStep DEF Receive
<1>3. ASSUME NEW s \in Senders, NEW state \in {"claimed", "ready"}, ProtocolInput(s, state)
      PROVE  KeepsInv
  BY <1>3, ProtocolInputStep
<1>4. ASSUME NEW D \in SUBSET Events, RetryDue(D)
      PROVE  KeepsInv
  BY <1>4, RetryDueStep
<1>5. ASSUME NEW wrote \in BOOLEAN, NEW touched \in BOOLEAN, OtherWork(wrote, touched)
      PROVE  KeepsInv
  BY <1>5, OtherWorkStep
<1>6. CASE EndOfBatch
  BY <1>6, FlushEngineStep, SaveAppStep, AcknowledgeStep DEF EndOfBatch
<1>7. CASE Crash
  BY <1>7, CrashStep
<1>8. CASE Restart
  BY <1>8, RestartStep
<1> QED
  BY <1>1, <1>2, <1>3, <1>4, <1>5, <1>6, <1>7, <1>8 DEF Next

-----------------------------------------------------------------------------
(* The theorems.                                                           *)

LEMMA Invariance == Spec => []IInv
<1>1. IInv /\ [Next]_vars => IInv'
  BY NextIInv DEF KeepsInv
<1> QED
  BY InitIInv, <1>1, PTL DEF Spec

\* The stores keep their types and the marks of a batch end with it (projection.rs
\* exit_batch, persistence.rs), whatever the ratchet turns down and how.
THEOREM InboundTypeCorrect == Spec => []TypeOK
<1>1. IInv => TypeOK
  BY DEF IInv
<1> QED
  BY Invariance, <1>1, PTL

\* No crash, no failed write and no error loses a message decrypted as it arrived,
\* or a text (relay.rs handle_relay_event with the engine's delivery journal), but
\* for what a retry had in its hands when it broke.
THEOREM DecryptedNotLost == Spec => []DecryptedIsKept
<1>1. IInv => DecryptedIsKept
  BY DEF IInv
<1> QED
  BY Invariance, <1>1, PTL

\* A waiting message that has been marked as seen (relay.rs remember_event) is
\* shown already or was never to be: otherwise the servers' copy still counts.
THEOREM WaitingNotSeen == Spec => []WaitingIsUnseen
<1>1. IInv => WaitingIsUnseen
  BY DEF IInv, QueuesUnseen, Unseen, WaitingIsUnseen
<1> QED
  BY Invariance, <1>1, PTL

-----------------------------------------------------------------------------
(* The newest of a set of events.                                            *)

Newer(S, e) == {f \in S : StampOf[f] > StampOf[e]}

LEMMA RecordFacts ==
    /\ \A e \in Records : StampOf[e] \in Nat
    /\ \A e, f \in Records : StampOf[e] = StampOf[f] => e = f
    /\ IsFiniteSet(Records) /\ MaxBag \in Nat /\ MaxOffers \in Nat
    /\ Dials \subseteq Services \X Services /\ AtStart \subseteq Dials
    /\ AuthorOf \in [Records -> Services]
BY MailbagAssumption DEF MailbagAssumption

LEMMA NewestIs == \A S, n : Newest(S, n) = {e \in S : Cardinality(Newer(S, e)) < n}
BY DEF Newest, Newer

LEMMA FiniteParts ==
    ASSUME NEW S \in SUBSET Records
    PROVE  IsFiniteSet(S) /\ Cardinality(S) \in Nat
BY RecordFacts, FS_Subset, FS_CardinalityType

LEMMA SmallerPart ==
    ASSUME NEW S \in SUBSET Records, NEW T \in SUBSET S
    PROVE  Cardinality(T) <= Cardinality(S)
BY FiniteParts, FS_Subset

LEMMA NewerTypes ==
    ASSUME NEW S \in SUBSET Records, NEW e
    PROVE  /\ Newer(S, e) \in SUBSET S /\ Newer(S, e) \in SUBSET Records
           /\ Cardinality(Newer(S, e)) \in Nat /\ IsFiniteSet(Newer(S, e))
<1>1. Newer(S, e) \in SUBSET S /\ Newer(S, e) \in SUBSET Records
  BY DEF Newer
<1>q. QED BY <1>1, FiniteParts

\* Fewer events are newer than a newer event.
LEMMA RankRises ==
    ASSUME NEW S \in SUBSET Records, NEW e \in S, NEW f \in S, StampOf[f] < StampOf[e]
    PROVE  Cardinality(Newer(S, e)) < Cardinality(Newer(S, f))
<1>1. StampOf[e] \in Nat /\ StampOf[f] \in Nat /\ \A g \in S : StampOf[g] \in Nat
  BY RecordFacts
<1>2. Newer(S, e) \subseteq Newer(S, f)
  BY <1>1 DEF Newer
<1>3. e \in Newer(S, f) /\ e \notin Newer(S, e)
  BY <1>1 DEF Newer
<1>4. IsFiniteSet(Newer(S, f)) /\ Newer(S, e) \in SUBSET Newer(S, f)
  BY <1>2, NewerTypes
<1>5. /\ Cardinality(Newer(S, e)) <= Cardinality(Newer(S, f))
      /\ Cardinality(Newer(S, e)) # Cardinality(Newer(S, f))
  BY <1>3, <1>4, FS_Subset
<1>q. QED BY <1>5, NewerTypes

LEMMA LeastNumber ==
    ASSUME NEW T \in SUBSET Nat, T # {}
    PROVE  \E k \in T : \A y \in T : k <= y
<1> DEFINE R == {ss \in Nat \X Nat : ss[1] < ss[2]}
<1>1. R = OpToRel(<, Nat)
  BY DEF OpToRel
<1>2. IsWellFoundedOn(R, Nat)
  BY <1>1, NatLessThanWellFounded
<1>3. \A x, y \in Nat : y < x => <<y, x>> \in R
  OBVIOUS
<1> HIDE DEF R
<1>4. PICK k \in T : \A y \in T : <<y, k>> \notin R
  BY <1>2, WFMin
<1>5. ASSUME NEW y \in T PROVE k <= y
  <2>1. ~(y < k)
    BY <1>3, <1>4
  <2>q. QED BY <2>1
<1>q. QED BY <1>5

\* What is kept of a set that is small enough, and of one that is not.
LEMMA KeepsSmall ==
    ASSUME NEW S \in SUBSET Records, NEW n \in Nat, Cardinality(S) <= n
    PROVE  Newest(S, n) = S
<1>1. ASSUME NEW e \in S PROVE Cardinality(Newer(S, e)) < n
  <2>1. Newer(S, e) \in SUBSET S /\ e \notin Newer(S, e)
    BY RecordFacts DEF Newer
  <2>2. /\ Cardinality(Newer(S, e)) <= Cardinality(S)
        /\ Cardinality(S) = Cardinality(Newer(S, e)) => S = Newer(S, e)
    BY <2>1, FiniteParts, FS_Subset
  <2>q. QED BY <2>1, <2>2, FiniteParts, NewerTypes
<1>q. QED BY <1>1, NewestIs

LEMMA KeepsAtMost ==
    ASSUME NEW S \in SUBSET Records, NEW n \in Nat
    PROVE  Cardinality(Newest(S, n)) <= n
<1> DEFINE K == Newest(S, n)
           rank(e) == Cardinality(Newer(S, e))
           T == {n - rank(e) : e \in K}
<1>1. K \in SUBSET S /\ K \in SUBSET Records /\ \A e \in K : rank(e) \in Nat /\ rank(e) < n
  BY NewestIs, NewerTypes
<1>2. CASE K = {}
  BY <1>2, FS_EmptySet
<1>3. CASE K # {}
  <2>1. T \in SUBSET Nat /\ T # {}
    BY <1>1, <1>3
  <2>2. PICK k \in T : \A y \in T : k <= y
    <3> HIDE DEF T
    <3>q. QED BY <2>1, LeastNumber
  <2>3. PICK m \in K : k = n - rank(m)
    BY DEF T
  <2>4. ASSUME NEW e \in K, e # m PROVE e \in Newer(S, m)
    <3>1. StampOf[e] \in Nat /\ StampOf[m] \in Nat /\ StampOf[e] # StampOf[m]
      BY <1>1, <2>4, RecordFacts
    <3>2. ~(StampOf[e] < StampOf[m])
      <4>1. SUFFICES ASSUME StampOf[e] < StampOf[m] PROVE FALSE
        OBVIOUS
      <4>2. rank(m) < rank(e)
        BY <1>1, <4>1, RankRises
      <4>3. n - rank(e) \in T
        OBVIOUS
      <4>4. n - rank(m) <= n - rank(e)
        BY <2>2, <2>3, <4>3
      <4>q. QED BY <1>1, <4>2, <4>4
    <3>q. QED BY <1>1, <3>1, <3>2 DEF Newer
  <2>5. K \ {m} \in SUBSET Newer(S, m)
    BY <2>4
  <2>6. Cardinality(K \ {m}) <= rank(m)
    BY <2>5, NewerTypes, SmallerPart
  <2>7. Cardinality(K \ {m}) = Cardinality(K) - 1 /\ Cardinality(K) \in Nat
    BY <1>1, FiniteParts, FS_RemoveElement
  <2>q. QED BY <1>1, <2>6, <2>7
<1>q. QED BY <1>2, <1>3

LEMMA DropsForNewer ==
    ASSUME NEW S \in SUBSET Records, NEW n \in Nat, NEW g \in S \ Newest(S, n)
    PROVE  /\ Cardinality(Newest(S, n)) >= n
           /\ \A e \in Newest(S, n) : StampOf[e] > StampOf[g]
<1> DEFINE K == Newest(S, n)
           rank(e) == Cardinality(Newer(S, e))
           T == {rank(e) : e \in S \ K}
<1>1. /\ K \in SUBSET S /\ K \in SUBSET Records /\ \A e \in S : rank(e) \in Nat
      /\ \A e \in S : e \in K <=> rank(e) < n
  BY NewestIs, NewerTypes
<1>2. ASSUME NEW e \in K, NEW h \in S \ K PROVE StampOf[e] > StampOf[h]
  <2>1. StampOf[e] \in Nat /\ StampOf[h] \in Nat /\ e # h
    BY <1>1, RecordFacts
  <2>2. StampOf[e] # StampOf[h]
    BY <1>1, <2>1, RecordFacts
  <2>3. ~(StampOf[e] < StampOf[h])
    <3>1. SUFFICES ASSUME StampOf[e] < StampOf[h] PROVE FALSE
      OBVIOUS
    <3>2. rank(h) < rank(e)
      BY <1>1, <3>1, RankRises
    <3>q. QED BY <1>1, <3>2
  <2>q. QED BY <2>1, <2>2, <2>3
<1>3. T \in SUBSET Nat /\ T # {}
  BY <1>1
<1>4. PICK k \in T : \A y \in T : k <= y
  <2> HIDE DEF T
  <2>q. QED BY <1>3, LeastNumber
<1>5. PICK m \in S \ K : k = rank(m)
  OBVIOUS
<1>6. ASSUME NEW e \in Newer(S, m) PROVE e \in K
  <2>1. e \in S /\ StampOf[m] < StampOf[e] /\ StampOf[e] \in Nat /\ StampOf[m] \in Nat
    BY <1>6, RecordFacts DEF Newer
  <2>2. rank(e) < rank(m)
    BY <2>1, RankRises
  <2>3. e \notin S \ K
    <3>1. SUFFICES ASSUME e \in S \ K PROVE FALSE
      OBVIOUS
    <3>2. rank(m) <= rank(e)
      BY <1>4, <1>5, <3>1
    <3>q. QED BY <1>1, <2>1, <2>2, <3>2
  <2>q. QED BY <2>1, <2>3
<1>7. Newer(S, m) \in SUBSET K
  BY <1>6
<1>8. rank(m) <= Cardinality(K) /\ rank(m) >= n
  BY <1>1, <1>7, SmallerPart
<1>9. Cardinality(K) \in Nat
  BY <1>1, FiniteParts
<1>q. QED BY <1>1, <1>2, <1>8, <1>9

LEMMA Apart ==
    ASSUME NEW A \in SUBSET Records, NEW B \in SUBSET Records, A \cap B = {}
    PROVE  Cardinality(A \cup B) = Cardinality(A) + Cardinality(B)
<1>1. IsFiniteSet(A) /\ IsFiniteSet(B) /\ Cardinality(A) \in Nat /\ Cardinality(B) \in Nat
  BY FiniteParts
<1>2. Cardinality(A \cup B) = Cardinality(A) + Cardinality(B) - Cardinality(A \cap B)
  BY <1>1, FS_Union
<1>3. Cardinality(A \cap B) = 0
  BY FS_EmptySet
<1>q. QED BY <1>1, <1>2, <1>3

\* A bag is pruned as something new comes in: of what is left, only what is new can be among
\* the newest now and was not before.
LEMMA StillNewest ==
    ASSUME NEW S \in SUBSET Records, NEW N \in SUBSET Records, NEW T \in SUBSET Records,
           NEW n \in Nat, Cardinality(S) <= MaxBag, S \cap T = {}, N \cap T = {}
    PROVE  Newest(Pruned(S \cup N) \cup T, n) \subseteq Newest(S \cup T, n) \cup N
<1> DEFINE K == Newest(S \cup N, MaxBag)
<1>0. MaxBag \in Nat /\ Pruned(S \cup N) = K
  BY RecordFacts DEF Pruned
<1>1. K \in SUBSET (S \cup N) /\ K \in SUBSET Records
  BY NewestIs
<1>2. SUFFICES ASSUME NEW f \in Newest(K \cup T, n), f \notin N
               PROVE  f \in Newest(S \cup T, n)
  BY <1>0
<1>3. /\ f \in S \cup T /\ f \in K \cup T /\ f \in Records
      /\ Cardinality(Newer(K \cup T, f)) < n
  BY <1>1, <1>2, NewestIs
<1>4. Cardinality(Newer(S \cup T, f)) <= Cardinality(Newer(K \cup T, f))
  <2>1. CASE \A g \in S : StampOf[g] > StampOf[f] => g \in K
    <3>1. Newer(S \cup T, f) \in SUBSET Newer(K \cup T, f) /\ Newer(K \cup T, f) \in SUBSET Records
      BY <1>1, <2>1 DEF Newer
    <3>q. QED BY <3>1, SmallerPart
  <2>2. CASE \E g \in S : StampOf[g] > StampOf[f] /\ g \notin K
    <3>1. PICK g \in S : StampOf[g] > StampOf[f] /\ g \notin K
      BY <2>2
    <3>2. Cardinality(K) >= MaxBag /\ \A e \in K : StampOf[e] > StampOf[g]
      BY <1>0, <3>1, DropsForNewer
    <3>3. ASSUME NEW e \in K PROVE StampOf[e] > StampOf[f]
      <4>1. e \in Records /\ f \in Records /\ g \in Records
        BY <1>1, <1>3, <3>1
      <4>2. StampOf[e] > StampOf[g] /\ StampOf[g] > StampOf[f]
        BY <3>1, <3>2
      <4>3. StampOf[e] \in Nat /\ StampOf[f] \in Nat /\ StampOf[g] \in Nat
        BY <4>1, RecordFacts
      <4>q. QED BY <4>2, <4>3
    <3>4. Newer(K \cup T, f) = K \cup Newer(T, f) /\ K \cap Newer(T, f) = {}
      BY <1>1, <3>3 DEF Newer
    <3>5. Newer(S \cup T, f) = Newer(S, f) \cup Newer(T, f) /\ Newer(S, f) \cap Newer(T, f) = {}
      BY DEF Newer
    <3>6. /\ IsFiniteSet(K) /\ IsFiniteSet(Newer(T, f)) /\ IsFiniteSet(Newer(S, f))
          /\ Cardinality(K) \in Nat /\ Cardinality(Newer(T, f)) \in Nat
          /\ Cardinality(Newer(S, f)) \in Nat
      BY <1>1, NewerTypes, FiniteParts
    <3>7. Cardinality(Newer(K \cup T, f)) = Cardinality(K) + Cardinality(Newer(T, f))
      BY <1>1, <3>4, NewerTypes, Apart
    <3>8. Cardinality(Newer(S \cup T, f)) = Cardinality(Newer(S, f)) + Cardinality(Newer(T, f))
      BY <3>5, NewerTypes, Apart
    <3>9. Cardinality(Newer(S, f)) <= Cardinality(S) /\ Cardinality(S) \in Nat
      BY NewerTypes, SmallerPart, FiniteParts
    <3>q. QED BY <1>0, <3>2, <3>6, <3>7, <3>8, <3>9
  <2>q. QED BY <2>1, <2>2
<1>5. Cardinality(Newer(S \cup T, f)) \in Nat /\ Cardinality(Newer(K \cup T, f)) \in Nat
  BY <1>1, NewerTypes
<1>q. QED BY <1>3, <1>4, <1>5, NewestIs

-----------------------------------------------------------------------------
(* Frames on a wire.                                                         *)

FrameType == [type : {"hello"}, what : Nat]
             \cup [type : {"inv", "want", "event"}, what : SUBSET Records]

Has(w, type, e) == \E i \in DOMAIN w : w[i].type = type /\ e \in w[i].what
Greets(w, n) == \E i \in DOMAIN w : w[i].type = "hello" /\ w[i].what = n

LEMMA NothingAboard ==
    /\ <<>> \in Seq(FrameType)
    /\ \A e, type : ~Has(<<>>, type, e)
    /\ \A n : ~Greets(<<>>, n)
BY DEF Has, Greets

LEMMA JoinedFrames ==
    ASSUME NEW v \in Seq(FrameType), NEW w \in Seq(FrameType)
    PROVE  /\ v \o w \in Seq(FrameType)
           /\ \A e, type : Has(v \o w, type, e) <=> Has(v, type, e) \/ Has(w, type, e)
           /\ \A n : Greets(v \o w, n) <=> Greets(v, n) \/ Greets(w, n)
<1> DEFINE vw == v \o w
<1>1. vw \in Seq(FrameType) /\ Len(vw) = Len(v) + Len(w) /\ Len(v) \in Nat /\ Len(w) \in Nat
  OBVIOUS
<1>2. /\ \A i \in DOMAIN v : i \in DOMAIN vw /\ vw[i] = v[i]
      /\ \A i \in DOMAIN w : Len(v) + i \in DOMAIN vw /\ vw[Len(v) + i] = w[i]
  OBVIOUS
<1>3. \A i \in DOMAIN vw : i \in DOMAIN v \/ (i - Len(v) \in DOMAIN w /\ vw[i] = w[i - Len(v)])
  OBVIOUS
<1> HIDE DEF vw
<1>4. ASSUME NEW e, NEW type
      PROVE  Has(vw, type, e) <=> Has(v, type, e) \/ Has(w, type, e)
  BY <1>2, <1>3 DEF Has
<1>5. ASSUME NEW n PROVE Greets(vw, n) <=> Greets(v, n) \/ Greets(w, n)
  BY <1>2, <1>3 DEF Greets
<1>q. QED BY <1>1, <1>4, <1>5 DEF vw

LEMMA FirstFrame ==
    ASSUME NEW w \in Seq(FrameType), w # <<>>
    PROVE  /\ Tail(w) \in Seq(FrameType) /\ Head(w) \in FrameType
           /\ \A e, type : Has(w, type, e) <=>
                Has(Tail(w), type, e) \/ (Head(w).type = type /\ e \in Head(w).what)
           /\ \A n : Greets(w, n) <=>
                Greets(Tail(w), n) \/ (Head(w).type = "hello" /\ Head(w).what = n)
<1> DEFINE u == Tail(w)
<1>1. /\ u \in Seq(FrameType) /\ Head(w) = w[1] /\ 1 \in DOMAIN w /\ w[1] \in FrameType
      /\ \A i \in DOMAIN u : i + 1 \in DOMAIN w /\ w[i + 1] = u[i]
      /\ \A i \in DOMAIN w : i = 1 \/ (i - 1 \in DOMAIN u /\ w[i] = u[i - 1])
  OBVIOUS
<1> HIDE DEF u
<1>2. ASSUME NEW e, NEW type
      PROVE  Has(w, type, e) <=> Has(u, type, e) \/ (w[1].type = type /\ e \in w[1].what)
  BY <1>1 DEF Has
<1>3. ASSUME NEW n
      PROVE  Greets(w, n) <=> Greets(u, n) \/ (w[1].type = "hello" /\ w[1].what = n)
  BY <1>1 DEF Greets
<1>q. QED BY <1>1, <1>2, <1>3 DEF u

LEMMA OneFrame ==
    ASSUME NEW f \in FrameType
    PROVE  /\ <<f>> \in Seq(FrameType)
           /\ \A e, type : Has(<<f>>, type, e) <=> f.type = type /\ e \in f.what
           /\ \A n : Greets(<<f>>, n) <=> f.type = "hello" /\ f.what = n
BY DEF Has, Greets

LEMMA FramesAre ==
    ASSUME NEW type \in {"inv", "want", "event"}, NEW S \in SUBSET Records
    PROVE  /\ Frames(type, S) \in Seq(FrameType)
           /\ \A e, t : Has(Frames(type, S), t, e) <=> t = type /\ e \in S
           /\ \A n : ~Greets(Frames(type, S), n)
<1> DEFINE f == Frame(type, S)
<1>1. f \in FrameType /\ f.type = type /\ f.what = S
  BY DEF FrameType, Frame
<1>2. CASE S = {}
  BY <1>2, NothingAboard DEF Frames
<1>3. CASE S # {}
  <2>1. Frames(type, S) = <<f>>
    BY <1>3 DEF Frames
  <2> HIDE DEF f
  <2>q. QED BY <1>1, <2>1, OneFrame
<1>q. QED BY <1>2, <1>3

LEMMA HelloFrame ==
    ASSUME nonce \in [Services -> Nat], NEW x \in Services
    PROVE  /\ Hello(x) \in Seq(FrameType)
           /\ \A e, t : Has(Hello(x), t, e) => t = "hello"
           /\ \A n : Greets(Hello(x), n) <=> n = nonce[x]
<1> DEFINE f == Frame("hello", nonce[x])
<1>1. f \in FrameType /\ f.type = "hello" /\ f.what = nonce[x]
  BY DEF FrameType, Frame
<1>2. Hello(x) = <<f>>
  BY DEF Hello
<1> HIDE DEF f
<1>q. QED BY <1>1, <1>2, OneFrame

-----------------------------------------------------------------------------
(* Ends, and what is sent over them.                                         *)

LEMMA EndFacts ==
    \A c \in Ends : /\ c[1] \in Services /\ c[2] \in Services /\ <<c[1], c[2]>> \in Pairs
                    /\ Back(c) \in Ends /\ Back(Back(c)) = c /\ Back(c) # c
                    /\ Back(c)[1] = c[2] /\ Back(c)[2] = c[1]
<1> SUFFICES ASSUME NEW c \in Ends
             PROVE  /\ c[1] \in Services /\ c[2] \in Services /\ <<c[1], c[2]>> \in Pairs
                    /\ Back(c) \in Ends /\ Back(Back(c)) = c /\ Back(c) # c
                    /\ Back(c)[1] = c[2] /\ Back(c)[2] = c[1]
  OBVIOUS
<1>1. \A p \in Dials : p = <<p[1], p[2]>> /\ p[1] \in Services /\ p[2] \in Services
  BY RecordFacts
<1>2. CASE \E p \in Dials : c = <<p[1], p[2], "out">>
  <2>1. PICK p \in Dials : c = <<p[1], p[2], "out">>
    BY <1>2
  <2>2. Back(c) = <<p[2], p[1], "in">> /\ Back(Back(c)) = c
    BY <2>1 DEF Back
  <2>3. Back(c) \in Ends
    BY <2>2 DEF Ends, EndsOf
  <2>q. QED BY <1>1, <2>1, <2>2, <2>3 DEF Pairs
<1>3. CASE \E p \in Dials : c = <<p[2], p[1], "in">>
  <2>1. PICK p \in Dials : c = <<p[2], p[1], "in">>
    BY <1>3
  <2>2. Back(c) = <<p[1], p[2], "out">> /\ Back(Back(c)) = c
    BY <2>1 DEF Back
  <2>3. Back(c) \in Ends
    BY <2>2 DEF Ends, EndsOf
  <2>q. QED BY <1>1, <2>1, <2>2, <2>3 DEF Pairs
<1>q. QED BY <1>2, <1>3 DEF Ends, EndsOf

LEMMA PairFacts ==
    /\ \A x, y \in Services : <<x, y>> \in Pairs
    /\ \A p \in Pairs : p = <<p[1], p[2]>> /\ p[1] \in Services /\ p[2] \in Services
BY DEF Pairs

Wires == [Ends -> Seq(FrameType)]

\* What ToAll does to the wires w.
LEMMA SentToAll ==
    ASSUME NEW w \in Wires, NEW x \in Services, NEW frames \in Seq(FrameType), NEW but
    PROVE  LET v == ToAll(w, x, frames, but)
               goes(d) == visible[x] /\ d \in joined /\ d[1] = x /\ d \notin but
           IN  /\ v \in Wires
               /\ \A d \in Ends : \A e, t :
                    Has(v[d], t, e) <=> Has(w[d], t, e) \/ (goes(d) /\ Has(frames, t, e))
               /\ \A d \in Ends : \A n :
                    Greets(v[d], n) <=> Greets(w[d], n) \/ (goes(d) /\ Greets(frames, n))
               /\ \A d \in Ends : goes(d) \/ v[d] = w[d]
<1> DEFINE v == ToAll(w, x, frames, but)
           goes(d) == visible[x] /\ d \in joined /\ d[1] = x /\ d \notin but
<1>1. \A d \in Ends : v[d] = IF goes(d) THEN w[d] \o frames ELSE w[d]
  BY DEF ToAll, From
<1>2. DOMAIN v = Ends /\ v = [d \in Ends |-> v[d]]
  BY DEF ToAll
<1>3. \A d \in Ends : w[d] \in Seq(FrameType)
  BY DEF Wires
<1> HIDE DEF v
<1>4. ASSUME NEW d \in Ends
      PROVE  /\ v[d] \in Seq(FrameType)
             /\ \A e, t : Has(v[d], t, e) <=> Has(w[d], t, e) \/ (goes(d) /\ Has(frames, t, e))
             /\ \A n : Greets(v[d], n) <=> Greets(w[d], n) \/ (goes(d) /\ Greets(frames, n))
             /\ goes(d) \/ v[d] = w[d]
  <2> HIDE DEF goes
  <2>1. CASE goes(d)
    BY <1>1, <1>3, <2>1, JoinedFrames
  <2>2. CASE ~goes(d)
    BY <1>1, <1>3, <2>2
  <2>q. QED BY <2>1, <2>2
<1>5. v \in Wires
  BY <1>2, <1>4 DEF Wires
<1> HIDE DEF goes
<1>6. /\ v \in Wires
      /\ \A d \in Ends : \A e, t :
           Has(v[d], t, e) <=> Has(w[d], t, e) \/ (goes(d) /\ Has(frames, t, e))
      /\ \A d \in Ends : \A n :
           Greets(v[d], n) <=> Greets(w[d], n) \/ (goes(d) /\ Greets(frames, n))
      /\ \A d \in Ends : goes(d) \/ v[d] = w[d]
  BY <1>4, <1>5
<1>q. QED BY <1>6 DEF v, goes

\* A frame is read.
LEMMA FrameRead ==
    ASSUME wire \in Wires, NEW c \in Ends, NEW type, Reads(c, type)
    PROVE  /\ Rest(c) \in Wires
           /\ Head(wire[Back(c)]) \in FrameType /\ Head(wire[Back(c)]).type = type
           /\ \A e : e \in Arrived(c) => Has(wire[Back(c)], type, e)
           /\ type = "hello" => Greets(wire[Back(c)], Arrived(c))
           /\ \A d \in Ends : \A e, t : Has(Rest(c)[d], t, e) => Has(wire[d], t, e)
           /\ \A d \in Ends : \A e, t : Has(wire[d], t, e) =>
                \/ Has(Rest(c)[d], t, e)
                \/ d = Back(c) /\ t = type /\ e \in Arrived(c)
           /\ \A d \in Ends : \A n : Greets(Rest(c)[d], n) => Greets(wire[d], n)
<1> DEFINE b == Back(c)
<1>1. b \in Ends /\ wire[b] \in Seq(FrameType) /\ wire[b] # <<>> /\ Head(wire[b]).type = type
  BY EndFacts DEF Reads, Wires
<1>2. \A d \in Ends : Rest(c)[d] = IF d = b THEN Tail(wire[d]) ELSE wire[d]
  BY <1>1 DEF Rest, Wires
<1>3. DOMAIN Rest(c) = Ends /\ Rest(c) = [d \in Ends |-> Rest(c)[d]]
  BY DEF Rest, Wires
<1>4. Arrived(c) = Head(wire[b]).what
  BY DEF Arrived
<1> HIDE DEF b
<1>5. /\ Tail(wire[b]) \in Seq(FrameType) /\ Head(wire[b]) \in FrameType
      /\ \A e, t : Has(wire[b], t, e) <=>
           Has(Tail(wire[b]), t, e) \/ (Head(wire[b]).type = t /\ e \in Head(wire[b]).what)
      /\ \A n : Greets(wire[b], n) <=>
           Greets(Tail(wire[b]), n) \/ (Head(wire[b]).type = "hello" /\ Head(wire[b]).what = n)
  BY <1>1, FirstFrame
<1>6. \A d \in Ends : Rest(c)[d] \in Seq(FrameType)
  BY <1>2, <1>5 DEF Wires
<1>7. Rest(c) \in Wires
  BY <1>3, <1>6 DEF Wires
<1>8. \A e : e \in Arrived(c) => Has(wire[b], type, e)
  BY <1>1, <1>4, <1>5
<1>9. type = "hello" => Greets(wire[b], Arrived(c))
  BY <1>1, <1>4, <1>5
<1>10. ASSUME NEW d \in Ends, NEW e, NEW t
       PROVE  /\ Has(Rest(c)[d], t, e) => Has(wire[d], t, e)
              /\ Has(wire[d], t, e) => \/ Has(Rest(c)[d], t, e)
                                       \/ d = b /\ t = type /\ e \in Arrived(c)
  BY <1>1, <1>2, <1>4, <1>5
<1>11. ASSUME NEW d \in Ends, NEW n
       PROVE  Greets(Rest(c)[d], n) => Greets(wire[d], n)
  BY <1>1, <1>2, <1>5
<1>q. QED BY <1>1, <1>5, <1>7, <1>8, <1>9, <1>10, <1>11 DEF b

-----------------------------------------------------------------------------
(* The inductive invariant.                                                  *)

MailTypes ==
    /\ visible \in [Services -> BOOLEAN] /\ nonce \in [Services -> Nat]
    /\ own \in [Services -> SUBSET Records] /\ carried \in [Services -> SUBSET Records]
    /\ taken \in [Services -> SUBSET Records]
    /\ joined \subseteq Ends /\ greeted \in [Pairs -> Nat] /\ wire \in Wires

\* The bags hold what the app was given, within their bounds, and so does what is sent.
BagsAgree ==
    /\ \A x \in Services :
         /\ own[x] \cup carried[x] \subseteq taken[x] /\ own[x] \cap carried[x] = {}
         /\ Cardinality(own[x]) <= MaxBag /\ Cardinality(carried[x]) <= MaxBag
    /\ \A c \in Ends : \A e : Has(wire[c], "event", e) => e \in taken[c[1]]

\* No hello is of a start to come, a service that is off has no connections and has forgotten
\* its peers, and on a connection that the other end has left there is no hello of its present
\* start.
LinesAgree ==
    /\ \A x \in Services : nonce[x] >= 1
    /\ \A p \in Pairs : greeted[p] <= nonce[p[2]] /\ (~visible[p[1]] => greeted[p] = 0)
    /\ \A c \in Ends : \A n : Greets(wire[c], n) => n \in Nat /\ n <= nonce[c[1]]
    /\ \A c \in joined : visible[c[1]]
    /\ \A c \in joined : Back(c) \notin joined /\ visible[c[2]]
                           => ~Greets(wire[Back(c)], nonce[c[2]])

\* Who owes what it offers to whom, and that the other has got it or that it is on its way on
\* a connection that both have.
Owes(x, y) ==
    /\ visible[y] /\ greeted[<<x, y>>] = nonce[y] /\ <<x, y>> \notin missed
    /\ x \notin NoMailbag /\ y \notin NoMailbag
On(c, e) == Has(wire[c], "inv", e) \/ Has(wire[c], "event", e) \/ Has(wire[Back(c)], "want", e)
Coming(x, y, e) ==
    \/ e \in taken[y]
    \/ \E c \in joined : c[1] = x /\ c[2] = y /\ Back(c) \in joined /\ On(c, e)
Top(x) == Newest(own[x] \cup carried[x], MaxOffers)
OffersArrive ==
    \A x, y \in Services : Owes(x, y) => \A e \in Top(x) \ Large : Coming(x, y, e)

MailInv == MailTypes /\ BagsAgree /\ LinesAgree /\ OffersArrive

LEMMA NewestPart == \A S, n : Newest(S, n) \subseteq S
BY DEF Newest

LEMMA TopPart == \A x \in Services : Top(x) \subseteq own[x] \cup carried[x]
BY DEF Top, Newest

LEMMA LiveIs ==
    \A x, y : Live(x, y) = {c \in joined : c[1] = x /\ c[2] = y /\ Back(c) \in joined}
BY DEF Live

LEMMA LinkedAre ==
    ASSUME NEW x \in Services, NEW u \in Services, NEW v \in Services
    PROVE  /\ <<u, v>> \in Unlinked(x) <=> u = x /\ Live(u, v) = {}
           /\ <<u, v>> \in Linked(x) <=> u = x /\ Live(u, v) # {}
<1>1. <<u, v>> \in Pairs /\ <<u, v>>[1] = u /\ <<u, v>>[2] = v
  BY PairFacts
<1>q. QED BY <1>1 DEF Linked, Unlinked

\* The lines and numbers, when no line is made or cut and no service turned on or off.
LEMMA LinesRest ==
    ASSUME MailTypes, LinesAgree, MailTypes', UNCHANGED <<visible, nonce, joined>>,
           \A p \in Pairs : \/ greeted'[p] = greeted[p]
                            \/ visible[p[1]] /\ greeted'[p] <= nonce[p[2]],
           \A c \in Ends : \A n : Greets(wire'[c], n) =>
               Greets(wire[c], n) \/ (c \in joined /\ n = nonce[c[1]])
    PROVE  LinesAgree'
<1>1. \A p \in Pairs : greeted'[p] <= nonce[p[2]] /\ (~visible[p[1]] => greeted'[p] = 0)
  BY DEF LinesAgree
<1>2. ASSUME NEW c \in Ends, NEW n, Greets(wire'[c], n) PROVE n \in Nat /\ n <= nonce[c[1]]
  <2>1. Greets(wire[c], n) \/ n = nonce[c[1]]
    BY <1>2
  <2>2. nonce[c[1]] \in Nat
    BY EndFacts DEF MailTypes
  <2>q. QED BY <2>1, <2>2 DEF LinesAgree
<1>3. ASSUME NEW c \in joined, Back(c) \notin joined, visible[c[2]]
      PROVE  ~Greets(wire'[Back(c)], nonce[c[2]])
  <2>1. Back(c) \in Ends
    BY EndFacts DEF MailTypes
  <2>q. QED BY <1>3, <2>1 DEF LinesAgree
<1>q. QED BY <1>1, <1>2, <1>3 DEF LinesAgree

\* What is owed after a step: it was owed before and is still on its way, or the step sends it.
LEMMA OffersKept ==
    ASSUME MailTypes, OffersArrive,
           \A x \in Services : taken[x] \subseteq taken'[x],
           \A x, y \in Services : Owes(x, y)' => \A e \in Top(x)' \ Large :
               (Owes(x, y) /\ e \in Top(x)) \/ Coming(x, y, e)',
           \A c \in joined : \A e \in (own[c[1]] \cup carried[c[1]]) \ Large :
               Back(c) \in joined /\ On(c, e) /\ Owes(c[1], c[2]) /\ Owes(c[1], c[2])'
                 => Coming(c[1], c[2], e)'
    PROVE  OffersArrive'
<1>1. ASSUME NEW x \in Services, NEW y \in Services, Owes(x, y)', NEW e \in Top(x)' \ Large
      PROVE  Coming(x, y, e)'
  <2>1. CASE Coming(x, y, e)'
    BY <2>1
  <2>2. CASE Owes(x, y) /\ e \in Top(x)
    <3>1. Coming(x, y, e) /\ e \in own[x] \cup carried[x]
      BY <1>1, <2>2, TopPart DEF OffersArrive
    <3>2. CASE e \in taken[y]
      BY <3>2 DEF Coming
    <3>3. CASE e \notin taken[y]
      <4>1. PICK c \in joined : c[1] = x /\ c[2] = y /\ Back(c) \in joined /\ On(c, e)
        BY <3>1, <3>3 DEF Coming
      <4>q. QED BY <1>1, <2>2, <3>1, <4>1
    <3>q. QED BY <3>2, <3>3
  <2>q. QED BY <1>1, <2>1, <2>2
<1>q. QED BY <1>1 DEF OffersArrive

\* A step that says nothing of what is offered, and cuts no connection that carries any of it.
LEMMA OffersRest ==
    ASSUME MailTypes, OffersArrive, UNCHANGED <<own, carried, taken>>,
           \A x, y \in Services : Owes(x, y)' => Owes(x, y),
           \A c \in joined : \A e :
               Back(c) \in joined /\ On(c, e) /\ Owes(c[1], c[2])'
                 => c \in joined' /\ Back(c) \in joined' /\ On(c, e)'
    PROVE  OffersArrive'
<1>1. \A x \in Services : Top(x)' = Top(x)
  BY DEF Top
<1>2. ASSUME NEW c \in joined, NEW e, Back(c) \in joined, On(c, e), Owes(c[1], c[2])'
      PROVE  Coming(c[1], c[2], e)'
  BY <1>2 DEF Coming
<1>q. QED BY <1>1, <1>2, OffersKept

\* The bags and what is sent of them, when the bags stay and no event is sent.
LEMMA BagsRest ==
    ASSUME BagsAgree, UNCHANGED <<own, carried, taken>>,
           \A c \in Ends : \A e : Has(wire'[c], "event", e) => Has(wire[c], "event", e)
    PROVE  BagsAgree'
BY DEF BagsAgree

LEMMA MailStarts == MailbagInit => MailInv
<1> SUFFICES ASSUME MailbagInit PROVE MailInv
  OBVIOUS
<1>1. \A c \in Ends : wire[c] = <<>>
  BY DEF MailbagInit
<1>2. \A x \in Services : visible[x] /\ nonce[x] = 1 /\ own[x] = {} /\ carried[x] = {} /\ taken[x] = {}
  BY DEF MailbagInit
<1>3. \A p \in Pairs : greeted[p] \in {0, 1}
  BY DEF MailbagInit
<1>4. joined \subseteq Ends
  BY RecordFacts DEF MailbagInit, Ends, EndsOf
<1>5. MailTypes
  <2>1. greeted \in [Pairs -> Nat]
    BY <1>3 DEF MailbagInit
  <2>q. QED BY <1>4, <2>1 DEF MailbagInit, MailTypes, Wires
<1>6. BagsAgree
  <2>1. Cardinality({}) = 0
    BY FS_EmptySet
  <2>2. \A x \in Services :
          /\ own[x] \cup carried[x] \subseteq taken[x] /\ own[x] \cap carried[x] = {}
          /\ Cardinality(own[x]) <= MaxBag /\ Cardinality(carried[x]) <= MaxBag
    <3> TAKE x \in Services
    <3>1. own[x] = {} /\ carried[x] = {} /\ MaxBag \in Nat
      BY <1>2, RecordFacts
    <3>q. QED BY <2>1, <3>1
  <2>3. \A c \in Ends : \A e : ~Has(wire[c], "event", e)
    BY <1>1, NothingAboard
  <2>q. QED BY <2>2, <2>3 DEF BagsAgree
<1>7. LinesAgree
  <2>1. \A c \in Ends : \A n : ~Greets(wire[c], n)
    BY <1>1, NothingAboard
  <2>2. \A p \in Pairs : greeted[p] <= nonce[p[2]] /\ visible[p[1]]
    BY <1>2, <1>3, PairFacts
  <2>3. \A c \in Ends : visible[c[1]] /\ Back(c) \in Ends
    BY <1>2, EndFacts
  <2>4. \A x \in Services : nonce[x] >= 1
    BY <1>2
  <2>q. QED BY <1>4, <2>1, <2>2, <2>3, <2>4 DEF LinesAgree
<1>8. OffersArrive
  <2>1. \A x \in Services : Top(x) = {}
    BY <1>2, TopPart
  <2>q. QED BY <2>1 DEF OffersArrive
<1>q. QED BY <1>5, <1>6, <1>7, <1>8 DEF MailInv

-----------------------------------------------------------------------------
(* What comes and goes over the lines as they are.                           *)

LEMMA Traffic ==
    ASSUME MailTypes, LinesAgree, NEW c \in Ends, NEW type, Reads(c, type),
           NEW frames \in Seq(FrameType), NEW but, wire' = ToAll(Rest(c), c[1], frames, but)
    PROVE  /\ wire' \in Wires
           /\ \A d \in Ends : \A e, t : Has(wire'[d], t, e) =>
                Has(wire[d], t, e) \/ (d \in joined /\ d[1] = c[1] /\ Has(frames, t, e))
           /\ \A d \in Ends : \A e, t : Has(wire[d], t, e) =>
                Has(wire'[d], t, e) \/ (d = Back(c) /\ t = type /\ e \in Arrived(c))
           /\ \A d \in Ends : \A e, t :
                d \in joined /\ d[1] = c[1] /\ d \notin but /\ Has(frames, t, e)
                  => Has(wire'[d], t, e)
           /\ \A d \in Ends : \A n : Greets(wire'[d], n) =>
                Greets(wire[d], n) \/ (d \in joined /\ d[1] = c[1] /\ Greets(frames, n))
<1> DEFINE w == Rest(c)
           goes(d) == visible[c[1]] /\ d \in joined /\ d[1] = c[1] /\ d \notin but
<1>1. /\ w \in Wires
      /\ \A d \in Ends : \A e, t : Has(w[d], t, e) => Has(wire[d], t, e)
      /\ \A d \in Ends : \A e, t : Has(wire[d], t, e) =>
           \/ Has(w[d], t, e)
           \/ d = Back(c) /\ t = type /\ e \in Arrived(c)
      /\ \A d \in Ends : \A n : Greets(w[d], n) => Greets(wire[d], n)
  BY FrameRead DEF MailTypes
<1>2. c[1] \in Services /\ c \in joined /\ visible[c[1]]
  BY EndFacts DEF Reads, LinesAgree, MailTypes
<1> HIDE DEF w
<1>3. /\ wire' \in Wires
      /\ \A d \in Ends : \A e, t :
           Has(wire'[d], t, e) <=> Has(w[d], t, e) \/ (goes(d) /\ Has(frames, t, e))
      /\ \A d \in Ends : \A n :
           Greets(wire'[d], n) <=> Greets(w[d], n) \/ (goes(d) /\ Greets(frames, n))
      /\ \A d \in Ends : goes(d) \/ wire'[d] = w[d]
  <2>1. wire' = ToAll(w, c[1], frames, but)
    BY DEF w
  <2>2. \A u \in Wires : LET v == ToAll(u, c[1], frames, but) IN
          /\ v \in Wires
          /\ \A d \in Ends : \A e, t :
               Has(v[d], t, e) <=> Has(u[d], t, e) \/ (goes(d) /\ Has(frames, t, e))
          /\ \A d \in Ends : \A n :
               Greets(v[d], n) <=> Greets(u[d], n) \/ (goes(d) /\ Greets(frames, n))
          /\ \A d \in Ends : goes(d) \/ v[d] = u[d]
    BY <1>2, SentToAll
  <2> HIDE DEF goes
  <2>q. QED BY <1>1, <2>1, <2>2
<1>5. \A d \in Ends : \A e, t : Has(wire'[d], t, e) =>
        Has(wire[d], t, e) \/ (d \in joined /\ d[1] = c[1] /\ Has(frames, t, e))
  BY <1>1, <1>3
<1>6. \A d \in Ends : \A e, t : Has(wire[d], t, e) =>
        Has(wire'[d], t, e) \/ (d = Back(c) /\ t = type /\ e \in Arrived(c))
  BY <1>1, <1>3
<1>7. \A d \in Ends : \A e, t :
        d \in joined /\ d[1] = c[1] /\ d \notin but /\ Has(frames, t, e) => Has(wire'[d], t, e)
  BY <1>2, <1>3
<1>8. \A d \in Ends : \A n : Greets(wire'[d], n) =>
        Greets(wire[d], n) \/ (d \in joined /\ d[1] = c[1] /\ Greets(frames, n))
  BY <1>1, <1>3
<1>q. QED BY <1>3, <1>5, <1>6, <1>7, <1>8

LEMMA Broadcast ==
    ASSUME MailTypes, LinesAgree, NEW x \in Services,
           NEW frames \in Seq(FrameType), wire' = ToAll(wire, x, frames, {})
    PROVE  /\ wire' \in Wires
           /\ \A d \in Ends : \A e, t : Has(wire'[d], t, e) <=>
                Has(wire[d], t, e) \/ (d \in joined /\ d[1] = x /\ Has(frames, t, e))
           /\ \A d \in Ends : \A n : Greets(wire'[d], n) =>
                Greets(wire[d], n) \/ (d \in joined /\ d[1] = x /\ Greets(frames, n))
<1> DEFINE goes(d) == visible[x] /\ d \in joined /\ d[1] = x /\ d \notin {}
<1>1. wire \in Wires /\ \A d \in Ends : d \in joined => visible[d[1]]
  BY DEF MailTypes, LinesAgree
<1>2. /\ wire' \in Wires
      /\ \A d \in Ends : \A e, t :
           Has(wire'[d], t, e) <=> Has(wire[d], t, e) \/ (goes(d) /\ Has(frames, t, e))
      /\ \A d \in Ends : \A n :
           Greets(wire'[d], n) <=> Greets(wire[d], n) \/ (goes(d) /\ Greets(frames, n))
      /\ \A d \in Ends : goes(d) \/ wire'[d] = wire[d]
  BY <1>1, SentToAll
<1>3. \A d \in Ends : goes(d) <=> d \in joined /\ d[1] = x
  BY <1>1
<1> HIDE DEF goes
<1>q. QED BY <1>2, <1>3

LEMMA ArrivedTypes ==
    ASSUME MailTypes, NEW c \in Ends, NEW type \in {"inv", "want", "event"}, Reads(c, type)
    PROVE  Arrived(c) \in SUBSET Records
<1>1. Head(wire[Back(c)]) \in FrameType /\ Head(wire[Back(c)]).type = type
  BY FrameRead DEF MailTypes
<1>2. Head(wire[Back(c)]).what \in SUBSET Records
  BY <1>1 DEF FrameType
<1>q. QED BY <1>2 DEF Arrived

LEMMA SayHelloKeeps ==
    ASSUME MailInv, NEW x \in Services, SayHello(x) PROVE MailInv'
<1>0. MailTypes /\ BagsAgree /\ LinesAgree /\ OffersArrive
  BY DEF MailInv
<1>1. /\ Hello(x) \in Seq(FrameType)
      /\ \A e, t : Has(Hello(x), t, e) => t = "hello"
      /\ \A n : Greets(Hello(x), n) <=> n = nonce[x]
  BY <1>0, HelloFrame DEF MailTypes
<1>2. /\ wire' = ToAll(wire, x, Hello(x), {})
      /\ UNCHANGED <<visible, nonce, own, carried, taken, joined, greeted, missed>>
  BY DEF SayHello
<1>3. /\ wire' \in Wires
      /\ \A d \in Ends : \A e, t : Has(wire'[d], t, e) <=>
           Has(wire[d], t, e) \/ (d \in joined /\ d[1] = x /\ Has(Hello(x), t, e))
      /\ \A d \in Ends : \A n : Greets(wire'[d], n) =>
           Greets(wire[d], n) \/ (d \in joined /\ d[1] = x /\ Greets(Hello(x), n))
  BY <1>0, <1>1, <1>2, Broadcast
<1>4. MailTypes'
  BY <1>0, <1>2, <1>3 DEF MailTypes
<1>5. LinesAgree'
  BY <1>0, <1>1, <1>2, <1>3, <1>4, LinesRest
<1>6. BagsAgree'
  BY <1>0, <1>1, <1>2, <1>3, BagsRest
<1>7. OffersArrive'
  <2>1. \A u, v \in Services : Owes(u, v)' => Owes(u, v)
    BY <1>2 DEF Owes
  <2>2. \A c \in joined : c \in Ends /\ Back(c) \in Ends
    BY <1>0, EndFacts DEF MailTypes
  <2>3. \A c \in joined : \A e : On(c, e) => On(c, e)'
    BY <1>3, <2>2 DEF On
  <2>q. QED BY <1>0, <1>2, <2>1, <2>3, OffersRest
<1>q. QED BY <1>4, <1>5, <1>6, <1>7 DEF MailInv

LEMMA OfferAgainKeeps ==
    ASSUME MailInv, NEW x \in Services, OfferAgain(x) PROVE MailInv'
<1>1. UNCHANGED <<visible, nonce, own, carried, taken, joined, wire, greeted, missed>>
  BY DEF OfferAgain
<1>2. MailTypes' /\ BagsAgree' /\ LinesAgree'
  BY <1>1 DEF MailInv, MailTypes, BagsAgree, LinesAgree
<1>3. OffersArrive'
  BY <1>1 DEF MailInv, OffersArrive, Owes, Coming, On, Top
<1>q. QED BY <1>2, <1>3 DEF MailInv

LEMMA NamedKeeps ==
    ASSUME MailInv, NEW c \in Ends, Named(c) PROVE MailInv'
<1>1. UNCHANGED <<visible, nonce, own, carried, taken, joined, wire, greeted, missed>>
  BY DEF Named
<1>2. MailTypes' /\ BagsAgree' /\ LinesAgree'
  BY <1>1 DEF MailInv, MailTypes, BagsAgree, LinesAgree
<1>3. OffersArrive'
  BY <1>1 DEF MailInv, OffersArrive, Owes, Coming, On, Top
<1>q. QED BY <1>2, <1>3 DEF MailInv

LEMMA ExpireKeeps ==
    ASSUME MailInv, NEW x \in Services, NEW y \in Services, Expire(x, y) PROVE MailInv'
<1>0. MailTypes /\ BagsAgree /\ LinesAgree /\ OffersArrive
  BY DEF MailInv
<1>1. /\ visible[x] /\ greeted' = [greeted EXCEPT ![<<x, y>>] = 0] /\ missed' = missed \ {<<x, y>>}
      /\ UNCHANGED <<visible, nonce, own, carried, taken, joined, wire>>
  BY DEF Expire
<1>2. <<x, y>> \in Pairs /\ nonce[y] \in Nat /\ nonce[y] >= 1
  BY <1>0, PairFacts DEF MailTypes, LinesAgree
<1>3. \A p \in Pairs : /\ p = <<x, y>> => greeted'[p] = 0
                       /\ p # <<x, y>> => greeted'[p] = greeted[p]
  BY <1>0, <1>1 DEF MailTypes
<1>4. MailTypes'
  BY <1>0, <1>1 DEF MailTypes
<1>5. LinesAgree'
  BY <1>0, <1>1, <1>3 DEF LinesAgree, MailTypes
<1>6. BagsAgree'
  BY <1>0, <1>1, BagsRest
<1>7. OffersArrive'
  <2>1. ASSUME NEW u \in Services, NEW v \in Services, Owes(u, v)' PROVE Owes(u, v)
    <3>1. <<u, v>> \in Pairs /\ greeted'[<<u, v>>] = nonce[v]
      BY <1>1, <2>1, PairFacts DEF Owes
    <3>2. <<u, v>> # <<x, y>>
      BY <1>2, <1>3, <3>1
    <3>q. QED BY <1>1, <1>3, <2>1, <3>1, <3>2 DEF Owes
  <2>2. \A c \in joined : \A e : On(c, e) => On(c, e)'
    BY <1>1 DEF On
  <2>q. QED BY <1>0, <1>1, <2>1, <2>2, OffersRest
<1>q. QED BY <1>4, <1>5, <1>6, <1>7 DEF MailInv

\* What an offer of the bag is.
LEMMA InventoryIs ==
    ASSUME MailTypes, NEW x \in Services
    PROVE  LET offered == Inventory(x, Bag(x)) IN
           /\ offered \in Seq(FrameType) /\ \A n : ~Greets(offered, n)
           /\ \A e, t : Has(offered, t, e) => t = "inv"
           /\ x \notin NoMailbag => \A e \in Top(x) : Has(offered, "inv", e)
<1>1. Top(x) \in SUBSET Records
  BY TopPart DEF MailTypes
<1>2. Inventory(x, Bag(x)) = IF x \in NoMailbag THEN <<>> ELSE Frames("inv", Top(x))
  BY DEF Inventory, Bag, Top
<1>3. /\ Frames("inv", Top(x)) \in Seq(FrameType) /\ \A n : ~Greets(Frames("inv", Top(x)), n)
      /\ \A e, t : Has(Frames("inv", Top(x)), t, e) <=> t = "inv" /\ e \in Top(x)
  BY <1>1, FramesAre
<1>4. CASE x \in NoMailbag
  <2>1. Inventory(x, Bag(x)) = <<>>
    BY <1>2, <1>4
  <2>q. QED BY <1>4, <2>1, NothingAboard, Zenon
<1>5. CASE x \notin NoMailbag
  <2>1. Inventory(x, Bag(x)) = Frames("inv", Top(x))
    BY <1>2, <1>5
  <2>q. QED BY <1>3, <2>1
<1>q. QED BY <1>4, <1>5

\* A service that offers its bag to all owes those it has a connection with nothing else.
LEMMA OffersSent ==
    ASSUME MailTypes, OffersArrive, NEW x \in Services,
           UNCHANGED <<visible, nonce, own, carried, taken, joined>>,
           missed' = missed \ Linked(x),
           \A u, v \in Services : \/ greeted'[<<u, v>>] = greeted[<<u, v>>]
                                  \/ u = x /\ (visible[v] /\ greeted'[<<u, v>>] = nonce[v]
                                                 => Live(u, v) # {}),
           \A d \in Ends : \A e, t : t \in {"inv", "event", "want"} /\ Has(wire[d], t, e)
               => Has(wire'[d], t, e),
           x \notin NoMailbag => \A d \in joined : \A e \in Top(x) :
               d[1] = x => Has(wire'[d], "inv", e)
    PROVE  OffersArrive'
<1>1. \A u \in Services : Top(u)' = Top(u)
  BY DEF Top
<1>2. \A d \in joined : d \in Ends /\ Back(d) \in Ends
  BY EndFacts DEF MailTypes
<1>3. ASSUME NEW u \in Services, NEW v \in Services, Owes(u, v)', NEW e \in Top(u) \ Large
      PROVE  Owes(u, v) \/ Coming(u, v, e)'
  <2>1. CASE u = x /\ Live(u, v) # {}
    <3>1. PICK d \in joined : d[1] = u /\ d[2] = v /\ Back(d) \in joined
      BY <2>1, LiveIs
    <3>2. Has(wire'[d], "inv", e)
      BY <1>3, <2>1, <3>1 DEF Owes
    <3>q. QED BY <3>1, <3>2 DEF Coming, On
  <2>2. CASE ~(u = x /\ Live(u, v) # {})
    <3>1. <<u, v>> \notin missed
      BY <1>3, <2>2, LinkedAre DEF Owes
    <3>2. greeted'[<<u, v>>] = greeted[<<u, v>>]
      BY <1>3, <2>2 DEF Owes
    <3>q. QED BY <1>3, <3>1, <3>2 DEF Owes
  <2>q. QED BY <2>1, <2>2
<1>4. \A d \in joined : \A e : On(d, e) => On(d, e)'
  BY <1>2 DEF On
<1>5. ASSUME NEW c \in joined, NEW e, Back(c) \in joined, On(c, e)
      PROVE  Coming(c[1], c[2], e)'
  BY <1>4, <1>5 DEF Coming
<1>q. QED BY <1>1, <1>3, <1>5, OffersKept

LEMMA AnnounceKeeps ==
    ASSUME MailInv, NEW x \in Services, Announce(x) PROVE MailInv'
<1> DEFINE offered == Inventory(x, Bag(x))
           frames == Hello(x) \o offered
<1>0. MailTypes /\ BagsAgree /\ LinesAgree /\ OffersArrive
  BY DEF MailInv
<1>1. /\ wire' = ToAll(wire, x, frames, {}) /\ missed' = missed \ Linked(x)
      /\ UNCHANGED <<visible, nonce, own, carried, taken, joined, greeted>>
  BY DEF Announce
<1>2. /\ Hello(x) \in Seq(FrameType)
      /\ \A e, t : Has(Hello(x), t, e) => t = "hello"
      /\ \A n : Greets(Hello(x), n) <=> n = nonce[x]
  BY <1>0, HelloFrame DEF MailTypes
<1>3. /\ offered \in Seq(FrameType) /\ \A n : ~Greets(offered, n)
      /\ \A e, t : Has(offered, t, e) => t = "inv"
      /\ x \notin NoMailbag => \A e \in Top(x) : Has(offered, "inv", e)
  BY <1>0, InventoryIs
<1> HIDE DEF offered
<1>4. /\ frames \in Seq(FrameType)
      /\ \A e, t : Has(frames, t, e) <=> Has(Hello(x), t, e) \/ Has(offered, t, e)
      /\ \A n : Greets(frames, n) <=> Greets(Hello(x), n) \/ Greets(offered, n)
  BY <1>2, <1>3, JoinedFrames
<1> HIDE DEF frames
<1>5. /\ wire' \in Wires
      /\ \A d \in Ends : \A e, t : Has(wire'[d], t, e) <=>
           Has(wire[d], t, e) \/ (d \in joined /\ d[1] = x /\ Has(frames, t, e))
      /\ \A d \in Ends : \A n : Greets(wire'[d], n) =>
           Greets(wire[d], n) \/ (d \in joined /\ d[1] = x /\ Greets(frames, n))
  BY <1>0, <1>1, <1>4, Broadcast
<1>6. MailTypes'
  BY <1>0, <1>1, <1>5 DEF MailTypes
<1>7. LinesAgree'
  BY <1>0, <1>1, <1>2, <1>3, <1>4, <1>5, <1>6, LinesRest
<1>8. BagsAgree'
  BY <1>0, <1>1, <1>2, <1>3, <1>4, <1>5, BagsRest
<1>9. OffersArrive'
  <2>1. \A d \in joined : d \in Ends
    BY <1>0 DEF MailTypes
  <2>2. x \notin NoMailbag => \A d \in joined : \A e \in Top(x) :
          d[1] = x => Has(wire'[d], "inv", e)
    BY <1>3, <1>4, <1>5, <2>1
  <2>3. \A d \in Ends : \A e, t : Has(wire[d], t, e) => Has(wire'[d], t, e)
    BY <1>5
  <2>q. QED BY <1>0, <1>1, <2>2, <2>3, OffersSent
<1>q. QED BY <1>6, <1>7, <1>8, <1>9 DEF MailInv

LEMMA HearOfferKeeps ==
    ASSUME MailInv, NEW c \in Ends, HearOffer(c) PROVE MailInv'
<1> DEFINE x == c[1]
           wants == IF x \in NoMailbag THEN {} ELSE Arrived(c) \ Bag(x)
           frames == Frames("want", wants)
<1>0. MailTypes /\ BagsAgree /\ LinesAgree /\ OffersArrive /\ x \in Services
  BY EndFacts DEF MailInv
<1>1. /\ Reads(c, "inv") /\ wire' = ToAll(Rest(c), x, frames, {})
      /\ UNCHANGED <<visible, nonce, own, carried, taken, joined, greeted, missed>>
  BY DEF HearOffer
<1>2. wants \in SUBSET Records
  BY <1>0, <1>1, ArrivedTypes
<1>3. /\ \A e : e \in Arrived(c) /\ x \notin NoMailbag => e \in wants \/ e \in own[x] \cup carried[x]
      /\ c \in joined
  BY <1>1 DEF Bag, Reads
<1> HIDE DEF wants
<1>4. /\ frames \in Seq(FrameType) /\ \A n : ~Greets(frames, n)
      /\ \A e, t : Has(frames, t, e) <=> t = "want" /\ e \in wants
  BY <1>2, FramesAre
<1> HIDE DEF frames, x
<1>5. /\ wire' \in Wires
      /\ \A d \in Ends : \A e, t : Has(wire'[d], t, e) =>
           Has(wire[d], t, e) \/ (d \in joined /\ d[1] = x /\ Has(frames, t, e))
      /\ \A d \in Ends : \A e, t : Has(wire[d], t, e) =>
           Has(wire'[d], t, e) \/ (d = Back(c) /\ t = "inv" /\ e \in Arrived(c))
      /\ \A d \in Ends : \A e, t :
           d \in joined /\ d[1] = x /\ d \notin {} /\ Has(frames, t, e) => Has(wire'[d], t, e)
      /\ \A d \in Ends : \A n : Greets(wire'[d], n) =>
           Greets(wire[d], n) \/ (d \in joined /\ d[1] = x /\ Greets(frames, n))
  <2>1. wire' = ToAll(Rest(c), c[1], frames, {})
    BY <1>1 DEF x
  <2>q. QED BY <1>0, <1>1, <1>4, <2>1, Traffic DEF x
<1>6. MailTypes'
  BY <1>0, <1>1, <1>5 DEF MailTypes
<1>7. LinesAgree'
  BY <1>0, <1>1, <1>4, <1>5, <1>6, LinesRest
<1>8. BagsAgree'
  <2>1. \A d \in Ends : \A e : Has(wire'[d], "event", e) => Has(wire[d], "event", e)
    BY <1>4, <1>5
  <2>q. QED BY <1>0, <1>1, <2>1, BagsRest
<1>9. ASSUME NEW d \in joined, NEW e, Back(d) \in joined, On(d, e), Owes(d[1], d[2])
      PROVE  Coming(d[1], d[2], e)'
  <2>0. d \in Ends /\ Back(d) \in Ends
    BY <1>0, EndFacts DEF MailTypes
  <2>1. CASE d = Back(c) /\ e \in Arrived(c)
    <3>1. d[2] = x /\ Back(d) = c /\ c[1] = x /\ x \notin NoMailbag
      BY <1>9, <2>1, EndFacts DEF Owes, x
    <3>2. CASE e \in wants
      <4>1. Has(wire'[c], "want", e)
        BY <1>3, <1>4, <1>5, <3>1, <3>2
      <4>q. QED BY <1>1, <1>9, <3>1, <4>1 DEF Coming, On
    <3>3. CASE e \in own[x] \cup carried[x]
      <4>1. e \in taken'[d[2]]
        BY <1>0, <1>1, <3>1, <3>3 DEF BagsAgree
      <4>q. QED BY <4>1 DEF Coming
    <3>q. QED BY <1>3, <2>1, <3>1, <3>2, <3>3
  <2>2. CASE ~(d = Back(c) /\ e \in Arrived(c))
    <3>1. On(d, e)'
      BY <1>5, <1>9, <2>0, <2>2 DEF On
    <3>q. QED BY <1>1, <1>9, <3>1 DEF Coming
  <2>q. QED BY <2>1, <2>2
<1>10. OffersArrive'
  <2>1. \A u, v \in Services : Owes(u, v)' => Owes(u, v)
    BY <1>1 DEF Owes
  <2>2. \A u \in Services : Top(u)' = Top(u)
    BY <1>1 DEF Top
  <2>q. QED BY <1>0, <1>1, <1>9, <2>1, <2>2, OffersKept
<1>q. QED BY <1>6, <1>7, <1>8, <1>10 DEF MailInv

LEMMA HearWantKeeps ==
    ASSUME MailInv, NEW c \in Ends, HearWant(c) PROVE MailInv'
<1> DEFINE x == c[1]
           has == IF x \in NoMailbag THEN {} ELSE Arrived(c) \cap Bag(x)
           frames == Frames("event", has \ Large)
<1>0. MailTypes /\ BagsAgree /\ LinesAgree /\ OffersArrive /\ x \in Services
  BY EndFacts DEF MailInv
<1>1. /\ Reads(c, "want") /\ wire' = ToAll(Rest(c), x, frames, {})
      /\ UNCHANGED <<visible, nonce, own, carried, taken, joined, greeted, missed>>
  BY DEF HearWant, EventFrames
<1>2. has \ Large \in SUBSET Records
  BY <1>0, <1>1, ArrivedTypes
<1>3. /\ \A e : e \in Arrived(c) /\ x \notin NoMailbag /\ e \in own[x] \cup carried[x] => e \in has
      /\ has \subseteq own[x] \cup carried[x] /\ c \in joined
  BY <1>1 DEF Bag, Reads
<1> HIDE DEF has
<1>4. /\ frames \in Seq(FrameType) /\ \A n : ~Greets(frames, n)
      /\ \A e, t : Has(frames, t, e) <=> t = "event" /\ e \in has \ Large
  BY <1>2, FramesAre
<1> HIDE DEF frames, x
<1>5. /\ wire' \in Wires
      /\ \A d \in Ends : \A e, t : Has(wire'[d], t, e) =>
           Has(wire[d], t, e) \/ (d \in joined /\ d[1] = x /\ Has(frames, t, e))
      /\ \A d \in Ends : \A e, t : Has(wire[d], t, e) =>
           Has(wire'[d], t, e) \/ (d = Back(c) /\ t = "want" /\ e \in Arrived(c))
      /\ \A d \in Ends : \A e, t :
           d \in joined /\ d[1] = x /\ d \notin {} /\ Has(frames, t, e) => Has(wire'[d], t, e)
      /\ \A d \in Ends : \A n : Greets(wire'[d], n) =>
           Greets(wire[d], n) \/ (d \in joined /\ d[1] = x /\ Greets(frames, n))
  <2>1. wire' = ToAll(Rest(c), c[1], frames, {})
    BY <1>1 DEF x
  <2>q. QED BY <1>0, <1>1, <1>4, <2>1, Traffic DEF x
<1>6. MailTypes'
  BY <1>0, <1>1, <1>5 DEF MailTypes
<1>7. LinesAgree'
  BY <1>0, <1>1, <1>4, <1>5, <1>6, LinesRest
<1>8. BagsAgree'
  <2>1. \A d \in Ends : \A e :
          Has(wire'[d], "event", e) => Has(wire[d], "event", e) \/ (d[1] = x /\ e \in has)
    BY <1>4, <1>5
  <2>2. \A e \in has : e \in taken[x]
    BY <1>0, <1>3 DEF BagsAgree
  <2>3. \A d \in Ends : \A e : Has(wire'[d], "event", e) => e \in taken[d[1]]
    BY <1>0, <2>1, <2>2 DEF BagsAgree
  <2>q. QED BY <1>0, <1>1, <2>3 DEF BagsAgree
<1>9. ASSUME NEW d \in joined, NEW e \in (own[d[1]] \cup carried[d[1]]) \ Large,
             Back(d) \in joined, On(d, e), Owes(d[1], d[2])
      PROVE  Coming(d[1], d[2], e)'
  <2>0. d \in Ends /\ Back(d) \in Ends /\ Back(Back(d)) = d /\ Back(Back(c)) = c
    BY <1>0, EndFacts DEF MailTypes
  <2>1. CASE Back(d) = Back(c) /\ e \in Arrived(c)
    <3>1. d = c /\ x \notin NoMailbag /\ d[1] = x
      BY <1>9, <2>0, <2>1 DEF Owes, x
    <3>2. Has(wire'[d], "event", e)
      BY <1>3, <1>4, <1>5, <1>9, <2>1, <3>1
    <3>q. QED BY <1>1, <1>9, <3>2 DEF Coming, On
  <2>2. CASE ~(Back(d) = Back(c) /\ e \in Arrived(c))
    <3>1. On(d, e)'
      BY <1>5, <1>9, <2>0, <2>2 DEF On
    <3>q. QED BY <1>1, <1>9, <3>1 DEF Coming
  <2>q. QED BY <2>1, <2>2
<1>10. OffersArrive'
  <2>1. \A u, v \in Services : Owes(u, v)' => Owes(u, v)
    BY <1>1 DEF Owes
  <2>2. \A u \in Services : Top(u)' = Top(u)
    BY <1>1 DEF Top
  <2>q. QED BY <1>0, <1>1, <1>9, <2>1, <2>2, OffersKept
<1>q. QED BY <1>6, <1>7, <1>8, <1>10 DEF MailInv

LEMMA HearHelloKeeps ==
    ASSUME MailInv, NEW c \in Ends, HearHello(c) PROVE MailInv'
<1> DEFINE x == c[1]
           p == <<c[1], c[2]>>
           new == c \in named /\ greeted[p] = 0
           changed == c \in named /\ greeted[p] # Arrived(c)
           offer == changed \/ Key(c) \notin advertised
           greeting == IF new THEN Hello(x) ELSE <<>>
           offered == IF offer THEN Inventory(x, Bag(x)) ELSE <<>>
           frames == greeting \o offered
<1>0. MailTypes /\ BagsAgree /\ LinesAgree /\ OffersArrive /\ x \in Services /\ p \in Pairs
  BY EndFacts DEF MailInv
<1>1. /\ Reads(c, "hello") /\ wire' = ToAll(Rest(c), x, frames, {}) /\ c \in joined
      /\ UNCHANGED <<visible, nonce, own, carried, taken, joined>>
      /\ greeted' = IF c \in named THEN [greeted EXCEPT ![p] = Arrived(c)] ELSE greeted
      /\ missed' = IF offer THEN missed \ Linked(x) ELSE missed
  BY DEF HearHello, Reads
<1>2. greeting \in Seq(FrameType) /\ (\A n : Greets(greeting, n) => n = nonce[x])
      /\ \A e, t : Has(greeting, t, e) => t = "hello"
  <2>1. /\ Hello(x) \in Seq(FrameType) /\ \A n : Greets(Hello(x), n) => n = nonce[x]
        /\ \A e, t : Has(Hello(x), t, e) => t = "hello"
    BY <1>0, HelloFrame DEF MailTypes
  <2>2. greeting = Hello(x) \/ greeting = <<>>
    OBVIOUS
  <2> HIDE DEF greeting, x
  <2>3. CASE greeting = Hello(x)
    BY <2>1, <2>3
  <2>4. CASE greeting = <<>>
    BY <2>4, NothingAboard, Zenon
  <2>q. QED BY <2>2, <2>3, <2>4
<1>3. /\ offered \in Seq(FrameType) /\ \A n : ~Greets(offered, n)
      /\ \A e, t : Has(offered, t, e) => t = "inv"
      /\ offer /\ x \notin NoMailbag => \A e \in Top(x) : Has(offered, "inv", e)
  <2>1. /\ Inventory(x, Bag(x)) \in Seq(FrameType) /\ \A n : ~Greets(Inventory(x, Bag(x)), n)
        /\ \A e, t : Has(Inventory(x, Bag(x)), t, e) => t = "inv"
        /\ x \notin NoMailbag => \A e \in Top(x) : Has(Inventory(x, Bag(x)), "inv", e)
    BY <1>0, InventoryIs
  <2>2. \/ offer /\ offered = Inventory(x, Bag(x))
        \/ ~offer /\ offered = <<>>
    OBVIOUS
  <2> HIDE DEF offer, offered, x
  <2>3. CASE offer /\ offered = Inventory(x, Bag(x))
    BY <2>1, <2>3
  <2>4. CASE ~offer /\ offered = <<>>
    BY <2>4, NothingAboard, Zenon
  <2>q. QED BY <2>2, <2>3, <2>4
<1>31. changed => offer
  OBVIOUS
<1>32. Arrived(c) \in Nat /\ Greets(wire[Back(c)], Arrived(c))
  <2>1. /\ Head(wire[Back(c)]) \in FrameType /\ Head(wire[Back(c)]).type = "hello"
        /\ Greets(wire[Back(c)], Arrived(c))
    BY <1>0, <1>1, FrameRead DEF MailTypes
  <2>q. QED BY <2>1 DEF FrameType, Arrived
<1>33. \A q \in Pairs : \/ greeted'[q] = greeted[q]
                        \/ q = p /\ greeted'[q] = Arrived(c) /\ changed
  BY <1>0, <1>1 DEF MailTypes
<1>34. Arrived(c) <= nonce[c[2]] /\ visible[x]
  BY <1>0, <1>1, <1>32, EndFacts DEF LinesAgree
<1>35. visible[c[2]] /\ Arrived(c) = nonce[c[2]] => Back(c) \in joined
  BY <1>0, <1>1, <1>32 DEF LinesAgree
<1> HIDE DEF greeting, offered, offer, changed
<1>4. /\ frames \in Seq(FrameType) /\ \A n : Greets(frames, n) => n = nonce[x]
      /\ \A e, t : Has(frames, t, e) => t \in {"hello", "inv"}
      /\ offer /\ x \notin NoMailbag => \A e \in Top(x) : Has(frames, "inv", e)
  BY <1>2, <1>3, JoinedFrames
<1> HIDE DEF frames, x, p
<1>5. /\ wire' \in Wires
      /\ \A d \in Ends : \A e, t : Has(wire'[d], t, e) =>
           Has(wire[d], t, e) \/ (d \in joined /\ d[1] = x /\ Has(frames, t, e))
      /\ \A d \in Ends : \A e, t : Has(wire[d], t, e) =>
           Has(wire'[d], t, e) \/ (d = Back(c) /\ t = "hello" /\ e \in Arrived(c))
      /\ \A d \in Ends : \A e, t :
           d \in joined /\ d[1] = x /\ d \notin {} /\ Has(frames, t, e) => Has(wire'[d], t, e)
      /\ \A d \in Ends : \A n : Greets(wire'[d], n) =>
           Greets(wire[d], n) \/ (d \in joined /\ d[1] = x /\ Greets(frames, n))
  <2>1. wire' = ToAll(Rest(c), c[1], frames, {})
    BY <1>1 DEF x
  <2>q. QED BY <1>0, <1>1, <1>4, <2>1, Traffic DEF x
<1>6. MailTypes'
  <2>1. greeted' \in [Pairs -> Nat]
    BY <1>0, <1>1, <1>32 DEF MailTypes
  <2>q. QED BY <1>0, <1>1, <1>5, <2>1 DEF MailTypes
<1>7. LinesAgree'
  <2>1. \A d \in Ends : \A n : Greets(wire'[d], n) =>
          Greets(wire[d], n) \/ (d \in joined /\ n = nonce[d[1]])
    BY <1>4, <1>5
  <2>2. \A q \in Pairs : \/ greeted'[q] = greeted[q]
                         \/ visible[q[1]] /\ greeted'[q] <= nonce[q[2]]
    BY <1>33, <1>34 DEF p, x
  <2>q. QED BY <1>0, <1>1, <1>6, <2>1, <2>2, LinesRest
<1>8. BagsAgree'
  <2>1. \A d \in Ends : \A e : Has(wire'[d], "event", e) => Has(wire[d], "event", e)
    BY <1>4, <1>5
  <2>q. QED BY <1>0, <1>1, <2>1, BagsRest
<1>9. OffersArrive'
  <2>1. \A d \in Ends : \A e, t : t \in {"inv", "event", "want"} /\ Has(wire[d], t, e)
          => Has(wire'[d], t, e)
    BY <1>5
  <2>2. CASE offer
    <3>1. \A d \in joined : d \in Ends
      BY <1>0 DEF MailTypes
    <3>2. x \notin NoMailbag => \A d \in joined : \A e \in Top(x) :
            d[1] = x => Has(wire'[d], "inv", e)
      BY <1>4, <1>5, <2>2, <3>1
    <3>3. ASSUME NEW u \in Services, NEW v \in Services
          PROVE  \/ greeted'[<<u, v>>] = greeted[<<u, v>>]
                 \/ u = x /\ (visible[v] /\ greeted'[<<u, v>>] = nonce[v] => Live(u, v) # {})
      <4>1. CASE greeted'[<<u, v>>] # greeted[<<u, v>>]
        <5>1. u = c[1] /\ v = c[2] /\ greeted'[<<u, v>>] = Arrived(c)
          BY <1>33, <4>1, PairFacts DEF p
        <5>2. visible[v] /\ greeted'[<<u, v>>] = nonce[v] => c \in Live(u, v)
          BY <1>1, <1>35, <5>1, LiveIs
        <5>q. QED BY <5>1, <5>2 DEF x
      <4>q. QED BY <4>1
    <3>q. QED BY <1>0, <1>1, <2>1, <2>2, <3>2, <3>3, OffersSent
  <2>3. CASE ~offer
    <3>1. \A q \in Pairs : greeted'[q] = greeted[q]
      BY <1>31, <1>33, <2>3
    <3>2. \A u, v \in Services : Owes(u, v)' => Owes(u, v)
      BY <1>1, <2>3, <3>1, PairFacts DEF Owes
    <3>3. \A d \in joined : d \in Ends /\ Back(d) \in Ends
      BY <1>0, EndFacts DEF MailTypes
    <3>4. \A d \in joined : \A e : On(d, e) => On(d, e)'
      BY <2>1, <3>3 DEF On
    <3>q. QED BY <1>0, <1>1, <3>2, <3>4, OffersRest
  <2>q. QED BY <2>2, <2>3
<1>q. QED BY <1>6, <1>7, <1>8, <1>9 DEF MailInv

LEMMA HearEventKeeps ==
    ASSUME MailInv, NEW c \in Ends, HearEvent(c) PROVE MailInv'
<1> DEFINE x == c[1]
           new == Arrived(c) \ Bag(x)
           bag == IF x \in NoMailbag THEN carried[x] ELSE Pruned(carried[x] \cup new)
           top == Newest(own[x] \cup bag, MaxOffers)
           frames == IF new = {} THEN <<>> ELSE Inventory(x, own[x] \cup bag)
           but == IF c \in named THEN {d \in named : d[1] = x /\ d[2] = c[2]} ELSE {}
<1>0. MailTypes /\ BagsAgree /\ LinesAgree /\ OffersArrive /\ x \in Services
  BY EndFacts DEF MailInv
<1>1. /\ Reads(c, "event") /\ c \in joined
      /\ UNCHANGED <<visible, nonce, own, joined, greeted>>
  BY DEF HearEvent, Reads
<1>2. /\ new \in SUBSET Records /\ Arrived(c) \in SUBSET Records
      /\ new \cap (own[x] \cup carried[x]) = {}
      /\ \A e \in Arrived(c) : e \in new \/ e \in own[x] \cup carried[x]
      /\ \A e \in Arrived(c) : Has(wire[Back(c)], "event", e)
  BY <1>0, <1>1, ArrivedTypes, FrameRead DEF Bag, MailTypes
<1>3. /\ own[x] \in SUBSET Records /\ carried[x] \in SUBSET Records /\ taken[x] \in SUBSET Records
      /\ own[x] \cup carried[x] \subseteq taken[x] /\ own[x] \cap carried[x] = {}
      /\ Cardinality(own[x]) <= MaxBag /\ Cardinality(carried[x]) <= MaxBag
  BY <1>0 DEF MailTypes, BagsAgree
<1>4. /\ bag \in SUBSET Records /\ bag \subseteq carried[x] \cup new
      /\ Cardinality(bag) <= MaxBag
  <2>1. carried[x] \cup new \in SUBSET Records
    BY <1>2, <1>3
  <2>2. CASE x \in NoMailbag
    BY <1>3, <2>2
  <2>3. CASE x \notin NoMailbag
    <3>1. bag = Newest(carried[x] \cup new, MaxBag) /\ MaxBag \in Nat
      BY <2>3, RecordFacts DEF Pruned
    <3> HIDE DEF bag, new
    <3>q. QED BY <2>1, <3>1, NewestPart, KeepsAtMost
  <2>q. QED BY <2>2, <2>3
<1>5. x \notin NoMailbag => top \subseteq Top(x) \cup new
  <2>1. SUFFICES ASSUME x \notin NoMailbag PROVE top \subseteq Top(x) \cup new
    OBVIOUS
  <2>2. /\ own[x] \cup bag = Pruned(carried[x] \cup new) \cup own[x]
        /\ own[x] \cup carried[x] = carried[x] \cup own[x]
        /\ carried[x] \cap own[x] = {} /\ new \cap own[x] = {} /\ MaxOffers \in Nat
    BY <1>2, <1>3, <2>1, RecordFacts
  <2> HIDE DEF bag, new, x
  <2>3. Newest(Pruned(carried[x] \cup new) \cup own[x], MaxOffers)
          \subseteq Newest(carried[x] \cup own[x], MaxOffers) \cup new
    BY <1>2, <1>3, <2>2, StillNewest
  <2>q. QED BY <2>2, <2>3 DEF Top
<1>6. /\ wire' = ToAll(Rest(c), x, frames, but)
      /\ carried' = IF new = {} THEN carried ELSE [carried EXCEPT ![x] = bag]
      /\ taken' = IF new = {} THEN taken ELSE [taken EXCEPT ![x] = @ \cup new]
      /\ missed' = IF new = {} THEN missed ELSE missed \cup Unlinked(x)
  <2>1. CASE new = {}
    <3>1. wire' = Rest(c) /\ carried' = carried /\ taken' = taken /\ missed' = missed
      BY <2>1 DEF HearEvent
    <3>2. Rest(c) \in Wires
      BY <1>0, <1>1, FrameRead DEF MailTypes
    <3>3. ToAll(Rest(c), x, <<>>, but) = Rest(c)
      <4> DEFINE w == Rest(c)
      <4>1. \A d \in Ends : w[d] \o <<>> = w[d]
        <5> HIDE DEF w
        <5>1. \A d \in Ends : w[d] \in Seq(FrameType)
          BY <3>2 DEF Wires, w
        <5>q. QED BY <5>1
      <4>2. w = [d \in Ends |-> w[d]]
        <5> HIDE DEF w
        <5>q. QED BY <3>2 DEF Wires, w
      <4> HIDE DEF w, but
      <4>3. ToAll(w, x, <<>>, but) = w
        BY <4>1, <4>2 DEF ToAll
      <4>q. QED BY <4>3 DEF w
    <3>q. QED BY <2>1, <3>1, <3>3
  <2>2. CASE new # {}
    BY <2>2 DEF HearEvent
  <2>q. QED BY <2>1, <2>2
<1>61. \A d \in but : d[1] = x /\ d[2] = c[2]
  OBVIOUS
<1> HIDE DEF but
<1>7. /\ frames \in Seq(FrameType) /\ \A n : ~Greets(frames, n)
      /\ \A e, t : Has(frames, t, e) => t = "inv"
      /\ new # {} /\ x \notin NoMailbag => \A e \in top : Has(frames, "inv", e)
  <2>1. top \in SUBSET Records
    BY <1>3, <1>4, NewestPart
  <2>2. frames \in {<<>>, Frames("inv", top)} /\ (new # {} /\ x \notin NoMailbag => frames = Frames("inv", top))
    BY DEF Inventory
  <2>3. /\ Frames("inv", top) \in Seq(FrameType) /\ \A n : ~Greets(Frames("inv", top), n)
        /\ \A e, t : Has(Frames("inv", top), t, e) <=> t = "inv" /\ e \in top
    BY <2>1, FramesAre
  <2> HIDE DEF top, frames, new, x
  <2>4. CASE frames = Frames("inv", top)
    BY <2>3, <2>4
  <2>5. CASE frames = <<>> /\ (new = {} \/ x \in NoMailbag)
    BY <2>5, NothingAboard, Zenon
  <2>q. QED BY <2>2, <2>4, <2>5
<1>8. \A y \in Services : /\ y # x => carried'[y] = carried[y] /\ taken'[y] = taken[y]
                          /\ taken[y] \subseteq taken'[y]
  BY <1>0, <1>6 DEF MailTypes
<1>9. /\ new \subseteq taken'[x]
      /\ carried'[x] \in {carried[x], bag} /\ (new # {} => carried'[x] = bag)
      /\ new = {} => carried'[x] = carried[x]
  BY <1>0, <1>6 DEF MailTypes
<1> HIDE DEF frames, top, bag, new
<1>10. /\ wire' \in Wires
       /\ \A d \in Ends : \A e, t : Has(wire'[d], t, e) =>
            Has(wire[d], t, e) \/ (d \in joined /\ d[1] = x /\ Has(frames, t, e))
       /\ \A d \in Ends : \A e, t : Has(wire[d], t, e) =>
            Has(wire'[d], t, e) \/ (d = Back(c) /\ t = "event" /\ e \in Arrived(c))
       /\ \A d \in Ends : \A e, t :
            d \in joined /\ d[1] = x /\ d \notin but /\ Has(frames, t, e) => Has(wire'[d], t, e)
       /\ \A d \in Ends : \A n : Greets(wire'[d], n) =>
            Greets(wire[d], n) \/ (d \in joined /\ d[1] = x /\ Greets(frames, n))
  BY <1>0, <1>1, <1>6, <1>7, Traffic
<1>11. MailTypes'
  <2>1. carried' \in [Services -> SUBSET Records] /\ taken' \in [Services -> SUBSET Records]
    BY <1>0, <1>2, <1>4, <1>6 DEF MailTypes
  <2>q. QED BY <1>0, <1>1, <1>10, <2>1 DEF MailTypes
<1>12. LinesAgree'
  BY <1>0, <1>1, <1>7, <1>10, <1>11, LinesRest
<1>13. BagsAgree'
  <2>1. \A d \in Ends : \A e : Has(wire'[d], "event", e) => e \in taken'[d[1]]
    <3>1. \A d \in Ends : \A e : Has(wire'[d], "event", e) => Has(wire[d], "event", e)
      BY <1>7, <1>10
    <3>2. \A d \in Ends : \A e : Has(wire[d], "event", e) => e \in taken[d[1]]
      BY <1>0 DEF BagsAgree
    <3>q. QED BY <1>8, <3>1, <3>2, EndFacts
  <2>2. ASSUME NEW y \in Services
        PROVE  /\ own[y] \cup carried'[y] \subseteq taken'[y] /\ own[y] \cap carried'[y] = {}
               /\ Cardinality(own[y]) <= MaxBag /\ Cardinality(carried'[y]) <= MaxBag
    <3>1. CASE y = x
      <4>1. carried'[x] \subseteq carried[x] \cup new /\ Cardinality(carried'[x]) <= MaxBag
        BY <1>3, <1>4, <1>9
      <4>q. QED BY <1>2, <1>3, <1>8, <1>9, <3>1, <4>1
    <3>2. CASE y # x
      BY <1>0, <1>8, <3>2 DEF BagsAgree
    <3>q. QED BY <3>1, <3>2
  <2>q. QED BY <1>1, <2>1, <2>2 DEF BagsAgree
<1>14. ASSUME NEW d \in joined, NEW e, Back(d) \in joined, On(d, e)
       PROVE  Coming(d[1], d[2], e)'
  <2>1. d \in Ends /\ Back(d) \in Ends
    BY <1>0, EndFacts DEF MailTypes
  <2>2. CASE d = Back(c) /\ e \in Arrived(c)
    <3>1. d[2] = x
      BY <2>2, EndFacts
    <3>2. e \in taken'[x]
      BY <1>0, <1>2, <1>3, <1>8, <1>9, <2>2
    <3>q. QED BY <3>1, <3>2 DEF Coming
  <2>3. CASE ~(d = Back(c) /\ e \in Arrived(c))
    <3>1. On(d, e)'
      BY <1>10, <1>14, <2>1, <2>3 DEF On
    <3>q. QED BY <1>1, <1>14, <3>1 DEF Coming
  <2>q. QED BY <2>2, <2>3
<1>15. ASSUME NEW u \in Services, NEW v \in Services, Owes(u, v)', NEW e \in Top(u)' \ Large
       PROVE  (Owes(u, v) /\ e \in Top(u)) \/ Coming(u, v, e)'
  <2>0. missed \subseteq missed' /\ Owes(u, v)
    BY <1>1, <1>6, <1>15 DEF Owes
  <2>1. CASE u = x /\ new # {}
    <3>1. e \in top /\ x \notin NoMailbag
      BY <1>1, <1>9, <1>15, <2>0, <2>1 DEF Owes, top, Top
    <3>2. Live(x, v) # {}
      BY <1>0, <1>6, <1>15, <2>1, LinkedAre DEF Owes
    <3>3. PICK d \in joined : d[1] = x /\ d[2] = v /\ Back(d) \in joined
      BY <3>2, LiveIs
    <3>4. d \in Ends
      BY <1>0 DEF MailTypes
    <3>5. CASE d \notin but
      <4>1. Has(wire'[d], "inv", e)
        BY <1>7, <1>10, <2>1, <3>1, <3>3, <3>4, <3>5
      <4>q. QED BY <1>1, <2>1, <3>3, <4>1 DEF Coming, On
    <3>6. CASE d \in but /\ e \in new
      <4>1. v = c[2] /\ Has(wire[Back(c)], "event", e) /\ Back(c) \in Ends /\ Back(c)[1] = c[2]
        BY <1>2, <1>61, <3>3, <3>6, EndFacts DEF new
      <4>2. e \in taken[v]
        BY <1>0, <4>1 DEF BagsAgree
      <4>q. QED BY <1>8, <4>2 DEF Coming
    <3>7. CASE e \notin new
      BY <1>5, <2>0, <2>1, <3>1, <3>7
    <3>q. QED BY <3>5, <3>6, <3>7
  <2>2. CASE u # x \/ new = {}
    <3>1. carried'[u] = carried[u]
      BY <1>8, <1>9, <2>2
    <3>2. Top(u)' = Top(u)
      BY <1>1, <3>1 DEF Top
    <3>q. QED BY <1>15, <2>0, <3>2
  <2>q. QED BY <2>1, <2>2
<1>16. OffersArrive'
  BY <1>0, <1>8, <1>14, <1>15, OffersKept
<1>q. QED BY <1>11, <1>12, <1>13, <1>16 DEF MailInv

-----------------------------------------------------------------------------
(* The user.                                                                 *)

LEMMA WipeKeeps ==
    ASSUME MailInv, NEW x \in Services, Wipe(x) PROVE MailInv'
<1>0. MailTypes /\ BagsAgree /\ LinesAgree /\ OffersArrive
  BY DEF MailInv
<1>1. UNCHANGED <<visible, nonce, taken, joined, wire, greeted, missed>>
  BY DEF Wipe
<1>2. \A y \in Services : /\ y = x => own'[y] = {} /\ carried'[y] = {}
                          /\ y # x => own'[y] = own[y] /\ carried'[y] = carried[y]
  BY <1>0 DEF Wipe, MailTypes
<1>3. MailTypes'
  BY <1>0, <1>1 DEF MailTypes, Wipe
<1>4. LinesAgree'
  BY <1>0, <1>1 DEF LinesAgree
<1>5. BagsAgree'
  <2>1. Cardinality({}) = 0 /\ MaxBag \in Nat
    BY FS_EmptySet, RecordFacts
  <2>2. ASSUME NEW y \in Services
        PROVE  /\ own'[y] \cup carried'[y] \subseteq taken[y] /\ own'[y] \cap carried'[y] = {}
               /\ Cardinality(own'[y]) <= MaxBag /\ Cardinality(carried'[y]) <= MaxBag
    <3>1. CASE y = x
      <4>1. own'[y] = {} /\ carried'[y] = {}
        BY <1>2, <3>1
      <4>q. QED BY <2>1, <4>1
    <3>2. CASE y # x
      BY <1>0, <1>2, <3>2 DEF BagsAgree
    <3>q. QED BY <3>1, <3>2
  <2>q. QED BY <1>0, <1>1, <2>2 DEF BagsAgree
<1>6. OffersArrive'
  <2>1. \A y \in Services : Top(y)' \subseteq Top(y)
    <3> TAKE y \in Services
    <3>1. CASE y = x
      <4>1. own'[y] \cup carried'[y] = {}
        BY <1>2, <3>1
      <4>q. QED BY <4>1, NewestPart DEF Top
    <3>2. CASE y # x
      BY <1>2, <3>2 DEF Top
    <3>q. QED BY <3>1, <3>2
  <2>2. \A u, v \in Services : Owes(u, v)' => Owes(u, v)
    BY <1>1 DEF Owes
  <2>3. ASSUME NEW c \in joined, NEW e, Back(c) \in joined, On(c, e)
        PROVE  Coming(c[1], c[2], e)'
    BY <1>1, <2>3 DEF Coming, On
  <2>q. QED BY <1>0, <1>1, <2>1, <2>2, <2>3, OffersKept
<1>q. QED BY <1>3, <1>4, <1>5, <1>6 DEF MailInv

LEMMA PublishKeeps ==
    ASSUME MailInv, NEW e \in Records, PublishNearby(e) PROVE MailInv'
<1> DEFINE x == AuthorOf[e]
           bag == IF x \in NoMailbag THEN own[x] ELSE Pruned(own[x] \cup {e})
           frames == Frames("event", {e} \ Large)
<1>0. MailTypes /\ BagsAgree /\ LinesAgree /\ OffersArrive /\ x \in Services
  BY RecordFacts DEF MailInv
<1>1. /\ e \notin taken[x] /\ wire' = ToAll(wire, x, frames, {})
      /\ taken' = [taken EXCEPT ![x] = @ \cup {e}] /\ missed' = missed \cup Unlinked(x)
      /\ UNCHANGED <<visible, nonce, joined, greeted>>
  BY DEF PublishNearby, EventFrames
<1>2. /\ own[x] \in SUBSET Records /\ carried[x] \in SUBSET Records
      /\ own[x] \cup carried[x] \subseteq taken[x] /\ own[x] \cap carried[x] = {}
      /\ Cardinality(own[x]) <= MaxBag /\ Cardinality(carried[x]) <= MaxBag
      /\ e \notin own[x] /\ e \notin carried[x]
  BY <1>0, <1>1 DEF MailTypes, BagsAgree
<1>3. Pruned(carried[x] \ {e}) = carried[x]
  <2>1. carried[x] \ {e} = carried[x] /\ MaxBag \in Nat
    BY <1>2, RecordFacts
  <2>q. QED BY <1>2, <2>1, KeepsSmall DEF Pruned
<1>4. carried' = carried /\ own' = [own EXCEPT ![x] = bag]
  <2>1. CASE x \in NoMailbag
    BY <1>0, <2>1 DEF PublishNearby, MailTypes
  <2>2. CASE x \notin NoMailbag
    BY <1>0, <1>3, <2>2 DEF PublishNearby, MailTypes
  <2>q. QED BY <2>1, <2>2
<1>5. /\ bag \in SUBSET Records /\ bag \subseteq own[x] \cup {e}
      /\ Cardinality(bag) <= MaxBag
  <2>1. CASE x \in NoMailbag
    BY <1>2, <2>1
  <2>2. CASE x \notin NoMailbag
    <3>1. bag = Newest(own[x] \cup {e}, MaxBag) /\ MaxBag \in Nat
          /\ own[x] \cup {e} \in SUBSET Records
      BY <1>2, <2>2, RecordFacts DEF Pruned
    <3> HIDE DEF bag
    <3>q. QED BY <3>1, NewestPart, KeepsAtMost
  <2>q. QED BY <2>1, <2>2
<1>6. x \notin NoMailbag => Newest(bag \cup carried[x], MaxOffers) \subseteq Top(x) \cup {e}
  <2>1. SUFFICES ASSUME x \notin NoMailbag
                 PROVE  Newest(Pruned(own[x] \cup {e}) \cup carried[x], MaxOffers)
                          \subseteq Newest(own[x] \cup carried[x], MaxOffers) \cup {e}
    BY DEF Top
  <2>2. {e} \in SUBSET Records /\ {e} \cap carried[x] = {} /\ MaxOffers \in Nat
    BY <1>2, RecordFacts
  <2> HIDE DEF x
  <2>q. QED BY <1>2, <2>2, StillNewest
<1>7. /\ frames \in Seq(FrameType) /\ \A n : ~Greets(frames, n)
      /\ \A f, t : Has(frames, t, f) <=> t = "event" /\ f = e /\ e \notin Large
  <2>1. {e} \ Large \in SUBSET Records
    OBVIOUS
  <2>q. QED BY <2>1, FramesAre
<1> HIDE DEF frames, bag
<1>8. /\ wire' \in Wires
      /\ \A d \in Ends : \A f, t : Has(wire'[d], t, f) <=>
           Has(wire[d], t, f) \/ (d \in joined /\ d[1] = x /\ Has(frames, t, f))
      /\ \A d \in Ends : \A n : Greets(wire'[d], n) =>
           Greets(wire[d], n) \/ (d \in joined /\ d[1] = x /\ Greets(frames, n))
  BY <1>0, <1>1, <1>7, Broadcast
<1>9. /\ \A y \in Services : /\ y # x => own'[y] = own[y] /\ taken'[y] = taken[y]
                             /\ taken[y] \subseteq taken'[y]
      /\ own'[x] = bag /\ taken'[x] = taken[x] \cup {e}
  BY <1>0, <1>1, <1>4 DEF MailTypes
<1>10. MailTypes'
  <2>1. own' \in [Services -> SUBSET Records] /\ taken' \in [Services -> SUBSET Records]
    BY <1>0, <1>1, <1>4, <1>5 DEF MailTypes
  <2>q. QED BY <1>0, <1>1, <1>4, <1>8, <2>1 DEF MailTypes
<1>11. LinesAgree'
  BY <1>0, <1>1, <1>7, <1>8, <1>10, LinesRest
<1>12. BagsAgree'
  <2>1. \A d \in Ends : \A f : Has(wire'[d], "event", f) => f \in taken'[d[1]]
    <3>1. \A d \in Ends : \A f :
            Has(wire'[d], "event", f) => Has(wire[d], "event", f) \/ (d[1] = x /\ f = e)
      BY <1>7, <1>8
    <3>2. \A d \in Ends : \A f : Has(wire[d], "event", f) => f \in taken[d[1]]
      BY <1>0 DEF BagsAgree
    <3>3. ASSUME NEW d \in Ends, NEW f, Has(wire'[d], "event", f) PROVE f \in taken'[d[1]]
      <4>1. CASE d[1] = x /\ f = e
        BY <1>9, <4>1
      <4>2. CASE ~(d[1] = x /\ f = e)
        <5>1. f \in taken[d[1]] /\ d[1] \in Services
          BY <3>1, <3>2, <3>3, <4>2, EndFacts
        <5>q. QED BY <1>9, <5>1
      <4>q. QED BY <4>1, <4>2
    <3>q. QED BY <3>3
  <2>2. ASSUME NEW y \in Services
        PROVE  /\ own'[y] \cup carried[y] \subseteq taken'[y] /\ own'[y] \cap carried[y] = {}
               /\ Cardinality(own'[y]) <= MaxBag /\ Cardinality(carried[y]) <= MaxBag
    <3>1. CASE y = x
      BY <1>2, <1>5, <1>9, <3>1
    <3>2. CASE y # x
      BY <1>0, <1>9, <3>2 DEF BagsAgree
    <3>q. QED BY <3>1, <3>2
  <2>q. QED BY <1>4, <2>1, <2>2 DEF BagsAgree
<1>13. ASSUME NEW c \in joined, NEW f, Back(c) \in joined, On(c, f)
       PROVE  Coming(c[1], c[2], f)'
  <2>1. c \in Ends /\ Back(c) \in Ends
    BY <1>0, EndFacts DEF MailTypes
  <2>2. On(c, f)'
    BY <1>8, <1>13, <2>1 DEF On
  <2>q. QED BY <1>1, <1>13, <2>2 DEF Coming
<1>14. ASSUME NEW u \in Services, NEW v \in Services, Owes(u, v)', NEW f \in Top(u)' \ Large
       PROVE  (Owes(u, v) /\ f \in Top(u)) \/ Coming(u, v, f)'
  <2>0. Owes(u, v)
    BY <1>1, <1>14 DEF Owes
  <2>1. CASE u = x /\ f = e
    <3>1. Live(x, v) # {}
      BY <1>0, <1>1, <1>14, <2>1, LinkedAre DEF Owes
    <3>2. PICK d \in joined : d[1] = x /\ d[2] = v /\ Back(d) \in joined
      BY <3>1, LiveIs
    <3>3. d \in Ends
      BY <1>0 DEF MailTypes
    <3>4. Has(wire'[d], "event", e)
      BY <1>7, <1>8, <1>14, <2>1, <3>2, <3>3
    <3>q. QED BY <1>1, <2>1, <3>2, <3>4 DEF Coming, On
  <2>2. CASE u = x /\ f # e
    <3>1. Top(u)' = Newest(bag \cup carried[x], MaxOffers)
      BY <1>4, <1>9, <2>2 DEF Top
    <3>2. f \in Top(x)
      BY <1>6, <1>14, <2>0, <2>2, <3>1 DEF Owes
    <3>q. QED BY <2>0, <2>2, <3>2
  <2>3. CASE u # x
    <3>1. Top(u)' = Top(u)
      BY <1>4, <1>9, <2>3 DEF Top
    <3>q. QED BY <1>14, <2>0, <3>1
  <2>q. QED BY <2>1, <2>2, <2>3
<1>15. OffersArrive'
  BY <1>0, <1>9, <1>13, <1>14, OffersKept
<1>q. QED BY <1>10, <1>11, <1>12, <1>15 DEF MailInv

-----------------------------------------------------------------------------
(* Lines that are made and cut, services that are turned on and off.         *)

LEMMA TurnOnKeeps ==
    ASSUME MailInv, NEW x \in Services, TurnOn(x) PROVE MailInv'
<1>0. MailTypes /\ BagsAgree /\ LinesAgree /\ OffersArrive
  BY DEF MailInv
<1>1. /\ ~visible[x]
      /\ visible' = [visible EXCEPT ![x] = TRUE] /\ nonce' = [nonce EXCEPT ![x] = @ + 1]
      /\ missed' = {p \in missed : x \notin {p[1], p[2]}}
      /\ UNCHANGED <<own, carried, taken, joined, wire, greeted>>
  BY DEF TurnOn
<1>2. /\ nonce[x] \in Nat /\ nonce[x] >= 1 /\ nonce'[x] = nonce[x] + 1 /\ visible'[x]
      /\ \A y \in Services : y # x => nonce'[y] = nonce[y] /\ visible'[y] = visible[y]
  BY <1>0, <1>1 DEF MailTypes, LinesAgree
<1>3. \A p \in Pairs : /\ greeted[p] \in Nat /\ greeted[p] <= nonce[p[2]] /\ nonce[p[2]] \in Nat
                       /\ p[1] = x => greeted[p] = 0
                       /\ p[1] \in Services /\ p[2] \in Services
  BY <1>0, <1>1, PairFacts DEF MailTypes, LinesAgree
<1>4. MailTypes'
  <2>1. nonce' \in [Services -> Nat] /\ visible' \in [Services -> BOOLEAN]
    BY <1>0, <1>1, <1>2 DEF MailTypes
  <2>q. QED BY <1>0, <1>1, <2>1 DEF MailTypes
<1>5. LinesAgree'
  <2>1. \A y \in Services : nonce'[y] >= 1
    BY <1>0, <1>2 DEF LinesAgree
  <2>2. ASSUME NEW p \in Pairs
        PROVE  greeted[p] <= nonce'[p[2]] /\ (~visible'[p[1]] => greeted[p] = 0)
    <3>1. greeted[p] <= nonce'[p[2]]
      BY <1>2, <1>3
    <3>2. ~visible'[p[1]] => greeted[p] = 0
      BY <1>0, <1>2, <1>3 DEF LinesAgree
    <3>q. QED BY <3>1, <3>2
  <2>3. ASSUME NEW c \in Ends, NEW n, Greets(wire[c], n) PROVE n \in Nat /\ n <= nonce'[c[1]]
    <3>1. n \in Nat /\ n <= nonce[c[1]] /\ c[1] \in Services /\ nonce[c[1]] \in Nat
      BY <1>0, <2>3, EndFacts DEF LinesAgree, MailTypes
    <3>q. QED BY <1>2, <3>1
  <2>4. ASSUME NEW c \in joined PROVE visible'[c[1]]
    <3>1. visible[c[1]] /\ c[1] \in Services
      BY <1>0, EndFacts DEF LinesAgree, MailTypes
    <3>q. QED BY <1>2, <3>1
  <2>5. ASSUME NEW c \in joined, Back(c) \notin joined, visible'[c[2]]
        PROVE  ~Greets(wire[Back(c)], nonce'[c[2]])
    <3>1. c[2] \in Services /\ Back(c) \in Ends /\ Back(c)[1] = c[2]
      BY <1>0, EndFacts DEF MailTypes
    <3>2. CASE c[2] = x
      <4>1. \A n : Greets(wire[Back(c)], n) => n \in Nat /\ n <= nonce[x]
        BY <1>0, <3>1, <3>2 DEF LinesAgree
      <4>2. ~(nonce'[x] <= nonce[x])
        BY <1>2
      <4>q. QED BY <3>2, <4>1, <4>2
    <3>3. CASE c[2] # x
      BY <1>0, <1>2, <2>5, <3>1, <3>3 DEF LinesAgree
    <3>q. QED BY <3>2, <3>3
  <2>q. QED BY <1>1, <2>1, <2>2, <2>3, <2>4, <2>5 DEF LinesAgree
<1>6. BagsAgree'
  BY <1>0, <1>1, BagsRest
<1>7. OffersArrive'
  <2>1. ASSUME NEW u \in Services, NEW v \in Services, Owes(u, v)' PROVE Owes(u, v)
    <3>1. <<u, v>> \in Pairs /\ <<u, v>>[1] = u /\ <<u, v>>[2] = v /\ greeted[<<u, v>>] = nonce'[v]
      BY <1>1, <2>1, PairFacts DEF Owes
    <3>2. nonce'[v] >= 1 /\ v # x
      <4>1. greeted[<<u, v>>] <= nonce[v] /\ nonce[v] \in Nat /\ nonce[v] >= 1
        BY <1>0, <1>3, <3>1 DEF LinesAgree
      <4>q. QED BY <1>2, <3>1, <4>1
    <3>3. u # x
      BY <1>3, <3>1, <3>2
    <3>4. nonce'[v] = nonce[v] /\ visible'[v] = visible[v]
      BY <1>2, <3>2
    <3>5. <<u, v>> \notin missed
      BY <1>1, <2>1, <3>1, <3>2, <3>3 DEF Owes
    <3>q. QED BY <1>1, <2>1, <3>4, <3>5 DEF Owes
  <2>2. \A c \in joined : \A e : On(c, e) => On(c, e)'
    BY <1>1 DEF On
  <2>q. QED BY <1>0, <1>1, <2>1, <2>2, OffersRest
<1>q. QED BY <1>4, <1>5, <1>6, <1>7 DEF MailInv

LEMMA TurnOffKeeps ==
    ASSUME MailInv, NEW x \in Services, TurnOff(x) PROVE MailInv'
<1> DEFINE cut(c) == c[2] = x \/ (c[1] = x /\ Back(c) \notin joined)
<1>0. MailTypes /\ BagsAgree /\ LinesAgree /\ OffersArrive
  BY DEF MailInv
<1>1. /\ visible' = [visible EXCEPT ![x] = FALSE] /\ joined' = joined \ From(x)
      /\ greeted' = [p \in Pairs |-> IF p[1] = x THEN 0 ELSE greeted[p]]
      /\ UNCHANGED <<nonce, own, carried, taken, missed>>
  BY DEF TurnOff
<1>2. wire' = [c \in Ends |-> IF cut(c) THEN <<>> ELSE wire[c]]
  BY DEF TurnOff
<1>3. \A c \in Ends : (cut(c) => wire'[c] = <<>>) /\ (~cut(c) => wire'[c] = wire[c])
  BY <1>2
<1>4. /\ \A c \in Ends : \A e, t : Has(wire'[c], t, e) => Has(wire[c], t, e)
      /\ \A c \in Ends : \A n : Greets(wire'[c], n) => Greets(wire[c], n)
  <2> HIDE DEF cut
  <2>q. QED BY <1>3, NothingAboard, Zenon
<1>5. wire' \in Wires
  <2> HIDE DEF cut
  <2>1. ASSUME NEW c \in Ends PROVE wire'[c] \in Seq(FrameType)
    <3>1. wire[c] \in Seq(FrameType) /\ <<>> \in Seq(FrameType)
      BY <1>0, NothingAboard DEF MailTypes, Wires
    <3>2. wire'[c] = <<>> \/ wire'[c] = wire[c]
      BY <1>3
    <3>q. QED BY <3>1, <3>2, Zenon
  <2>q. QED BY <1>2, <2>1 DEF Wires
<1>6. /\ visible'[x] = FALSE
      /\ \A y \in Services : y # x => visible'[y] = visible[y]
      /\ \A p \in Pairs : /\ p[1] = x => greeted'[p] = 0
                          /\ p[1] # x => greeted'[p] = greeted[p]
      /\ \A c : c \in joined' <=> c \in joined /\ c[1] # x
  BY <1>0, <1>1 DEF MailTypes, From
<1>7. MailTypes'
  <2>1. visible' \in [Services -> BOOLEAN] /\ greeted' \in [Pairs -> Nat]
    BY <1>0, <1>1 DEF MailTypes
  <2>q. QED BY <1>0, <1>1, <1>5, <2>1 DEF MailTypes
<1>8. LinesAgree'
  <2>1. \A p \in Pairs : greeted'[p] <= nonce[p[2]] /\ (~visible'[p[1]] => greeted'[p] = 0)
    <3> TAKE p \in Pairs
    <3>1. p[1] \in Services /\ p[2] \in Services /\ nonce[p[2]] \in Nat
      BY <1>0, PairFacts DEF MailTypes
    <3>q. QED BY <1>0, <1>6, <3>1 DEF LinesAgree
  <2>2. \A c \in Ends : \A n : Greets(wire'[c], n) => n \in Nat /\ n <= nonce[c[1]]
    BY <1>0, <1>4 DEF LinesAgree
  <2>3. ASSUME NEW c \in joined' PROVE visible'[c[1]]
    <3>1. c \in joined /\ c[1] # x /\ c[1] \in Services
      BY <1>0, <1>6, EndFacts DEF MailTypes
    <3>q. QED BY <1>0, <1>6, <3>1 DEF LinesAgree
  <2>4. ASSUME NEW c \in joined', Back(c) \notin joined', visible'[c[2]]
        PROVE  ~Greets(wire'[Back(c)], nonce[c[2]])
    <3>1. c \in Ends /\ c \in joined /\ c[2] \in Services /\ Back(c) \in Ends /\ Back(c)[1] = c[2]
      BY <1>0, <1>6, EndFacts DEF MailTypes
    <3>2. c[2] # x
      BY <1>6, <2>4
    <3>3. Back(c) \notin joined /\ visible[c[2]]
      BY <1>6, <2>4, <3>1, <3>2
    <3>q. QED BY <1>0, <1>4, <3>1, <3>3 DEF LinesAgree
  <2>q. QED BY <1>0, <1>1, <2>1, <2>2, <2>3, <2>4 DEF LinesAgree
<1>9. BagsAgree'
  BY <1>0, <1>1, <1>4, BagsRest
<1>10. OffersArrive'
  <2>1. ASSUME NEW u \in Services, NEW v \in Services, Owes(u, v)'
        PROVE  Owes(u, v) /\ u # x /\ v # x
    <3>1. v # x /\ <<u, v>> \in Pairs /\ <<u, v>>[1] = u /\ greeted'[<<u, v>>] = nonce[v]
      BY <1>1, <1>6, <2>1, PairFacts DEF Owes
    <3>2. nonce[v] >= 1
      BY <1>0 DEF LinesAgree
    <3>3. u # x
      BY <1>6, <3>1, <3>2
    <3>q. QED BY <1>1, <1>6, <2>1, <3>1, <3>3 DEF Owes
  <2>2. ASSUME NEW c \in joined, NEW e, Back(c) \in joined, On(c, e), Owes(c[1], c[2])'
        PROVE  c \in joined' /\ Back(c) \in joined' /\ On(c, e)'
    <3>1. /\ c \in Ends /\ Back(c) \in Ends /\ Back(c)[1] = c[2] /\ Back(c)[2] = c[1]
          /\ c[1] \in Services /\ c[2] \in Services
      BY <1>0, EndFacts DEF MailTypes
    <3>2. c[1] # x /\ c[2] # x
      BY <2>1, <2>2, <3>1
    <3>3. wire'[c] = wire[c] /\ wire'[Back(c)] = wire[Back(c)]
      BY <1>3, <3>1, <3>2
    <3>q. QED BY <1>6, <2>2, <3>1, <3>2, <3>3 DEF On
  <2>q. QED BY <1>0, <1>1, <2>1, <2>2, OffersRest
<1>q. QED BY <1>7, <1>8, <1>9, <1>10 DEF MailInv

LEMMA DialKeeps ==
    ASSUME MailInv, NEW x \in Services, NEW y \in Services, <<x, y>> \in Dials, Dial(x, y)
    PROVE  MailInv'
<1> DEFINE c == <<x, y, "out">>
           both == joined \cup {c, Back(c)}
           to(d) == d \in both /\ d[1] \in {x, y}
<1>0. MailTypes /\ BagsAgree /\ LinesAgree /\ OffersArrive
  BY DEF MailInv
<1>1. /\ visible[x] /\ visible[y] /\ c \notin joined /\ Back(c) \notin joined /\ joined' = both
      /\ UNCHANGED <<visible, nonce, own, carried, taken, greeted, missed>>
  BY DEF Dial
<1>2. wire' = [d \in Ends |-> IF to(d) THEN wire[d] \o Hello(d[1]) ELSE wire[d]]
  BY DEF Dial
<1>3. c \in Ends /\ Back(c) \in Ends /\ c[1] = x /\ c[2] = y /\ Back(c)[1] = y /\ Back(c)[2] = x
  <2>1. c \in Ends /\ c[1] = x /\ c[2] = y
    BY DEF Ends, EndsOf
  <2> HIDE DEF c
  <2>q. QED BY <2>1, EndFacts
<1> HIDE DEF c
<1>4. \A d \in Ends : /\ Hello(d[1]) \in Seq(FrameType)
                      /\ \A e, t : Has(Hello(d[1]), t, e) => t = "hello"
                      /\ \A n : Greets(Hello(d[1]), n) <=> n = nonce[d[1]]
  BY <1>0, EndFacts, HelloFrame DEF MailTypes
<1>5. \A d \in Ends : /\ to(d) => wire'[d] = wire[d] \o Hello(d[1])
                      /\ ~to(d) => wire'[d] = wire[d]
                      /\ wire[d] \in Seq(FrameType)
  BY <1>0, <1>2 DEF MailTypes, Wires
<1>51. \A d : to(d) => d \in joined'
  BY <1>1
<1> HIDE DEF to
<1>6. ASSUME NEW d \in Ends
      PROVE  /\ wire'[d] \in Seq(FrameType)
             /\ \A e, t : t # "hello" => (Has(wire'[d], t, e) <=> Has(wire[d], t, e))
             /\ \A n : Greets(wire'[d], n) => Greets(wire[d], n) \/ (to(d) /\ n = nonce[d[1]])
  <2>1. CASE to(d)
    <3>1. /\ wire[d] \o Hello(d[1]) \in Seq(FrameType)
          /\ \A e, t : Has(wire[d] \o Hello(d[1]), t, e) <=>
               Has(wire[d], t, e) \/ Has(Hello(d[1]), t, e)
          /\ \A n : Greets(wire[d] \o Hello(d[1]), n) <=>
               Greets(wire[d], n) \/ Greets(Hello(d[1]), n)
      BY <1>4, <1>5, JoinedFrames
    <3>2. wire'[d] = wire[d] \o Hello(d[1])
      BY <1>5, <2>1
    <3>3. /\ \A e, t : Has(Hello(d[1]), t, e) => t = "hello"
          /\ \A n : Greets(Hello(d[1]), n) <=> n = nonce[d[1]]
      BY <1>4
    <3> HIDE <1>4, <1>5
    <3>q. QED BY <2>1, <3>1, <3>2, <3>3, Zenon
  <2>2. CASE ~to(d)
    BY <1>5, <2>2
  <2>q. QED BY <2>1, <2>2
<1>7. MailTypes'
  <2>1. wire' \in Wires
    BY <1>2, <1>6 DEF Wires
  <2>q. QED BY <1>0, <1>1, <1>3, <2>1 DEF MailTypes
<1>8. LinesAgree'
  <2>1. ASSUME NEW d \in Ends, NEW n, Greets(wire'[d], n) PROVE n \in Nat /\ n <= nonce[d[1]]
    <3>1. nonce[d[1]] \in Nat
      BY <1>0, EndFacts DEF MailTypes
    <3>2. Greets(wire[d], n) \/ n = nonce[d[1]]
      BY <1>6, <2>1
    <3>q. QED BY <1>0, <3>1, <3>2 DEF LinesAgree
  <2>2. \A d \in joined' : visible[d[1]]
    BY <1>0, <1>1, <1>3 DEF LinesAgree
  <2>3. ASSUME NEW d \in joined', Back(d) \notin joined', visible[d[2]]
        PROVE  ~Greets(wire'[Back(d)], nonce[d[2]])
    <3>1. d \in Ends /\ Back(d) \in Ends /\ Back(Back(d)) = d
      BY <1>0, <1>1, <1>3, EndFacts DEF MailTypes
    <3>2. d # c /\ d # Back(c)
      BY <1>1, <1>3, <2>3, EndFacts
    <3>3. d \in joined /\ Back(d) \notin joined /\ ~to(Back(d))
      BY <1>1, <1>51, <2>3, <3>2
    <3>q. QED BY <1>0, <1>5, <2>3, <3>1, <3>3 DEF LinesAgree
  <2>q. QED BY <1>0, <1>1, <2>1, <2>2, <2>3 DEF LinesAgree
<1>9. BagsAgree'
  BY <1>0, <1>1, <1>6, BagsRest
<1>10. OffersArrive'
  <2>1. \A u, v \in Services : Owes(u, v)' => Owes(u, v)
    BY <1>1 DEF Owes
  <2>2. ASSUME NEW d \in joined, NEW e, Back(d) \in joined, On(d, e)
        PROVE  d \in joined' /\ Back(d) \in joined' /\ On(d, e)'
    <3>1. d \in Ends /\ Back(d) \in Ends
      BY <1>0, EndFacts DEF MailTypes
    <3>q. QED BY <1>1, <1>6, <2>2, <3>1 DEF On
  <2>q. QED BY <1>0, <1>1, <2>1, <2>2, OffersRest
<1>q. QED BY <1>7, <1>8, <1>9, <1>10 DEF MailInv

\* Connections that end: what was on them is gone, and what the others carry stays.
LEMMA CutKeeps ==
    ASSUME MailInv, NEW c \in Ends, UNCHANGED <<visible, nonce, own, carried, taken, greeted>>,
           joined' \subseteq joined, \A d \in joined : d \in joined' \/ d = c \/ d = Back(c),
           c \notin joined', Back(c) \notin joined',
           wire' \in Wires,
           \A d \in Ends : wire'[d] = wire[d] \/ (wire'[d] = <<>> /\ (d = c \/ d = Back(c))),
           missed \subseteq missed',
           c \in joined /\ Back(c) \in joined /\ (wire[c] # <<>> \/ wire[Back(c)] # <<>>)
             => {<<c[1], c[2]>>, <<c[2], c[1]>>} \subseteq missed'
    PROVE  MailInv'
<1>0. MailTypes /\ BagsAgree /\ LinesAgree /\ OffersArrive
  BY DEF MailInv
<1>1. /\ \A d \in Ends : \A e, t : Has(wire'[d], t, e) => Has(wire[d], t, e)
      /\ \A d \in Ends : \A n : Greets(wire'[d], n) => Greets(wire[d], n)
  BY NothingAboard, Zenon
<1>2. MailTypes'
  BY <1>0 DEF MailTypes
<1>3. Back(c) \in Ends /\ Back(Back(c)) = c /\ Back(c)[1] = c[2] /\ Back(c)[2] = c[1]
  BY EndFacts
<1>4. LinesAgree'
  <2>1. ASSUME NEW d \in joined', Back(d) \notin joined', visible[d[2]]
        PROVE  ~Greets(wire'[Back(d)], nonce[d[2]])
    <3>1. d \in Ends /\ Back(d) \in Ends /\ Back(Back(d)) = d
      BY <1>0, EndFacts DEF MailTypes
    <3>2. d # c /\ d # Back(c) /\ Back(d) # c /\ Back(d) # Back(c)
      BY <1>3, <2>1, <3>1
    <3>3. d \in joined /\ Back(d) \notin joined
      BY <2>1, <3>2
    <3>q. QED BY <1>0, <1>1, <2>1, <3>1, <3>3 DEF LinesAgree
  <2>q. QED BY <1>0, <1>1, <2>1 DEF LinesAgree
<1>5. BagsAgree'
  BY <1>0, <1>1, BagsRest
<1>6. OffersArrive'
  <2>1. \A u, v \in Services : Owes(u, v)' => Owes(u, v)
    BY DEF Owes
  <2>2. ASSUME NEW d \in joined, NEW e, Back(d) \in joined, On(d, e), Owes(d[1], d[2])'
        PROVE  d \in joined' /\ Back(d) \in joined' /\ On(d, e)'
    <3>1. d \in Ends /\ Back(d) \in Ends /\ Back(Back(d)) = d
      BY <1>0, EndFacts DEF MailTypes
    <3>2. wire[d] # <<>> \/ wire[Back(d)] # <<>>
      BY <2>2, NothingAboard, Zenon DEF On
    <3>3. d # c /\ d # Back(c)
      BY <1>3, <2>2, <3>2 DEF Owes
    <3>4. Back(d) # c /\ Back(d) # Back(c)
      BY <1>3, <3>1, <3>3
    <3>5. wire'[d] = wire[d] /\ wire'[Back(d)] = wire[Back(d)]
      BY <3>1, <3>3, <3>4
    <3>q. QED BY <2>2, <3>3, <3>4, <3>5 DEF On
  <2>q. QED BY <1>0, <2>1, <2>2, OffersRest
<1>q. QED BY <1>2, <1>4, <1>5, <1>6 DEF MailInv

LEMMA BreakKeeps ==
    ASSUME MailInv, NEW c \in Ends, Break(c) PROVE MailInv'
<1>0. MailTypes /\ Back(c) \in Ends
  BY EndFacts DEF MailInv
<1>1. /\ joined' = joined \ {c, Back(c)}
      /\ wire' = [wire EXCEPT ![c] = <<>>, ![Back(c)] = <<>>]
      /\ missed' = IF wire[c] # <<>> \/ wire[Back(c)] # <<>>
                   THEN missed \cup {<<c[1], c[2]>>, <<c[2], c[1]>>} ELSE missed
      /\ UNCHANGED <<visible, nonce, own, carried, taken, greeted>>
  BY DEF Break
<1>2. wire' \in Wires
  BY <1>0, <1>1, NothingAboard DEF MailTypes, Wires
<1>3. \A d \in Ends : wire'[d] = wire[d] \/ (wire'[d] = <<>> /\ (d = c \/ d = Back(c)))
  BY <1>0, <1>1 DEF MailTypes, Wires
<1>q. QED BY <1>1, <1>2, <1>3, CutKeeps

LEMMA ClosedKeeps ==
    ASSUME MailInv, NEW c \in Ends, Closed(c) PROVE MailInv'
<1>0. MailTypes /\ Back(c) \in Ends
  BY EndFacts DEF MailInv
<1>1. /\ Back(c) \notin joined /\ joined' = joined \ {c} /\ wire' = [wire EXCEPT ![c] = <<>>]
      /\ UNCHANGED <<visible, nonce, own, carried, taken, greeted, missed>>
  BY DEF Closed
<1>2. wire' \in Wires
  BY <1>0, <1>1 DEF MailTypes, Wires
<1>3. \A d \in Ends : wire'[d] = wire[d] \/ (wire'[d] = <<>> /\ (d = c \/ d = Back(c)))
  BY <1>0, <1>1 DEF MailTypes, Wires
<1>q. QED BY <1>1, <1>2, <1>3, CutKeeps

-----------------------------------------------------------------------------
(* All together.                                                             *)

LEMMA MailStepKeeps ==
    ASSUME MailInv, [MailbagNext]_bagVars PROVE MailInv'
<1>1. CASE UNCHANGED bagVars
  <2>1. UNCHANGED <<visible, nonce, own, carried, taken, joined, wire, greeted, missed>>
    BY <1>1 DEF bagVars
  <2>q. QED BY <2>1 DEF MailInv, MailTypes, BagsAgree, LinesAgree, OffersArrive, Owes, Coming, On,
                        Top
<1>2. ASSUME NEW x \in Services, \/ TurnOn(x) \/ Announce(x) \/ TurnOff(x)
                                 \/ SayHello(x) \/ OfferAgain(x) \/ Wipe(x)
      PROVE  MailInv'
  BY <1>2, TurnOnKeeps, AnnounceKeeps, TurnOffKeeps, SayHelloKeeps, OfferAgainKeeps, WipeKeeps
<1>3. ASSUME NEW c \in Ends, Hear(c) PROVE MailInv'
  BY <1>3, HearHelloKeeps, HearOfferKeeps, HearWantKeeps, HearEventKeeps DEF Hear
<1>4. ASSUME NEW c \in Ends, Closed(c) \/ Named(c) \/ Break(c) PROVE MailInv'
  BY <1>4, ClosedKeeps, NamedKeeps, BreakKeeps
<1>5. ASSUME NEW p \in Dials, Dial(p[1], p[2]) PROVE MailInv'
  <2>1. p = <<p[1], p[2]>> /\ p[1] \in Services /\ p[2] \in Services
    BY RecordFacts
  <2>q. QED BY <1>5, <2>1, DialKeeps
<1>6. ASSUME NEW p \in Pairs, Expire(p[1], p[2]) PROVE MailInv'
  BY <1>6, ExpireKeeps, PairFacts
<1>7. ASSUME NEW e \in Records, PublishNearby(e) PROVE MailInv'
  BY <1>7, PublishKeeps
<1>q. QED BY <1>1, <1>2, <1>3, <1>4, <1>5, <1>6, <1>7 DEF MailbagNext

LEMMA NothingSaid ==
    ASSUME Hushed
    PROVE  \A c \in Ends : \A e, t : ~Has(wire[c], t, e)
BY NothingAboard DEF Hushed

\* When nothing is on the way between computers nearby, the app of each has been given every
\* event that a neighbour it has met offers and that fits into a frame (handle_hello,
\* handle_inventory, handle_want and handle_event_envelope of desktop_nearby.rs), however often
\* services and connections went and came, one or two for each pair, and wherever a frame was
\* when they did; but for what was lost with a connection, or came while there was none, since
\* the neighbour's last offer.
THEOREM NearbyAgree == MailbagSpec => []NeighboursAgree
<1>1. MailInv => NeighboursAgree
  <2> SUFFICES ASSUME MailInv, Hushed, NEW x \in Services, NEW y \in Services, Met(x, y),
                      {x, y} \cap NoMailbag = {}, <<x, y>> \notin missed,
                      NEW e \in Newest(Bag(x), MaxOffers) \ Large
               PROVE  e \in taken[y]
    BY DEF NeighboursAgree
  <2>1. PICK c \in joined : c[1] = x /\ c[2] = y /\ Back(c) \in joined
    BY LiveIs DEF Met
  <2>2. joined \subseteq Ends /\ Back(c)[1] = y
    BY <2>1, EndFacts DEF MailInv, MailTypes
  <2>3. visible[y]
    BY <2>1, <2>2 DEF MailInv, LinesAgree
  <2>4. Owes(x, y)
    BY <2>3 DEF Owes, Met
  <2>5. Coming(x, y, e)
    BY <2>4 DEF MailInv, OffersArrive, Bag, Top
  <2>6. \A d \in joined : d \in Ends /\ Back(d) \in Ends
    BY <2>2, EndFacts
  <2>7. \A d \in joined : ~On(d, e)
    BY <2>6, NothingSaid DEF On
  <2>q. QED BY <2>5, <2>7 DEF Coming
<1>q. QED BY <1>1, MailStarts, MailStepKeeps, PTL DEF MailbagSpec
=============================================================================
