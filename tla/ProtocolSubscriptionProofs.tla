---------------------- MODULE ProtocolSubscriptionProofs ----------------------
(* Theorems about ProtocolSubscription, for any relays, plans, tasks and        *)
(* disruptions.                                                                 *)
EXTENDS ProtocolSubscription, SequenceTheorems, TLAPS

-----------------------------------------------------------------------------
(* The invariant.                                                          *)

\* What the handlers keep of the actor's record s, whose relays are R, and what
\* they keep besides in a session (C): "planned", a plan is called for; "due", the
\* check has a deadline; "remembered", what is unapplied is.
Typed(s, R) ==
    /\ s \in ActorType /\ s.relays = R /\ s.cached \subseteq R
    /\ s.dialAgain \/ s.stale => s.dialing

\* An apply that is not old is the one the actor waits for, and works on the plan
\* desired now unless the flag says that it does not.
Awaited(s) ==
    /\ \A a \in s.applies : ~a.old =>
           s.inFlight /\ a.token = s.token /\ (s.dirty \/ a.plan = s.desired)
    /\ s.inFlight => \E a \in s.applies : ~a.old /\ a.token = s.token
    /\ s.dialing => \E k \in s.connects : k.token = s.dialToken

\* A deadline has a timer, unless a session started with queued work.
Timed(s) == "queued" \notin Disruptions /\ s.due # NoDue => s.live

Good(s, R, C) ==
    /\ Typed(s, R) /\ Awaited(s) /\ Timed(s)
    /\ "planned" \in C /\ R # {} => s.desired \in Plans
    /\ "due" \in C /\ R # {} => s.due # NoDue
    /\ "remembered" \in C /\ s.desired # s.applied => s.inFlight \/ s.dirty

\* The inductive invariant.
World ==
    /\ session \in {"none", "active", "suspended"} /\ want \in Plans
    /\ dialed \in BOOLEAN /\ up \subseteq Relays /\ (up # {} => dialed)
    /\ held \in [Relays -> Plans \cup {NoPlan}]
    /\ watched \subseteq actor.relays /\ news \in [Relays -> Seq(BOOLEAN)]
    /\ \A r \in Relays \ actor.relays : news[r] = <<>>

Inv ==
    /\ World
    /\ Good(actor, actor.relays, IF session = "active" THEN {"planned", "due"} ELSE {})
    /\ session = "suspended" => ~actor.inFlight /\ ~actor.dialing
Claims == SUBSET {"planned", "due", "remembered"}

\* Claims that the handlers keep: a deadline is kept as long as there is a plan.
Kept(C) == C \in Claims /\ ("due" \in C => "planned" \in C)

-----------------------------------------------------------------------------
(* The handlers' parts, from a set of records to a set of records.         *)

LEMMA NextTokenType == \A t \in Token : NextToken(t) \in Token
  BY BoundAssumption DEF NextToken, Token

LEMMA NoneAwaitedType ==
    ASSUME NEW A \in SUBSET ApplyType
    PROVE  /\ NoneAwaited(A) \in SUBSET ApplyType
           /\ \A a \in NoneAwaited(A) : a.old
  BY DEF NoneAwaited, ApplyType

\* A runtime that starts afresh waits for nothing and calls for nothing.
LEMMA ResetGood ==
    ASSUME NEW R, NEW s, Typed(s, R), NEW C, "planned" \in C \/ "due" \in C => R = {}
    PROVE  /\ Good(ResetRuntimes(s), R, C)
           /\ ~ResetRuntimes(s).inFlight /\ ~ResetRuntimes(s).dialing
           /\ ResetRuntimes(s).due = NoDue
  <1> DEFINE t == ResetRuntimes(s)
             A == NoneAwaited(s.applies)
  <1>1. A \in SUBSET ApplyType /\ \A a \in A : a.old
    BY NoneAwaitedType DEF Typed, ActorType
  <1> HIDE DEF A
  <1>2. t = [s EXCEPT !.desired = NoPlan, !.applied = NoPlan, !.inFlight = FALSE,
              !.dirty = FALSE, !.token = 0, !.due = NoDue, !.dialing = FALSE,
              !.dialAgain = FALSE, !.stale = FALSE, !.dialToken = 0, !.applies = A]
    BY DEF ResetRuntimes, A
  <1>3. 0 \in Token
    BY BoundAssumption DEF Token
  <1>4. /\ t \in ActorType /\ t.relays = R /\ t.cached = s.cached /\ t.applies = A
        /\ t.desired = NoPlan /\ t.applied = NoPlan /\ t.due = NoDue
        /\ ~t.inFlight /\ ~t.dialing /\ ~t.dialAgain /\ ~t.stale
    BY <1>1, <1>2, <1>3 DEF Typed, ActorType
  <1> HIDE DEF t
  <1>5. Typed(t, R) /\ Awaited(t) /\ Timed(t)
    BY <1>1, <1>4 DEF Typed, Awaited, Timed
  <1>6. Good(t, R, C)
    BY <1>4, <1>5 DEF Good
  <1> QED
    BY <1>4, <1>6 DEF t

\* A check that is scheduled keeps what holds and gives a plan a deadline.
LEMMA ScheduleGood ==
    ASSUME NEW R, NEW C, Kept(C), NEW S, NEW after \in {Soon, Later},
           \A s \in S : Good(s, R, C), NEW t \in Schedule(S, after)
    PROVE  /\ Good(t, R, C)
           /\ "planned" \in C => Good(t, R, C \cup {"due"})
  <1>1. PICK s \in S : t = IF ~SubscriptionWork(s) THEN [s EXCEPT !.due = NoDue]
                           ELSE IF s.due \in {Soon, after} THEN s
                           ELSE [s EXCEPT !.due = after, !.live = TRUE]
    BY DEF Schedule
  <1>2. Good(s, R, C) /\ s \in ActorType
    BY DEF Good, Typed
  <1>3. NoDue # Soon /\ NoDue # Later /\ after \in {NoDue, Soon, Later}
    BY DEF NoDue, Soon, Later
  <1>4. /\ t \in ActorType
        /\ t.relays = s.relays /\ t.cached = s.cached
        /\ t.desired = s.desired /\ t.applied = s.applied
        /\ t.inFlight = s.inFlight /\ t.dirty = s.dirty /\ t.token = s.token
        /\ t.dialing = s.dialing /\ t.dialAgain = s.dialAgain /\ t.stale = s.stale
        /\ t.dialToken = s.dialToken
        /\ t.applies = s.applies /\ t.connects = s.connects
    <2>1. CASE t = [s EXCEPT !.due = NoDue]
      BY <1>2, <2>1 DEF ActorType
    <2>2. CASE t = [s EXCEPT !.due = after, !.live = TRUE]
      BY <1>2, <1>3, <2>2 DEF ActorType
    <2> QED
      BY <1>1, <1>2, <2>1, <2>2
  <1>5. Typed(t, R) /\ Awaited(t)
    BY <1>2, <1>4 DEF Good, Typed, Awaited
  <1>6. Timed(t)
    BY <1>1, <1>2, <1>3 DEF Good, Timed, ActorType
  <1>7. "planned" \in C /\ R # {} => t.desired \in Plans /\ t.due # NoDue
    <2>1. SUFFICES ASSUME "planned" \in C, R # {} PROVE t.desired \in Plans /\ t.due # NoDue
      OBVIOUS
    <2>2. s.desired \in Plans /\ s.desired # NoPlan
      BY <1>2, <2>1, PlanAssumption DEF Good
    <2>3. SubscriptionWork(s)
      BY <2>2 DEF SubscriptionWork
    <2> QED
      BY <1>1, <1>2, <1>3, <1>4, <2>2, <2>3 DEF ActorType
  <1>8. "remembered" \in C /\ t.desired # t.applied => t.inFlight \/ t.dirty
    BY <1>2, <1>4 DEF Good
  <1> QED
    BY <1>5, <1>6, <1>7, <1>8 DEF Good, Kept

LEMMA RequestConnectionGood ==
    ASSUME NEW R, NEW C, NEW S,
           \A s \in S : Good(s, R, C), NEW t \in RequestConnection(S)
    PROVE  Good(t, R, C)
  <1> DEFINE New(s) == [token |-> NextToken(s.dialToken), at |-> "start", seen |-> {}]
  <1>1. PICK s \in S :
            t = IF s.relays = {} THEN s
                ELSE IF s.dialing /\ ~s.stale THEN [s EXCEPT !.dialAgain = TRUE]
                ELSE [s EXCEPT !.dialing = TRUE, !.dialAgain = FALSE, !.stale = FALSE,
                               !.dialToken = NextToken(s.dialToken),
                               !.connects = @ \cup {New(s)}]
    BY DEF RequestConnection
  <1>2. Good(s, R, C) /\ s \in ActorType
    BY DEF Good, Typed
  <1>3. NextToken(s.dialToken) \in Token /\ New(s) \in ConnectType
    BY <1>2, NextTokenType DEF ActorType, ConnectType
  <1> HIDE DEF New
  <1>4. /\ t \in ActorType
        /\ t.relays = s.relays /\ t.cached = s.cached
        /\ t.desired = s.desired /\ t.applied = s.applied /\ t.inFlight = s.inFlight
        /\ t.dirty = s.dirty /\ t.token = s.token /\ t.due = s.due /\ t.live = s.live
        /\ t.applies = s.applies
    BY <1>1, <1>2, <1>3 DEF ActorType
  <1>5. t.dialAgain \/ t.stale => t.dialing
    BY <1>1, <1>2 DEF Good, Typed, ActorType
  <1>6. t.dialing => \E k \in t.connects : k.token = t.dialToken
    <2>1. CASE (s.dialing /\ ~s.stale) \/ s.relays = {}
      BY <1>1, <1>2, <2>1 DEF Good, Awaited, ActorType
    <2>2. CASE ~(s.dialing /\ ~s.stale) /\ s.relays # {}
      <3>1. t = [s EXCEPT !.dialing = TRUE, !.dialAgain = FALSE, !.stale = FALSE,
                          !.dialToken = NextToken(s.dialToken),
                          !.connects = @ \cup {New(s)}]
        BY <1>1, <2>2
      <3>2. New(s) \in t.connects /\ t.dialToken = NextToken(s.dialToken)
        BY <1>2, <3>1 DEF ActorType
      <3> QED
        BY <3>2 DEF New
    <2> QED
      BY <2>1, <2>2
  <1>7. Typed(t, R) /\ Awaited(t) /\ Timed(t)
    BY <1>2, <1>4, <1>5, <1>6 DEF Good, Typed, Awaited, Timed
  <1> QED
    BY <1>2, <1>4, <1>7 DEF Good

LEMMA TransportRetryGood ==
    ASSUME NEW R, NEW C, Kept(C), NEW S,
           \A s \in S : Good(s, R, C), NEW t \in ScheduleTransportRetry(S)
    PROVE  Good(t, R, C)
  BY ScheduleGood DEF ScheduleTransportRetry

\* An apply that starts is the one the actor waits for.
LEMMA ApplyStartGood ==
    ASSUME NEW R, NEW C, NEW s, Good(s, R, C), ~s.inFlight,
           NEW a, a = [token |-> NextToken(s.token), plan |-> s.desired,
                       replaces |-> s.applied # NoPlan, old |-> FALSE,
                       at |-> "start", ok |-> FALSE, seen |-> {}],
           NEW t, t = [s EXCEPT !.inFlight = TRUE, !.dirty = FALSE,
                                !.token = NextToken(@), !.applies = @ \cup {a}]
    PROVE  Good(t, R, C)
  <1>1. s \in ActorType
    BY DEF Good, Typed
  <1>2. NextToken(s.token) \in Token /\ a \in ApplyType
    BY <1>1, NextTokenType DEF ActorType, ApplyType
  <1>3. a.token = NextToken(s.token) /\ a.plan = s.desired /\ ~a.old
    OBVIOUS
  <1>4. /\ t \in ActorType
        /\ t.relays = s.relays /\ t.cached = s.cached /\ t.desired = s.desired
        /\ t.applied = s.applied /\ t.due = s.due /\ t.live = s.live
        /\ t.dialing = s.dialing /\ t.dialAgain = s.dialAgain /\ t.stale = s.stale
        /\ t.dialToken = s.dialToken /\ t.connects = s.connects
        /\ t.inFlight /\ t.token = NextToken(s.token) /\ t.applies = s.applies \cup {a}
    BY <1>1, <1>2 DEF ActorType
  <1>5. \A b \in t.applies : ~b.old => b = a
    BY <1>4 DEF Good, Awaited
  <1>6. Awaited(t)
    BY <1>3, <1>4, <1>5 DEF Good, Awaited
  <1>7. Typed(t, R) /\ Timed(t)
    BY <1>4 DEF Good, Typed, Timed
  <1> QED
    BY <1>4, <1>6, <1>7 DEF Good

\* A plan that is left alone is the one applied, so reconciling a plan that is
\* called for makes it remembered.
LEMMA ReconcileGood ==
    ASSUME NEW R, NEW C, Kept(C), NEW S,
           \A s \in S : Good(s, R, C), NEW t \in Reconcile(S)
    PROVE  /\ Good(t, R, C)
           /\ (\A s \in S : s.desired \in Plans) => Good(t, R, C \cup {"remembered"})
  <1> DEFINE Apply(s) == [token |-> NextToken(s.token), plan |-> s.desired,
                          replaces |-> s.applied # NoPlan, old |-> FALSE,
                          at |-> "start", ok |-> FALSE, seen |-> {}]
             Dirty(s) == [s EXCEPT !.dirty = TRUE]
             All == C \cup {"remembered"}
             Started(s) == [s EXCEPT !.inFlight = TRUE, !.dirty = FALSE,
                               !.token = NextToken(@), !.applies = @ \cup {Apply(s)}]
  <1>1. PICK s \in S :
            t \in IF s.desired = NoPlan /\ s.applied = NoPlan /\ ~s.inFlight THEN {s}
                  ELSE IF s.inFlight THEN {Dirty(s)}
                  ELSE IF s.cached = {}
                       THEN ScheduleTransportRetry(RequestConnection({Dirty(s)}))
                  ELSE {Started(s)}
    BY DEF Reconcile
  <1>2. Good(s, R, C) /\ s \in ActorType /\ Kept(All)
    BY DEF Good, Typed, Kept, Claims
  <1>3. Good(Dirty(s), R, All)
    <2>1. /\ Dirty(s) \in ActorType /\ Dirty(s).dirty
          /\ Dirty(s).relays = s.relays /\ Dirty(s).cached = s.cached
          /\ Dirty(s).desired = s.desired /\ Dirty(s).applied = s.applied
          /\ Dirty(s).inFlight = s.inFlight /\ Dirty(s).token = s.token
          /\ Dirty(s).due = s.due /\ Dirty(s).live = s.live
          /\ Dirty(s).dialing = s.dialing /\ Dirty(s).dialAgain = s.dialAgain
          /\ Dirty(s).stale = s.stale /\ Dirty(s).dialToken = s.dialToken
          /\ Dirty(s).applies = s.applies /\ Dirty(s).connects = s.connects
      BY <1>2 DEF ActorType
    <2> HIDE DEF Dirty
    <2>2. Typed(Dirty(s), R) /\ Awaited(Dirty(s)) /\ Timed(Dirty(s))
      BY <1>2, <2>1 DEF Good, Typed, Awaited, Timed
    <2> QED
      BY <1>2, <2>1, <2>2 DEF Good
  <1>4. CASE s.desired = NoPlan /\ s.applied = NoPlan /\ ~s.inFlight
    BY <1>1, <1>2, <1>4, PlanAssumption
  <1>5. CASE s.inFlight
    <2>1. t = Dirty(s)
      BY <1>1, <1>5
    <2> QED
      BY <1>2, <1>3, <2>1 DEF Good
  <1>6. CASE ~(s.desired = NoPlan /\ s.applied = NoPlan) /\ ~s.inFlight /\ s.cached = {}
    <2>1. t \in ScheduleTransportRetry(RequestConnection({Dirty(s)}))
      BY <1>1, <1>6
    <2>2. \A d \in RequestConnection({Dirty(s)}) : Good(d, R, All)
      BY <1>3, RequestConnectionGood
    <2>3. Good(t, R, All)
      BY <1>2, <2>1, <2>2, TransportRetryGood
    <2> QED
      BY <1>2, <2>3 DEF Good
  <1>7. CASE ~(s.desired = NoPlan /\ s.applied = NoPlan) /\ ~s.inFlight /\ s.cached # {}
    <2>1. t = Started(s)
      BY <1>1, <1>7
    <2>2. Good(t, R, C)
      BY <1>2, <1>7, <2>1, ApplyStartGood
    <2>3. t.inFlight
      BY <1>2, <2>1 DEF ActorType
    <2> QED
      BY <2>2, <2>3 DEF Good
  <1> QED
    BY <1>4, <1>5, <1>6, <1>7

\* However it went in, what comes out of a refresh has the plan p, a deadline
\* for it, and what is unapplied remembered.
LEMMA RefreshGood ==
    ASSUME NEW R, NEW C, Kept(C), NEW S, \A s \in S : Good(s, R, C),
           NEW p \in Plans, NEW force \in BOOLEAN, NEW t \in RequestRefresh(S, p, force)
    PROVE  Good(t, R, {"planned", "due", "remembered"})
  <1> DEFINE All == {"planned", "due", "remembered"}
             Plan == {"planned"}
             Both == {"planned", "remembered"}
             With(s) == [s EXCEPT !.desired = p]
             Next2(s) == IF force \/ s.desired # p \/ s.applied # p
                         THEN Reconcile({With(s)}) ELSE {With(s)}
  <1>1. PICK s \in S : t \in IF s.relays = {} THEN {ResetRuntimes(s)}
                             ELSE Schedule(Next2(s), Later)
    BY DEF RequestRefresh
  <1>2. Good(s, R, C) /\ s \in ActorType /\ s.relays = R
    BY DEF Good, Typed
  <1>3. CASE s.relays = {}
    BY <1>1, <1>2, <1>3, ResetGood DEF Good
  <1>4. CASE s.relays # {}
    <2>1. t \in Schedule(Next2(s), Later)
      BY <1>1, <1>4
    <2>2. /\ With(s) \in ActorType /\ With(s).desired = p
          /\ With(s).relays = s.relays /\ With(s).cached = s.cached
          /\ With(s).dirty = s.dirty /\ With(s).applied = s.applied
          /\ With(s).inFlight = s.inFlight /\ With(s).token = s.token
          /\ With(s).due = s.due /\ With(s).live = s.live
          /\ With(s).dialing = s.dialing /\ With(s).dialAgain = s.dialAgain
          /\ With(s).stale = s.stale /\ With(s).dialToken = s.dialToken
          /\ With(s).applies = s.applies /\ With(s).connects = s.connects
      BY <1>2 DEF ActorType
    <2>3. Kept(Plan) /\ Kept(Both) /\ Both \cup {"due"} = All /\ Plan \cup {"remembered"} = Both
      BY DEF Kept, Claims
    <2>4. \A u \in Next2(s) : Good(u, R, Both)
      <3>1. p # NoPlan /\ With(s).desired # NoPlan
        BY <2>2, PlanAssumption
      <3>2. Typed(With(s), R) /\ Timed(With(s))
        BY <1>2, <2>2 DEF Good, Typed, Timed
      <3>3. CASE s.inFlight
        <4> DEFINE d == [With(s) EXCEPT !.dirty = TRUE]
        <4>1. CASE force \/ s.desired # p \/ s.applied # p
          <5>1. Reconcile({With(s)}) = {d}
            BY <2>2, <3>1, <3>3 DEF Reconcile
          <5> HIDE DEF With
          <5>2. /\ d \in ActorType /\ d.dirty
                /\ d.relays = With(s).relays /\ d.cached = With(s).cached
                /\ d.desired = p /\ d.inFlight /\ d.token = With(s).token
                /\ d.due = With(s).due /\ d.live = With(s).live
                /\ d.dialing = With(s).dialing /\ d.dialAgain = With(s).dialAgain
                /\ d.stale = With(s).stale /\ d.dialToken = With(s).dialToken
                /\ d.applies = With(s).applies /\ d.connects = With(s).connects
            BY <2>2, <3>3 DEF ActorType
          <5> HIDE DEF d
          <5>3. Typed(d, R) /\ Awaited(d) /\ Timed(d)
            BY <1>2, <2>2, <3>2, <3>3, <5>2 DEF Good, Typed, Awaited, Timed
          <5>4. Good(d, R, Both)
            BY <5>2, <5>3 DEF Good
          <5> QED
            BY <4>1, <5>1, <5>4
        <4>2. CASE ~(force \/ s.desired # p \/ s.applied # p)
          <5>1. Awaited(With(s))
            BY <1>2, <2>2, <4>2 DEF Good, Awaited
          <5>2. Good(With(s), R, Both)
            BY <2>2, <3>2, <3>3, <5>1 DEF Good
          <5> QED
            BY <4>2, <5>2
        <4> QED
          BY <4>1, <4>2
      <3>4. CASE ~s.inFlight
        <4>1. Awaited(With(s))
          BY <1>2, <2>2, <3>4 DEF Good, Awaited
        <4>2. Good(With(s), R, Plan)
          BY <2>2, <3>2, <4>1 DEF Good
        <4>3. CASE force \/ s.desired # p \/ s.applied # p
          <5> DEFINE W == {With(s)}
          <5>1. /\ \A u \in W : Good(u, R, Plan)
                /\ \A u \in W : u.desired \in Plans
            BY <2>2, <4>2
          <5>2. \A u \in Reconcile(W) : Good(u, R, Plan \cup {"remembered"})
            <6> HIDE DEF W, Plan
            <6> QED
              BY <2>3, <5>1, ReconcileGood
          <5> QED
            BY <2>3, <4>3, <5>2
        <4>4. CASE ~(force \/ s.desired # p \/ s.applied # p)
          <5>1. Good(With(s), R, Both)
            BY <2>2, <3>2, <4>1, <4>4 DEF Good
          <5> QED
            BY <4>4, <5>1
        <4> QED
          BY <4>3, <4>4
      <3> QED
        BY <3>3, <3>4
    <2>5. Good(t, R, Both \cup {"due"})
      <3>1. "planned" \in Both /\ Later \in {Soon, Later}
        OBVIOUS
      <3> HIDE DEF Both, Next2
      <3> QED
        BY <2>1, <2>3, <2>4, <3>1, ScheduleGood
    <2> QED
      BY <2>3, <2>5
  <1> QED
    BY <1>3, <1>4

\* Retries keep what holds.
LEMMA RetriesGood ==
    ASSUME NEW R, NEW C, Kept(C), NEW S, \A s \in S : Good(s, R, C),
           NEW p \in Plans, NEW t \in Retries(S, p)
    PROVE  Good(t, R, C)
  <1> DEFINE All == {"planned", "due", "remembered"}
             D == RequestRefresh(S, p, FALSE)
             P == RetryProtocol(S, p)
             Offline == {s \in P : s.cached = {}}
             Dialed == RequestConnection(Offline)
             Checked == ScheduleTransportRetry(Dialed)
             U == (P \ Offline) \cup Checked
  <1>1. Soon \in {Soon, Later} /\ Later \in {Soon, Later} /\ Kept(All)
    BY DEF Kept, Claims
  <1>2. \A u \in D : Good(u, R, All)
    BY RefreshGood
  <1>3. \A u \in Schedule(D, Soon) : Good(u, R, All)
    <2> HIDE DEF D, All
    <2> QED
      BY <1>1, <1>2, ScheduleGood
  <1>4. \A u \in P : Good(u, R, C)
    <2>1. \A u : Good(u, R, All) => Good(u, R, C)
      BY DEF Good, Kept, Claims
    <2> HIDE DEF All
    <2> QED
      BY <1>3, <2>1 DEF RetryProtocol
  <1> HIDE DEF P
  <1>5. \A u \in Dialed : Good(u, R, C)
    BY <1>4, RequestConnectionGood
  <1> HIDE DEF Dialed
  <1>6. \A u \in Checked : Good(u, R, C)
    BY <1>5, TransportRetryGood
  <1> HIDE DEF Checked
  <1>7. \A u \in Schedule(U, Later) : Good(u, R, C)
    <2>1. \A u \in U : Good(u, R, C)
      BY <1>4, <1>6
    <2> HIDE DEF U
    <2> QED
      BY <1>1, <2>1, ScheduleGood
  <1>8. t \in P \/ t \in Schedule(U, Later)
    BY DEF Retries, RetryPublishes, P, Checked, Dialed
  <1> QED
    BY <1>4, <1>7, <1>8

\* Retries leave the applied plan alone, or what is unapplied is remembered.
AppliedOr(t, x) == t.applied = x \/ (t.desired # t.applied => t.inFlight \/ t.dirty)

LEMMA AppliedOrScheduled ==
    ASSUME NEW x, NEW S, \A s \in S : s \in ActorType /\ AppliedOr(s, x),
           NEW after, NEW t \in Schedule(S, after)
    PROVE  AppliedOr(t, x)
  <1>1. PICK s \in S : t = IF ~SubscriptionWork(s) THEN [s EXCEPT !.due = NoDue]
                           ELSE IF s.due \in {Soon, after} THEN s
                           ELSE [s EXCEPT !.due = after, !.live = TRUE]
    BY DEF Schedule
  <1> QED
    BY <1>1 DEF AppliedOr, ActorType

LEMMA AppliedOrDialed ==
    ASSUME NEW x, NEW S, \A s \in S : s \in ActorType /\ AppliedOr(s, x),
           NEW t \in RequestConnection(S)
    PROVE  AppliedOr(t, x)
  <1>1. PICK s \in S :
            \/ t = s
            \/ t = [s EXCEPT !.dialAgain = TRUE]
            \/ t = [s EXCEPT !.dialing = TRUE, !.dialAgain = FALSE, !.stale = FALSE,
                             !.dialToken = NextToken(s.dialToken),
                             !.connects = @ \cup {[token |-> NextToken(s.dialToken),
                                                   at |-> "start", seen |-> {}]}]
    BY DEF RequestConnection
  <1> QED
    BY <1>1 DEF AppliedOr, ActorType

LEMMA RetriesApplied ==
    ASSUME NEW R, NEW C, Kept(C), NEW S, \A s \in S : Good(s, R, C),
           NEW x, \A s \in S : AppliedOr(s, x),
           NEW p \in Plans, NEW t \in Retries(S, p)
    PROVE  AppliedOr(t, x)
  <1> DEFINE D == RequestRefresh(S, p, FALSE)
             E == Schedule(D, Soon)
             P == RetryProtocol(S, p)
             Offline == {s \in P : s.cached = {}}
             Dialed == RequestConnection(Offline)
             Checked == ScheduleTransportRetry(Dialed)
             U == (P \ Offline) \cup Checked
             Fine(V) == \A u \in V : Good(u, R, C) /\ u \in ActorType /\ AppliedOr(u, x)
  <1>1. \A u : Good(u, R, C) => u \in ActorType
    BY DEF Good, Typed
  <1>2. Soon \in {Soon, Later} /\ Later \in {Soon, Later}
    OBVIOUS
  <1>3. Fine(D)
    <2>1. \A u \in D : Good(u, R, {"planned", "due", "remembered"})
      BY RefreshGood
    <2> HIDE DEF D
    <2> QED
      BY <1>1, <2>1 DEF Good, AppliedOr, Kept, Claims
  <1>4. ASSUME NEW V, NEW after \in {Soon, Later}, Fine(V)
        PROVE  Fine(Schedule(V, after))
    <2>1. \A u \in Schedule(V, after) : Good(u, R, C)
      BY <1>4, ScheduleGood
    <2>2. \A u \in Schedule(V, after) : AppliedOr(u, x)
      BY <1>4, AppliedOrScheduled
    <2> QED
      BY <1>1, <2>1, <2>2
  <1>5. ASSUME NEW V, Fine(V)
        PROVE  Fine(RequestConnection(V))
    <2>1. \A u \in RequestConnection(V) : Good(u, R, C)
      BY <1>5, RequestConnectionGood
    <2>2. \A u \in RequestConnection(V) : AppliedOr(u, x)
      BY <1>5, AppliedOrDialed
    <2> QED
      BY <1>1, <2>1, <2>2
  <1>6. Fine(P)
    <2>1. Fine(E)
      BY <1>2, <1>3, <1>4
    <2>2. Fine(S)
      BY <1>1
    <2>3. P \subseteq S \cup E
      BY DEF RetryProtocol
    <2> HIDE DEF E, P
    <2> QED
      BY <2>1, <2>2, <2>3
  <1>7. Retries(S, p) \subseteq P \cup Schedule(U, Later)
    BY DEF Retries, RetryPublishes
  <1> HIDE DEF P
  <1>8. Fine(Dialed)
    <2>1. Fine(Offline)
      BY <1>6
    <2> HIDE DEF Offline
    <2> QED
      BY <1>5, <2>1
  <1> HIDE DEF Dialed
  <1>9. Fine(Checked)
    BY <1>2, <1>4, <1>8 DEF ScheduleTransportRetry
  <1> HIDE DEF Checked
  <1>10. Fine(Schedule(U, Later))
    <2>1. Fine(U)
      BY <1>6, <1>9
    <2> HIDE DEF U
    <2> QED
      BY <1>2, <1>4, <2>1
  <1> QED
    BY <1>6, <1>7, <1>10

-----------------------------------------------------------------------------
(* The handlers and the tasks.                                             *)

Weak == {"planned", "due"}
Strong == {"planned", "due", "remembered"}

\* Inv with the claims C in a session; with Strong, it says Remembered as well.
Holds(C) ==
    /\ World
    /\ Good(actor, actor.relays, IF session = "active" THEN C ELSE {})
    /\ session = "suspended" => ~actor.inFlight /\ ~actor.dialing

LEMMA KeptClaims == Kept({}) /\ Kept(Weak) /\ Kept(Strong)
  BY DEF Kept, Claims, Weak, Strong

LEMMA InvHolds ==
    /\ Inv <=> Holds(Weak)
    /\ Holds(Strong) <=> Inv /\ Remembered
    /\ Holds(Strong)' <=> Inv' /\ Remembered'
  BY DEF Inv, Holds, Good, Weak, Strong, Remembered

LEMMA BecomesOne ==
    ASSUME NEW S, Becomes(S)
    PROVE  actor' \in S
  BY DEF Becomes

\* What a handler leaves alone when the actor's relays stay the same.
LEMMA WorldStays ==
    ASSUME World, actor'.relays = actor.relays, want' \in Plans,
           session' \in {"none", "active", "suspended"},
           UNCHANGED <<dialed, up, held, watched, news>>
    PROVE  World'
  BY DEF World

LEMMA NoNews == <<>> \in Seq(BOOLEAN)
  OBVIOUS

\* A session that goes away leaves no news; the client stops or is left alone.
LEMMA WorldAway ==
    ASSUME World, actor'.relays = actor.relays, want' = want,
           session' \in {"none", "active", "suspended"},
           watched' = {}, news' = [r \in Relays |-> <<>>],
           ClientStops \/ UNCHANGED <<dialed, up, held>>
    PROVE  World'
  <1>1. news' \in [Relays -> Seq(BOOLEAN)] /\ \A r \in Relays : news'[r] = <<>>
    BY NoNews
  <1>2. dialed' \in BOOLEAN /\ up' \subseteq Relays /\ (up' # {} => dialed')
        /\ held' \in [Relays -> Plans \cup {NoPlan}]
    BY DEF World, ClientStops
  <1> QED
    BY <1>1, <1>2 DEF World

LEMMA InitHolds == Init => Holds(Weak)
  <1> SUFFICES ASSUME Init PROVE Holds(Weak)
    OBVIOUS
  <1>1. 0 \in Token
    BY BoundAssumption DEF Token
  <1>2. Idle \in ActorType
    BY <1>1 DEF Idle, ActorType
  <1>3. World
    <2>1. actor.relays = Relays /\ want \in Plans /\ dialed \in BOOLEAN
      BY DEF Init, Idle
    <2>2. held \in [Relays -> Plans \cup {NoPlan}] /\ news \in [Relays -> Seq(BOOLEAN)]
      BY DEF Init
    <2> QED
      BY <2>1, <2>2 DEF Init, World
  <1>4. Typed(actor, actor.relays) /\ Awaited(actor) /\ Timed(actor)
    BY <1>2 DEF Init, Idle, Typed, Awaited, Timed
  <1> QED
    BY <1>3, <1>4 DEF Init, Holds, Good

\* A session that starts, starts afresh.
LEMMA StartHolds ==
    ASSUME Holds({}), NEW queued \in BOOLEAN, StartSession(queued)
    PROVE  Holds(Strong)'
  <1> DEFINE R == actor.relays
             s1 == [ResetRuntimes(actor) EXCEPT !.cached = {}]
             S1 == {s1}
             D == RequestRefresh(S1, want, FALSE)
             S2 == IF queued THEN Schedule(D, Soon) ELSE S1
             S3 == {[s EXCEPT !.live = FALSE] : s \in S2}
             S4 == RequestConnection(S3)
             S5 == Retries(S4, want)
  <1>1. want \in Plans /\ FALSE \in BOOLEAN /\ Kept({}) /\ Kept(Strong) /\ Soon \in {Soon, Later}
    BY KeptClaims DEF Holds, World
  <1>2. Good(s1, R, {}) /\ s1.due = NoDue
    <2> DEFINE u == ResetRuntimes(actor)
    <2>1. Good(u, R, {}) /\ u.due = NoDue
      BY ResetGood DEF Holds, Good
    <2> HIDE DEF u
    <2>2. /\ [u EXCEPT !.cached = {}] \in ActorType
          /\ \A f \in {"relays", "desired", "applied", "inFlight", "dirty", "token", "due",
                "live", "dialing", "dialAgain", "stale", "dialToken", "applies", "connects"} :
                [u EXCEPT !.cached = {}][f] = u[f]
          /\ [u EXCEPT !.cached = {}].cached = {}
      BY <2>1 DEF Good, Typed, ActorType
    <2> DEFINE v == [u EXCEPT !.cached = {}]
    <2>3. Typed(v, R) /\ Awaited(v) /\ Timed(v) /\ v.due = NoDue
      BY <2>1, <2>2 DEF Good, Typed, Awaited, Timed
    <2>4. v = s1
      BY DEF u
    <2> HIDE DEF v
    <2> QED
      BY <2>3, <2>4 DEF Good
  <1> HIDE DEF s1
  <1>3. \A s \in S1 : Good(s, R, {})
    BY <1>2
  <1>4. \A s \in S2 : Good(s, R, {})
    <2> HIDE DEF S1
    <2>1. \A s \in D : Good(s, R, Strong)
      BY <1>1, <1>3, RefreshGood DEF Strong
    <2>2. \A s \in D : Good(s, R, {})
      BY <2>1 DEF Good
    <2> HIDE DEF D
    <2>3. \A s \in Schedule(D, Soon) : Good(s, R, {})
      BY <1>1, <2>2, ScheduleGood
    <2> QED
      BY <1>3, <2>3
  <1>5. queued \/ \A s \in S2 : s.due = NoDue
    BY <1>2
  <1>6. queued => "queued" \in Disruptions
    BY DEF StartSession
  <1> HIDE DEF S2
  <1>7. \A s \in S3 : Good(s, R, {})
    <2> SUFFICES ASSUME NEW s \in S2 PROVE Good([s EXCEPT !.live = FALSE], R, {})
      OBVIOUS
    <2> DEFINE v == [s EXCEPT !.live = FALSE]
    <2>1. Good(s, R, {}) /\ s \in ActorType
      BY <1>4 DEF Good, Typed
    <2>2. /\ v \in ActorType
          /\ v.relays = s.relays /\ v.cached = s.cached /\ v.desired = s.desired
          /\ v.dirty = s.dirty /\ v.inFlight = s.inFlight /\ v.token = s.token
          /\ v.due = s.due /\ v.dialing = s.dialing /\ v.dialAgain = s.dialAgain
          /\ v.stale = s.stale /\ v.dialToken = s.dialToken
          /\ v.applies = s.applies /\ v.connects = s.connects
      BY <2>1 DEF ActorType
    <2> HIDE DEF v
    <2>3. Typed(v, R) /\ Awaited(v)
      BY <2>1, <2>2 DEF Good, Typed, Awaited
    <2>4. Timed(v)
      BY <1>5, <1>6, <2>2 DEF Timed
    <2>5. Good(v, R, {})
      BY <2>3, <2>4 DEF Good
    <2> QED
      BY <2>5 DEF v
  <1>8. actor' \in RequestRefresh(S5, want, FALSE)
    BY BecomesOne DEF StartSession, s1, S2
  <1> HIDE DEF S3
  <1>9. \A s \in S4 : Good(s, R, {})
    BY <1>7, RequestConnectionGood
  <1> HIDE DEF S4
  <1>10. \A s \in S5 : Good(s, R, {})
    BY <1>1, <1>9, RetriesGood
  <1> HIDE DEF S5
  <1>11. Good(actor', R, Strong)
    BY <1>1, <1>8, <1>10, RefreshGood DEF Strong
  <1>12. actor'.relays = actor.relays /\ actor' \in ActorType
    BY <1>11 DEF Good, Typed
  <1>13. World'
    BY <1>12 DEF World, Holds, StartSession
  <1> QED
    BY <1>11, <1>12, <1>13 DEF Holds, StartSession

\* A session that is suspended or ended waits for nothing.
LEMMA ResetAway ==
    ASSUME NEW s, NEW R, Typed(s, R), NEW A \in SUBSET ApplyType, NEW K \in SUBSET ConnectType,
           \A a \in A : a.old,
           NEW t, t = [ResetRuntimes(s) EXCEPT !.cached = {}, !.live = FALSE,
                          !.applies = A, !.connects = K]
    PROVE  Good(t, R, {}) /\ ~t.inFlight /\ ~t.dialing
  <1> DEFINE u == ResetRuntimes(s)
  <1>1. Good(u, R, {}) /\ ~u.inFlight /\ ~u.dialing /\ u.due = NoDue
    BY ResetGood
  <1> HIDE DEF u
  <1>2. /\ t \in ActorType
        /\ t.relays = u.relays /\ t.cached = {} /\ t.due = u.due
        /\ t.dialAgain = u.dialAgain /\ t.stale = u.stale /\ t.dialing = u.dialing
        /\ t.inFlight = u.inFlight /\ t.applies = A
    BY <1>1 DEF Good, Typed, ActorType, u
  <1>3. Typed(t, R) /\ Awaited(t) /\ Timed(t)
    BY <1>1, <1>2 DEF Good, Typed, Awaited, Timed
  <1> QED
    BY <1>1, <1>2, <1>3 DEF Good

LEMMA SuspendHolds ==
    ASSUME Holds({}), NEW stops \in BOOLEAN, Suspend(stops)
    PROVE  Holds(Strong)'
  <1> DEFINE u == ResetRuntimes(actor)
             R == actor.relays
  <1>1. Typed(actor, R) /\ u \in ActorType
    BY ResetGood DEF Holds, Good, Typed
  <1>2. \A a \in u.applies : a.old
    BY <1>1, NoneAwaitedType DEF ResetRuntimes, Typed, ActorType
  <1>3. actor' = [u EXCEPT !.cached = {}, !.live = FALSE]
    BY BecomesOne DEF Suspend
  <1> HIDE DEF u
  <1>4. actor' = [u EXCEPT !.cached = {}, !.live = FALSE,
                           !.applies = u.applies, !.connects = u.connects]
    BY <1>1, <1>3 DEF ActorType
  <1>5. u.applies \in SUBSET ApplyType /\ u.connects \in SUBSET ConnectType
    BY <1>1 DEF ActorType
  <1>6. Good(actor', R, {}) /\ ~actor'.inFlight /\ ~actor'.dialing
    BY <1>1, <1>2, <1>4, <1>5, ResetAway DEF u
  <1>7. actor'.relays = R
    BY <1>6 DEF Good, Typed
  <1>8. World'
    BY <1>7, WorldAway DEF Suspend, Holds
  <1> QED
    BY <1>6, <1>7, <1>8 DEF Holds, Suspend

LEMMA LogoutHolds ==
    ASSUME Holds({}), Logout
    PROVE  Holds(Strong)'
  <1> DEFINE u == ResetRuntimes(actor)
             R == actor.relays
             A == {[a EXCEPT !.at = "sent"] : a \in NoneAwaited(u.applies)}
             K == {[k EXCEPT !.at = "sent"] : k \in u.connects}
  <1>1. Typed(actor, R) /\ u \in ActorType
    BY ResetGood DEF Holds, Good, Typed
  <1>2. actor' = [u EXCEPT !.cached = {}, !.live = FALSE, !.applies = A, !.connects = K]
    BY BecomesOne DEF Logout
  <1> HIDE DEF u
  <1>3. A \in SUBSET ApplyType /\ \A a \in A : a.old
    <2>1. u.applies \in SUBSET ApplyType
      BY <1>1 DEF ActorType
    <2>2. NoneAwaited(u.applies) \in SUBSET ApplyType /\ \A a \in NoneAwaited(u.applies) : a.old
      BY <2>1, NoneAwaitedType
    <2> QED
      BY <2>2 DEF ApplyType
  <1>4. K \in SUBSET ConnectType
    BY <1>1 DEF ActorType, ConnectType
  <1> HIDE DEF A, K
  <1>5. Good(actor', R, {}) /\ ~actor'.inFlight /\ ~actor'.dialing
    BY <1>1, <1>2, <1>3, <1>4, ResetAway DEF u
  <1>6. actor'.relays = R
    BY <1>5 DEF Good, Typed
  <1>7. World'
    BY <1>6, WorldAway DEF Logout, Holds
  <1> QED
    BY <1>5, <1>6, <1>7 DEF Holds, Logout

\* A session that goes on connects and refreshes.
LEMMA ForegroundHolds ==
    ASSUME Holds({}), Foreground
    PROVE  Holds(Strong)'
  <1> DEFINE R == actor.relays
             S1 == {actor}
             S2 == RequestConnection(S1)
             S3 == RequestRefresh(S2, want, TRUE)
  <1>1. want \in Plans /\ TRUE \in BOOLEAN /\ Kept({}) /\ Kept(Strong)
    BY KeptClaims DEF Holds, World
  <1>2. \A s \in S1 : Good(s, R, {})
    BY DEF Holds, Good
  <1>3. actor' \in Retries(S3, want)
    BY BecomesOne DEF Foreground
  <1> HIDE DEF S1
  <1>4. \A s \in S2 : Good(s, R, {})
    BY <1>2, RequestConnectionGood
  <1> HIDE DEF S2
  <1>5. \A s \in S3 : Good(s, R, Strong)
    BY <1>1, <1>4, RefreshGood DEF Strong
  <1> HIDE DEF S3
  <1>6. Good(actor', R, Strong)
    BY <1>1, <1>3, <1>5, RetriesGood
  <1>7. actor'.relays = R
    BY <1>6 DEF Good, Typed
  <1>8. World'
    BY <1>7 DEF Foreground, World, Holds
  <1> QED
    BY <1>6, <1>7, <1>8 DEF Holds, Foreground

LEMMA EditRelaysHolds ==
    ASSUME Holds({}), NEW R \in SUBSET Relays, EditRelays(R)
    PROVE  Holds(Strong)'
  <1> DEFINE s1 == [actor EXCEPT !.relays = R, !.cached = @ \cap R]
             S1 == {s1}
             S2 == RequestConnection(S1)
             S3 == RequestRefresh(S2, want, TRUE)
  <1>1. want \in Plans /\ TRUE \in BOOLEAN /\ Kept({}) /\ Kept(Strong)
    BY KeptClaims DEF Holds, World
  <1>2. Good(s1, R, {})
    <2>1. actor \in ActorType
      BY DEF Holds, Good, Typed
    <2>2. /\ s1 \in ActorType /\ s1.relays = R /\ s1.cached \subseteq R
          /\ s1.desired = actor.desired /\ s1.dirty = actor.dirty
          /\ s1.inFlight = actor.inFlight /\ s1.token = actor.token
          /\ s1.due = actor.due /\ s1.live = actor.live
          /\ s1.dialing = actor.dialing /\ s1.dialAgain = actor.dialAgain
          /\ s1.stale = actor.stale /\ s1.dialToken = actor.dialToken
          /\ s1.applies = actor.applies /\ s1.connects = actor.connects
      BY <2>1 DEF ActorType
    <2> HIDE DEF s1
    <2>3. Typed(s1, R) /\ Awaited(s1) /\ Timed(s1)
      BY <2>2 DEF Holds, Good, Typed, Awaited, Timed
    <2> QED
      BY <2>3 DEF Good
  <1>3. actor' \in Retries(S3, want)
    BY BecomesOne DEF EditRelays
  <1> HIDE DEF s1
  <1>4. \A s \in S1 : Good(s, R, {})
    BY <1>2
  <1> HIDE DEF S1
  <1>5. \A s \in S2 : Good(s, R, {})
    BY <1>4, RequestConnectionGood
  <1> HIDE DEF S2
  <1>6. \A s \in S3 : Good(s, R, Strong)
    BY <1>1, <1>5, RefreshGood DEF Strong
  <1> HIDE DEF S3
  <1>7. Good(actor', R, Strong)
    BY <1>1, <1>3, <1>6, RetriesGood
  <1>8. actor'.relays = R
    BY <1>7 DEF Good, Typed
  <1>9. World'
    <2>1. held' \in [Relays -> Plans \cup {NoPlan}]
      BY DEF EditRelays, World, Holds
    <2>2. /\ news \in [Relays -> Seq(BOOLEAN)]
          /\ news' = [r \in Relays |-> IF r \in watched \cap R THEN news[r] ELSE <<>>]
      BY DEF EditRelays, World, Holds
    <2>3. news' \in [Relays -> Seq(BOOLEAN)] /\ \A r \in Relays \ R : news'[r] = <<>>
      BY <2>2, NoNews
    <2> QED
      BY <1>8, <2>1, <2>3 DEF EditRelays, World, Holds
  <1> QED
    BY <1>7, <1>8, <1>9 DEF Holds, EditRelays

LEMMA RefreshRequestedHolds ==
    ASSUME Holds(Weak), NEW p \in Plans, NEW force \in BOOLEAN, NEW fast \in BOOLEAN,
           RefreshRequested(p, force, fast)
    PROVE  Holds(Strong)'
  <1> DEFINE R == actor.relays
             S1 == {actor}
             S2 == RequestRefresh(S1, p, force)
  <1>1. Kept(Weak) /\ Kept(Strong) /\ Soon \in {Soon, Later}
    BY KeptClaims
  <1>2. \A s \in S1 : Good(s, R, Weak)
    BY DEF Holds, RefreshRequested
  <1>3. actor' \in S2 \/ actor' \in Schedule(S2, Soon)
    BY BecomesOne DEF RefreshRequested
  <1> HIDE DEF S1
  <1>4. \A s \in S2 : Good(s, R, Strong)
    BY <1>1, <1>2, RefreshGood DEF Strong
  <1> HIDE DEF S2
  <1>5. Good(actor', R, Strong)
    BY <1>1, <1>3, <1>4, ScheduleGood
  <1>6. actor'.relays = R
    BY <1>5 DEF Good, Typed
  <1>7. World'
    BY <1>6, WorldStays DEF RefreshRequested, Holds
  <1> QED
    BY <1>5, <1>6, <1>7 DEF Holds, RefreshRequested

-----------------------------------------------------------------------------
(* The servers' news.                                                      *)

\* Only a relay the user has is heard of.
LEMMA NotifyWorld ==
    ASSUME World, NEW r \in Relays, NEW b \in BOOLEAN, Notify(r, b)
    PROVE  news' \in [Relays -> Seq(BOOLEAN)] /\ \A q \in Relays \ actor.relays : news'[q] = <<>>
  <1>1. news \in [Relays -> Seq(BOOLEAN)] /\ \A q \in Relays \ actor.relays : news[q] = <<>>
    BY DEF World
  <1>2. Append(news[r], b) \in Seq(BOOLEAN)
    BY <1>1
  <1>3. (r \in actor.relays /\ news' = [news EXCEPT ![r] = Append(@, b)]) \/ news' = news
    BY DEF Notify, World
  <1>4. [news EXCEPT ![r] = Append(@, b)] \in [Relays -> Seq(BOOLEAN)]
    BY <1>1, <1>2
  <1>5. \A q \in Relays : q # r => [news EXCEPT ![r] = Append(@, b)][q] = news[q]
    BY <1>1
  <1> QED
    BY <1>1, <1>3, <1>4, <1>5

LEMMA RelayMovesHolds ==
    ASSUME NEW C, Holds(C), NEW r \in Relays, RelayConnects(r) \/ RelayDrops(r)
    PROVE  Holds(C)'
  <1>1. World /\ actor' = actor /\ session' = session
    BY DEF Holds, RelayConnects, RelayDrops
  <1>2. news' \in [Relays -> Seq(BOOLEAN)] /\ \A q \in Relays \ actor.relays : news'[q] = <<>>
    BY <1>1, NotifyWorld DEF RelayConnects, RelayDrops
  <1>3. World'
    BY <1>1, <1>2 DEF World, RelayConnects, RelayDrops
  <1> QED
    BY <1>1, <1>3 DEF Holds

LEMMA StatusChangedHolds ==
    ASSUME NEW C \in {Weak, Strong}, Holds(C), NEW r \in Relays, StatusChanged(r)
    PROVE  Holds(C)'
  <1> DEFINE R == actor.relays
             b == Head(news[r])
             now == IF b THEN actor.cached \cup {r} ELSE actor.cached \ {r}
             s1 == [actor EXCEPT !.cached = now]
             S1 == {s1}
             S2 == Reconcile(S1)
             S3 == Retries(S2, want)
  <1>1. /\ want \in Plans /\ Kept(C) /\ Soon \in {Soon, Later} /\ Later \in {Soon, Later}
        /\ Good(actor, R, C) /\ r \in R
    BY KeptClaims DEF Holds, World, StatusChanged
  <1>2. Good(s1, R, C)
    <2>1. now \subseteq R /\ actor \in ActorType /\ R \subseteq Relays
      BY <1>1 DEF Good, Typed, ActorType
    <2> HIDE DEF now
    <2>2. /\ s1 \in ActorType /\ s1.relays = R /\ s1.cached = now
          /\ s1.desired = actor.desired /\ s1.applied = actor.applied /\ s1.dirty = actor.dirty
          /\ s1.inFlight = actor.inFlight /\ s1.token = actor.token
          /\ s1.due = actor.due /\ s1.live = actor.live
          /\ s1.dialing = actor.dialing /\ s1.dialAgain = actor.dialAgain
          /\ s1.stale = actor.stale /\ s1.dialToken = actor.dialToken
          /\ s1.applies = actor.applies /\ s1.connects = actor.connects
      BY <2>1 DEF ActorType
    <2> HIDE DEF s1
    <2>3. Typed(s1, R) /\ Awaited(s1) /\ Timed(s1)
      BY <1>1, <2>1, <2>2 DEF Good, Typed, Awaited, Timed
    <2> QED
      BY <1>1, <2>2, <2>3 DEF Good
  <1>3. \/ actor' \in Schedule(S3, Later)
        \/ actor' \in Schedule(S1, Soon)
        \/ actor' \in S1
    BY BecomesOne DEF StatusChanged
  <1> HIDE DEF s1
  <1>4. \A s \in S1 : Good(s, R, C)
    BY <1>2
  <1> HIDE DEF S1
  <1>5. \A s \in S2 : Good(s, R, C)
    BY <1>1, <1>4, ReconcileGood
  <1> HIDE DEF S2
  <1>6. \A s \in S3 : Good(s, R, C)
    BY <1>1, <1>5, RetriesGood
  <1> HIDE DEF S3
  <1>7. Good(actor', R, C)
    BY <1>1, <1>3, <1>4, <1>6, ScheduleGood
  <1>8. actor'.relays = R
    BY <1>7 DEF Good, Typed
  <1>9. World'
    <2>1. news \in [Relays -> Seq(BOOLEAN)] /\ news[r] # <<>> /\ news' = [news EXCEPT ![r] = Tail(@)]
      BY DEF StatusChanged, Holds, World
    <2>2. Tail(news[r]) \in Seq(BOOLEAN)
      BY <2>1
    <2>3. news' \in [Relays -> Seq(BOOLEAN)] /\ \A q \in Relays \ R : news'[q] = news[q]
      BY <1>1, <2>1, <2>2
    <2> QED
      BY <1>8, <2>3 DEF StatusChanged, Holds, World
  <1> QED
    BY <1>7, <1>8, <1>9 DEF Holds, StatusChanged

-----------------------------------------------------------------------------
(* Connecting.                                                             *)

LEMMA ConnectTaskHolds ==
    ASSUME NEW C, Holds(C), NEW k \in actor.connects,
           ConnectTaskDials(k) \/ ConnectTaskReports(k)
    PROVE  Holds(C)'
  <1> DEFINE R == actor.relays
             E == IF session = "active" THEN C ELSE {}
  <1>1. World /\ Good(actor, R, E) /\ actor \in ActorType /\ k \in ConnectType
    BY DEF Holds, Good, Typed, ActorType
  <1>2. PICK j \in ConnectType :
            /\ j.token = k.token
            /\ actor' = [actor EXCEPT !.connects = (@ \ {k}) \cup {j}]
    <2>1. CASE ConnectTaskDials(k)
      <3>1. [k EXCEPT !.at = "wait"] \in ConnectType /\ [k EXCEPT !.at = "wait"].token = k.token
        BY <1>1 DEF ConnectType
      <3> QED
        BY <2>1, <3>1 DEF ConnectTaskDials
    <2>2. CASE ConnectTaskReports(k)
      <3>1. /\ [k EXCEPT !.at = "sent", !.seen = up] \in ConnectType
            /\ [k EXCEPT !.at = "sent", !.seen = up].token = k.token
        BY <1>1 DEF ConnectType, World
      <3> QED
        BY <2>2, <3>1 DEF ConnectTaskReports
    <2> QED
      BY <2>1, <2>2
  <1>3. /\ actor' \in ActorType
        /\ actor'.relays = R /\ actor'.cached = actor.cached
        /\ actor'.desired = actor.desired /\ actor'.applied = actor.applied
        /\ actor'.dirty = actor.dirty /\ actor'.inFlight = actor.inFlight
        /\ actor'.token = actor.token /\ actor'.due = actor.due /\ actor'.live = actor.live
        /\ actor'.dialing = actor.dialing /\ actor'.dialAgain = actor.dialAgain
        /\ actor'.stale = actor.stale /\ actor'.dialToken = actor.dialToken
        /\ actor'.applies = actor.applies
        /\ actor'.connects = (actor.connects \ {k}) \cup {j}
    BY <1>1, <1>2 DEF ActorType
  <1>4. \A t \in Token : (\E i \in actor.connects : i.token = t)
                            => \E i \in actor'.connects : i.token = t
    BY <1>2, <1>3
  <1>5. Awaited(actor')
    <2>1. actor'.dialing => \E i \in actor'.connects : i.token = actor'.dialToken
      BY <1>1, <1>3, <1>4 DEF Good, Awaited, ActorType
    <2> QED
      BY <1>1, <1>3, <2>1 DEF Good, Awaited
  <1>6. Typed(actor', R) /\ Timed(actor')
    BY <1>1, <1>3 DEF Good, Typed, Timed
  <1>7. Good(actor', R, E)
    BY <1>1, <1>3, <1>5, <1>6 DEF Good
  <1>8. World'
    BY <1>1, <1>3 DEF World, ConnectTaskDials, ConnectTaskReports
  <1>9. session' = session
    BY DEF ConnectTaskDials, ConnectTaskReports
  <1> QED
    BY <1>3, <1>7, <1>8, <1>9 DEF Holds

LEMMA ConnectAgesHolds ==
    ASSUME NEW C, Holds(C), ConnectAges
    PROVE  Holds(C)'
  <1>1. World /\ actor \in ActorType /\ session' = session
    BY DEF Holds, Good, Typed, ConnectAges
  <1>2. /\ actor' \in ActorType
        /\ actor'.relays = actor.relays /\ actor'.cached = actor.cached
        /\ actor'.desired = actor.desired /\ actor'.applied = actor.applied
        /\ actor'.dirty = actor.dirty /\ actor'.inFlight = actor.inFlight
        /\ actor'.token = actor.token /\ actor'.due = actor.due /\ actor'.live = actor.live
        /\ actor'.dialing = actor.dialing /\ actor'.dialAgain = actor.dialAgain
        /\ actor'.dialToken = actor.dialToken
        /\ actor'.applies = actor.applies /\ actor'.connects = actor.connects
        /\ actor.dialing
    BY <1>1 DEF ActorType, ConnectAges
  <1>3. World'
    BY <1>1, <1>2 DEF World, ConnectAges
  <1>4. Typed(actor', actor.relays) /\ Awaited(actor') /\ Timed(actor')
    BY <1>2 DEF Holds, Good, Typed, Awaited, Timed
  <1> QED
    BY <1>1, <1>2, <1>3, <1>4 DEF Holds, Good

\* A report is the current task's, and then the actor dials no more, or it is
\* of no consequence.
LEMMA ConnectionFinishedHolds ==
    ASSUME NEW C \in {Weak, Strong}, Holds(C), NEW k \in actor.connects, ConnectionFinished(k)
    PROVE  Holds(C)'
  <1> DEFINE R == actor.relays
             E == IF session = "active" THEN C ELSE {}
             s1 == [actor EXCEPT !.connects = @ \ {k}]
             s2 == [s1 EXCEPT !.dialing = FALSE, !.dialAgain = FALSE, !.stale = FALSE,
                              !.cached = k.seen \cap s1.relays]
             S2 == {s2}
             Rec == Reconcile(S2)
             S3 == IF k.seen \cap actor.relays # {} THEN Retries(Rec, want)
                   ELSE ScheduleTransportRetry(S2)
             S4 == RequestConnection(S3)
             Ignored == session = "suspended" \/ k.token # actor.dialToken
  <1>1. /\ World /\ want \in Plans /\ Kept(E) /\ Good(actor, R, E) /\ actor \in ActorType
        /\ k \in ConnectType /\ R \subseteq Relays
    BY KeptClaims DEF Holds, World, Good, Typed, ActorType
  <1> HIDE DEF E
  <1>2. actor' \in IF Ignored THEN {s1} ELSE IF actor.dialAgain THEN S4 ELSE S3
    <2>1. s2 = [s1 EXCEPT !.dialing = FALSE, !.dialAgain = FALSE, !.stale = FALSE,
                          !.cached = k.seen \cap s1.relays]
      OBVIOUS
    <2> DEFINE T1 == {s1}
               T2 == {[s EXCEPT !.dialing = FALSE, !.dialAgain = FALSE, !.stale = FALSE,
                         !.cached = k.seen \cap s.relays] : s \in T1}
    <2>2. T2 = S2
      BY <2>1
    <2>3. Becomes(IF Ignored THEN T1
                  ELSE IF actor.dialAgain
                       THEN RequestConnection(IF k.seen \cap actor.relays # {}
                               THEN Retries(Reconcile(T2), want) ELSE ScheduleTransportRetry(T2))
                  ELSE IF k.seen \cap actor.relays # {}
                       THEN Retries(Reconcile(T2), want) ELSE ScheduleTransportRetry(T2))
      BY DEF ConnectionFinished
    <2> HIDE DEF s1, s2, T2
    <2> QED
      BY <2>2, <2>3, BecomesOne
  <1>3. /\ s1 \in ActorType
        /\ s1.relays = R /\ s1.cached = actor.cached
        /\ s1.desired = actor.desired /\ s1.applied = actor.applied
        /\ s1.dirty = actor.dirty /\ s1.inFlight = actor.inFlight
        /\ s1.token = actor.token /\ s1.due = actor.due /\ s1.live = actor.live
        /\ s1.dialing = actor.dialing /\ s1.dialAgain = actor.dialAgain
        /\ s1.stale = actor.stale /\ s1.dialToken = actor.dialToken
        /\ s1.applies = actor.applies
        /\ s1.connects = actor.connects \ {k}
    BY <1>1 DEF ActorType
  <1> HIDE DEF s1
  <1>4. CASE Ignored
    <2>1. s1.dialing => \E j \in s1.connects : j.token = s1.dialToken
      BY <1>1, <1>3, <1>4 DEF Good, Awaited, Holds
    <2>2. Awaited(s1)
      BY <1>1, <1>3, <2>1 DEF Good, Awaited
    <2>3. Typed(s1, R) /\ Timed(s1)
      BY <1>1, <1>3 DEF Good, Typed, Timed
    <2>4. Good(s1, R, E)
      BY <1>1, <1>3, <2>2, <2>3 DEF Good
    <2>5. actor' = s1
      BY <1>2, <1>4
    <2>6. Good(actor', R, E) /\ (session = "suspended" => ~actor'.inFlight /\ ~actor'.dialing)
      BY <1>3, <2>4, <2>5 DEF Holds
    <2> QED
      BY <1>1, <2>6, <1>3, <2>5, WorldStays DEF ConnectionFinished, Holds, E, World
  <1>5. CASE ~Ignored
    <2>1. /\ s2 \in ActorType
          /\ s2.relays = R /\ s2.cached \subseteq R
          /\ s2.desired = actor.desired /\ s2.applied = actor.applied
          /\ s2.dirty = actor.dirty /\ s2.inFlight = actor.inFlight
          /\ s2.token = actor.token /\ s2.due = actor.due /\ s2.live = actor.live
          /\ ~s2.dialing /\ ~s2.dialAgain /\ ~s2.stale
          /\ s2.applies = actor.applies
      BY <1>1, <1>3 DEF ActorType, ConnectType
    <2> HIDE DEF s2
    <2>2. Typed(s2, R) /\ Awaited(s2) /\ Timed(s2)
      BY <1>1, <2>1 DEF Good, Typed, Awaited, Timed
    <2>3. \A s \in S2 : Good(s, R, E)
      BY <1>1, <2>1, <2>2 DEF Good
    <2> HIDE DEF S2
    <2>4. \A s \in Rec : Good(s, R, E)
      BY <1>1, <2>3, ReconcileGood
    <2> HIDE DEF Rec
    <2>5. \A s \in S3 : Good(s, R, E)
      <3>1. \A s \in Retries(Rec, want) : Good(s, R, E)
        BY <1>1, <2>4, RetriesGood
      <3>2. \A s \in ScheduleTransportRetry(S2) : Good(s, R, E)
        BY <1>1, <2>3, TransportRetryGood
      <3> QED
        BY <3>1, <3>2
    <2> HIDE DEF S3
    <2>6. \A s \in S4 : Good(s, R, E)
      BY <2>5, RequestConnectionGood
    <2>7. Good(actor', R, E)
      BY <1>2, <1>5, <2>5, <2>6
    <2>8. actor'.relays = R
      BY <2>7 DEF Good, Typed
    <2>9. World'
      BY <1>1, <2>8, WorldStays DEF ConnectionFinished, World
    <2> QED
      BY <1>5, <2>7, <2>8, <2>9 DEF ConnectionFinished, Holds, E
  <1> QED
    BY <1>4, <1>5

-----------------------------------------------------------------------------
(* Applying the plan.                                                      *)

\* An apply task that goes on is still the one it was.
LEMMA ApplyMoves ==
    ASSUME NEW R, NEW C, NEW s, Good(s, R, C), NEW a \in s.applies, NEW b \in ApplyType,
           b.token = a.token, b.plan = a.plan, b.old = a.old,
           NEW t, t = [s EXCEPT !.applies = (@ \ {a}) \cup {b}]
    PROVE  Good(t, R, C) /\ t.inFlight = s.inFlight /\ t.dialing = s.dialing
  <1>1. s \in ActorType
    BY DEF Good, Typed
  <1>2. /\ t \in ActorType
        /\ t.relays = s.relays /\ t.cached = s.cached
        /\ t.desired = s.desired /\ t.applied = s.applied
        /\ t.dirty = s.dirty /\ t.inFlight = s.inFlight
        /\ t.token = s.token /\ t.due = s.due /\ t.live = s.live
        /\ t.dialing = s.dialing /\ t.dialAgain = s.dialAgain
        /\ t.stale = s.stale /\ t.dialToken = s.dialToken
        /\ t.connects = s.connects
        /\ t.applies = (s.applies \ {a}) \cup {b}
    BY <1>1 DEF ActorType
  <1>3. \A c \in t.applies : \E d \in s.applies : c.token = d.token /\ c.plan = d.plan /\ c.old = d.old
    BY <1>2
  <1>4. \A d \in s.applies : \E c \in t.applies : c.token = d.token /\ c.plan = d.plan /\ c.old = d.old
    BY <1>2
  <1>5. Awaited(t)
    BY <1>2, <1>3, <1>4 DEF Good, Awaited
  <1>6. Typed(t, R) /\ Timed(t)
    BY <1>2 DEF Good, Typed, Timed
  <1> QED
    BY <1>2, <1>5, <1>6 DEF Good

LEMMA ApplyTaskHolds ==
    ASSUME NEW C, Holds(C), NEW a \in actor.applies,
           ApplyBegins(a) \/ \E R \in SUBSET up, b \in BOOLEAN : ApplySubscribes(a, R, b)
    PROVE  Holds(C)'
  <1>1. World /\ actor \in ActorType /\ a \in ApplyType
    BY DEF Holds, Good, Typed, ActorType
  <1>2. /\ session' = session /\ want' = want /\ dialed' = dialed /\ up' = up
        /\ watched' = watched /\ news' = news
    BY DEF ApplyBegins, ApplySubscribes
  <1>3. PICK b \in ApplyType :
            /\ b.token = a.token /\ b.plan = a.plan /\ b.old = a.old
            /\ actor' = [actor EXCEPT !.applies = (@ \ {a}) \cup {b}]
    <2>1. CASE ApplyBegins(a)
      <3> DEFINE b == [a EXCEPT !.at = IF up = {} THEN "sent" ELSE "subscribe"]
      <3>1. b \in ApplyType /\ b.token = a.token /\ b.plan = a.plan /\ b.old = a.old
        BY <1>1 DEF ApplyType
      <3>2. actor' = [actor EXCEPT !.applies = (@ \ {a}) \cup {b}]
        BY <2>1 DEF ApplyBegins
      <3> QED
        BY <3>1, <3>2
    <2>2. CASE \E R \in SUBSET up, c \in BOOLEAN : ApplySubscribes(a, R, c)
      <3>1. PICK R \in SUBSET up, c \in BOOLEAN : ApplySubscribes(a, R, c)
        BY <2>2
      <3> DEFINE b == [a EXCEPT !.at = "sent", !.ok = R # {} /\ c, !.seen = up]
      <3>2. b \in ApplyType /\ b.token = a.token /\ b.plan = a.plan /\ b.old = a.old
        BY <1>1 DEF ApplyType, World
      <3>3. actor' = [actor EXCEPT !.applies = (@ \ {a}) \cup {b}]
        BY <3>1 DEF ApplySubscribes
      <3> QED
        BY <3>2, <3>3
    <2> QED
      BY <2>1, <2>2
  <1>4. /\ Good(actor', actor.relays, IF session = "active" THEN C ELSE {})
        /\ actor'.inFlight = actor.inFlight /\ actor'.dialing = actor.dialing
    BY <1>3, ApplyMoves DEF Holds
  <1>5. actor'.relays = actor.relays
    BY <1>4 DEF Good, Typed
  <1>6. held' \in [Relays -> Plans \cup {NoPlan}]
    BY <1>1 DEF ApplyBegins, ApplySubscribes, World, ApplyType
  <1>7. World'
    BY <1>1, <1>2, <1>5, <1>6 DEF World
  <1> QED
    BY <1>2, <1>4, <1>5, <1>7 DEF Holds

\* The report of the apply that the actor waits for, or of one whose token is the
\* same, leaves it waiting for none.
LEMMA ReconcileCompletedHolds ==
    ASSUME NEW C \in {Weak, Strong}, Holds(C), NEW a \in actor.applies, ReconcileCompleted(a)
    PROVE  Holds(C)' \/ (Holds(Weak)' /\ TakenForCurrent(a))
  <1> DEFINE R == actor.relays
             E == IF session = "active" THEN C ELSE {}
             F == IF session = "active" THEN Weak ELSE {}
             s1 == [actor EXCEPT !.applies = @ \ {a}]
             s2 == [s1 EXCEPT !.inFlight = FALSE, !.dirty = FALSE,
                              !.applied = IF a.ok THEN a.plan ELSE @,
                              !.cached = a.seen \cap s1.relays,
                              !.applies = NoneAwaited(@)]
             S2 == {s2}
             S3 == IF a.seen # {} THEN Retries(S2, want) ELSE Schedule(S2, Soon)
             Missed(s) == ~a.ok /\ s.desired # s.applied
             Again == Schedule({[s EXCEPT !.dirty = TRUE] : s \in {u \in S3 : Missed(u)}}, Soon)
             Ignored == session = "suspended" \/ a.token # actor.token
  <1>1. /\ World /\ want \in Plans /\ FALSE \in BOOLEAN /\ Kept(E) /\ Kept(F)
        /\ Kept({}) /\ Kept(Strong) /\ Soon \in {Soon, Later}
        /\ Good(actor, R, E) /\ actor \in ActorType /\ a \in ApplyType /\ R \subseteq Relays
    BY KeptClaims DEF Holds, World, Good, Typed, ActorType
  <1>2. session' = session /\ UNCHANGED <<want, dialed, up, held, watched, news>>
    BY DEF ReconcileCompleted
  <1>3. actor' \in IF Ignored THEN {s1}
                   ELSE IF actor.dirty THEN RequestRefresh(S3, want, FALSE)
                   ELSE {s \in S3 : ~Missed(s)} \cup Again
    <2> DEFINE T1 == {s1}
               T2 == {[s EXCEPT !.inFlight = FALSE, !.dirty = FALSE,
                         !.applied = IF a.ok THEN a.plan ELSE @,
                         !.cached = a.seen \cap s.relays,
                         !.applies = NoneAwaited(@)] : s \in T1}
               T3 == IF a.seen # {} THEN Retries(T2, want) ELSE Schedule(T2, Soon)
    <2>1. T2 = S2
      OBVIOUS
    <2>2. Becomes(IF Ignored THEN T1
                  ELSE IF actor.dirty THEN RequestRefresh(T3, want, FALSE)
                  ELSE {s \in T3 : ~Missed(s)} \cup
                       Schedule({[s EXCEPT !.dirty = TRUE] : s \in {u \in T3 : Missed(u)}}, Soon))
      BY DEF ReconcileCompleted
    <2> HIDE DEF s1, s2, T2, S2
    <2> QED
      BY <2>1, <2>2, BecomesOne
  <1>4. ASSUME Good(actor', R, E), session = "suspended" => ~actor'.inFlight /\ ~actor'.dialing
        PROVE  Holds(C)'
    <2>1. actor'.relays = R
      BY <1>4 DEF Good, Typed
    <2>2. World'
      BY <1>1, <1>2, <2>1, WorldStays DEF World
    <2> QED
      BY <1>2, <1>4, <2>1, <2>2 DEF Holds
  <1>5. ASSUME Good(actor', R, F), session # "suspended"
        PROVE  Holds(Weak)'
    <2>1. actor'.relays = R
      BY <1>5 DEF Good, Typed
    <2>2. World'
      BY <1>1, <1>2, <2>1, WorldStays DEF World
    <2> QED
      BY <1>2, <1>5, <2>1, <2>2 DEF Holds
  <1>6. \A s : /\ Good(s, R, Strong) => Good(s, R, E)
               /\ Good(s, R, E) => Good(s, R, F)
    BY DEF Good, Weak, Strong
  <1>7. /\ s1 \in ActorType
        /\ s1.relays = R /\ s1.cached = actor.cached
        /\ s1.desired = actor.desired /\ s1.applied = actor.applied
        /\ s1.dirty = actor.dirty /\ s1.inFlight = actor.inFlight
        /\ s1.token = actor.token /\ s1.due = actor.due /\ s1.live = actor.live
        /\ s1.dialing = actor.dialing /\ s1.dialAgain = actor.dialAgain
        /\ s1.stale = actor.stale /\ s1.dialToken = actor.dialToken
        /\ s1.connects = actor.connects
        /\ s1.applies = actor.applies \ {a}
    BY <1>1 DEF ActorType
  <1> HIDE DEF s1, E, F
  <1>8. CASE Ignored
    <2>1. s1.inFlight => \E b \in s1.applies : ~b.old /\ b.token = s1.token
      BY <1>1, <1>7, <1>8 DEF Good, Awaited, Holds
    <2>2. Typed(s1, R) /\ Awaited(s1) /\ Timed(s1)
      BY <1>1, <1>7, <2>1 DEF Good, Typed, Awaited, Timed
    <2>3. Good(s1, R, E)
      BY <1>1, <1>7, <2>2 DEF Good
    <2>4. actor' = s1
      BY <1>3, <1>8
    <2> QED
      BY <1>4, <1>7, <2>3, <2>4 DEF Holds
  <1>9. CASE ~Ignored
    <2> DEFINE A == NoneAwaited(s1.applies)
    <2>1. A \in SUBSET ApplyType /\ \A b \in A : b.old
      BY <1>7, NoneAwaitedType DEF ActorType
    <2> DEFINE plan == IF a.ok THEN a.plan ELSE actor.applied
               now == a.seen \cap R
    <2>2. /\ s2 = [s1 EXCEPT !.inFlight = FALSE, !.dirty = FALSE, !.applied = plan,
                             !.cached = now, !.applies = A]
          /\ plan \in Plans \cup {NoPlan} /\ now \subseteq R
      BY <1>1, <1>7 DEF ActorType, ApplyType
    <2> HIDE DEF A, now
    <2>3. /\ s2 \in ActorType
          /\ s2.relays = R /\ s2.cached \subseteq R
          /\ s2.desired = actor.desired
          /\ s2.applied = plan
          /\ ~s2.inFlight /\ ~s2.dirty /\ s2.due = actor.due /\ s2.live = actor.live
          /\ s2.dialing = actor.dialing /\ s2.dialAgain = actor.dialAgain
          /\ s2.stale = actor.stale /\ s2.dialToken = actor.dialToken
          /\ s2.connects = actor.connects /\ s2.applies = A
      <3> HIDE DEF plan, s2
      <3> QED
        BY <1>1, <1>7, <2>1, <2>2 DEF ActorType
    <2> HIDE DEF s2
    <2>4. Typed(s2, R) /\ Awaited(s2) /\ Timed(s2)
      BY <1>1, <2>1, <2>3 DEF Good, Typed, Awaited, Timed
    <2>5. Good(s2, R, F)
      BY <1>1, <2>3, <2>4 DEF Good, E, F, Weak, Strong
    <2>6. \A s \in S2 : Good(s, R, F)
      BY <2>5
    <2>7. s2.applied = a.plan => \A s \in S2 : AppliedOr(s, a.plan)
      BY DEF AppliedOr
    <2>8. s2.desired = s2.applied => \A s \in S2 : Good(s, R, E)
      BY <2>5 DEF Good, E, F, Weak, Strong
    <2>9. a.ok /\ ~a.old /\ ~actor.dirty => s2.desired = s2.applied
      BY <1>1, <2>3 DEF Good, Awaited
    <2> HIDE DEF S2
    <2>10. \A s \in S3 : Good(s, R, F)
      BY <1>1, <2>6, RetriesGood, ScheduleGood
    <2>11. s2.desired = s2.applied => \A s \in S3 : Good(s, R, E)
      BY <1>1, <2>8, RetriesGood, ScheduleGood
    <2>12. s2.applied = a.plan => \A s \in S3 : AppliedOr(s, a.plan)
      <3>1. SUFFICES ASSUME s2.applied = a.plan PROVE \A s \in S3 : AppliedOr(s, a.plan)
        OBVIOUS
      <3>2. \A s \in Retries(S2, want) : AppliedOr(s, a.plan)
        BY <1>1, <2>6, <2>7, <3>1, RetriesApplied
      <3>3. \A s \in S2 : s \in ActorType
        BY <2>6 DEF Good, Typed
      <3>4. \A s \in Schedule(S2, Soon) : AppliedOr(s, a.plan)
        BY <2>7, <3>1, <3>3, AppliedOrScheduled
      <3> QED
        BY <3>2, <3>4
    <2> HIDE DEF S3
    <2>13. CASE actor.dirty
      <3>1. actor' \in RequestRefresh(S3, want, FALSE)
        BY <1>3, <1>9, <2>13
      <3>2. Good(actor', R, Strong)
        BY <1>1, <2>10, <3>1, RefreshGood DEF Strong
      <3> QED
        BY <1>4, <1>6, <1>9, <3>2
    <2>14. CASE ~actor.dirty /\ actor' \in Again
      <3> DEFINE D == {[s EXCEPT !.dirty = TRUE] : s \in {u \in S3 : Missed(u)}}
      <3>1. ASSUME NEW s, Good(s, R, F) PROVE Good([s EXCEPT !.dirty = TRUE], R, E)
        <4> DEFINE d == [s EXCEPT !.dirty = TRUE]
        <4>1. s \in ActorType
          BY <3>1 DEF Good, Typed
        <4>2. /\ d \in ActorType /\ d.dirty
              /\ d.relays = s.relays /\ d.cached = s.cached
              /\ d.desired = s.desired /\ d.applied = s.applied
              /\ d.inFlight = s.inFlight /\ d.token = s.token
              /\ d.due = s.due /\ d.live = s.live
              /\ d.dialing = s.dialing /\ d.dialAgain = s.dialAgain
              /\ d.stale = s.stale /\ d.dialToken = s.dialToken
              /\ d.applies = s.applies /\ d.connects = s.connects
          BY <4>1 DEF ActorType
        <4> HIDE DEF d
        <4>3. Typed(d, R) /\ Awaited(d) /\ Timed(d)
          BY <3>1, <4>2 DEF Good, Typed, Awaited, Timed
        <4>4. Good(d, R, E)
          BY <3>1, <4>2, <4>3 DEF Good, E, F, Weak, Strong
        <4> QED
          BY <4>4 DEF d
      <3>2. \A s \in D : Good(s, R, E)
        BY <2>10, <3>1
      <3>3. actor' \in Schedule(D, Soon)
        BY <2>14
      <3> HIDE DEF D
      <3>4. Good(actor', R, E)
        BY <1>1, <3>2, <3>3, ScheduleGood
      <3> QED
        BY <1>4, <1>9, <3>4
    <2>15. CASE ~actor.dirty /\ actor' \in S3 /\ ~Missed(actor')
      <3>1. Good(actor', R, F)
        BY <2>10, <2>15
      <3>2. CASE actor'.desired = actor'.applied
        <4>1. Good(actor', R, E)
          BY <3>1, <3>2 DEF Good, E, F, Weak, Strong
        <4> QED
          BY <1>4, <1>9, <4>1
      <3>3. CASE a.ok /\ ~a.old
        <4>1. Good(actor', R, E)
          BY <2>9, <2>11, <2>15, <3>3
        <4> QED
          BY <1>4, <1>9, <4>1
      <3>4. CASE a.ok /\ a.old
        <4>1. s2.applied = a.plan
          BY <2>3, <3>4
        <4>2. AppliedOr(actor', a.plan)
          BY <2>12, <2>15, <4>1
        <4>3. CASE actor'.applied = a.plan
          <5>1. TakenForCurrent(a)
            BY <1>9, <3>4, <4>3 DEF TakenForCurrent
          <5> QED
            BY <1>5, <1>9, <3>1, <5>1
        <4>4. CASE actor'.desired # actor'.applied => actor'.inFlight \/ actor'.dirty
          <5>1. Good(actor', R, E)
            BY <3>1, <4>4 DEF Good, E, F, Weak, Strong
          <5> QED
            BY <1>4, <1>9, <5>1
        <4> QED
          BY <4>2, <4>3, <4>4 DEF AppliedOr
      <3> QED
        BY <2>15, <3>2, <3>3, <3>4
    <2> QED
      BY <1>3, <1>9, <2>13, <2>14, <2>15
  <1> QED
    BY <1>8, <1>9

\* The check that runs has no deadline any more, until it sets the next.
LEMMA TimerFiresHolds ==
    ASSUME NEW C \in {Weak, Strong}, Holds(C), TimerFires
    PROVE  Holds(C)'
  <1> DEFINE R == actor.relays
             E == IF session = "active" THEN C ELSE {}
             F == E \ {"due"}
             s1 == [actor EXCEPT !.live = FALSE, !.due = NoDue]
             S1 == {s1}
             Idles == session # "active" \/ ~SubscriptionWork(actor)
             S2 == Reconcile(S1)
             S3 == Retries(S2, want)
  <1>1. /\ World /\ want \in Plans /\ Kept(E) /\ Kept(F) /\ Later \in {Soon, Later}
        /\ Good(actor, R, E) /\ actor \in ActorType
    BY KeptClaims DEF Holds, World, Good, Typed, ActorType, Kept, Claims
  <1>2. session' = session /\ UNCHANGED <<want, dialed, up, held, watched, news>>
    BY DEF TimerFires
  <1>3. actor' \in IF Idles THEN S1 ELSE Schedule(S3, Later)
    BY BecomesOne DEF TimerFires
  <1>4. /\ s1 \in ActorType
        /\ s1.relays = R /\ s1.cached = actor.cached
        /\ s1.desired = actor.desired /\ s1.applied = actor.applied
        /\ s1.dirty = actor.dirty /\ s1.inFlight = actor.inFlight
        /\ s1.token = actor.token /\ s1.due = NoDue
        /\ s1.dialing = actor.dialing /\ s1.dialAgain = actor.dialAgain
        /\ s1.stale = actor.stale /\ s1.dialToken = actor.dialToken
        /\ s1.connects = actor.connects /\ s1.applies = actor.applies
    BY <1>1 DEF ActorType
  <1> HIDE DEF s1
  <1>5. Typed(s1, R) /\ Awaited(s1) /\ Timed(s1)
    BY <1>1, <1>4 DEF Good, Typed, Awaited, Timed
  <1>6. Good(s1, R, F)
    BY <1>1, <1>4, <1>5 DEF Good
  <1>7. session = "active" => "planned" \in F /\ F \cup {"due"} = E
    BY DEF Weak, Strong
  <1>8. Good(actor', R, E)
    <2>1. CASE session # "active"
      BY <1>3, <1>6, <2>1
    <2>2. CASE session = "active" /\ ~SubscriptionWork(actor)
      <3>1. R = {}
        BY <1>1, <1>7, <2>2, PlanAssumption DEF Good, SubscriptionWork
      <3> QED
        BY <1>3, <1>4, <1>6, <2>2, <3>1 DEF Good
    <2>3. CASE session = "active" /\ SubscriptionWork(actor)
      <3>1. actor' \in Schedule(S3, Later)
        BY <1>3, <2>3
      <3>2. \A s \in S1 : Good(s, R, F)
        BY <1>6
      <3> HIDE DEF S1, F, E
      <3>3. \A s \in S2 : Good(s, R, F)
        BY <1>1, <3>2, ReconcileGood
      <3> HIDE DEF S2
      <3>4. \A s \in S3 : Good(s, R, F)
        BY <1>1, <3>3, RetriesGood
      <3> HIDE DEF S3
      <3>5. Good(actor', R, F \cup {"due"})
        BY <1>1, <1>7, <2>3, <3>1, <3>4, ScheduleGood
      <3> QED
        BY <1>7, <2>3, <3>5
    <2> QED
      BY <2>1, <2>2, <2>3
  <1>9. session = "suspended" => ~actor'.inFlight /\ ~actor'.dialing
    BY <1>3, <1>4 DEF Holds
  <1>10. actor'.relays = R
    BY <1>8 DEF Good, Typed
  <1>11. World'
    BY <1>1, <1>2, <1>10, WorldStays DEF World
  <1> QED
    BY <1>2, <1>8, <1>9, <1>10, <1>11 DEF Holds

-----------------------------------------------------------------------------
(* The theorems.                                                           *)

\* One step, whether or not what is unapplied is remembered before it.
LEMMA StepHolds ==
    ASSUME NEW C \in {Weak, Strong}, Holds(C), [Next]_vars
    PROVE  Holds(C)' \/ (Holds(Weak)' /\ \E a \in actor.applies : TakenForCurrent(a))
  <1>1. Holds({}) /\ Holds(Weak)
    BY DEF Holds, Good, Weak, Strong
  <1>2. Holds(Strong)' => Holds(C)'
    BY DEF Holds, Good, Weak, Strong
  <1>3. CASE \E b \in BOOLEAN : StartSession(b)
    BY <1>1, <1>2, <1>3, StartHolds
  <1>4. CASE \E b \in BOOLEAN : Suspend(b)
    BY <1>1, <1>2, <1>4, SuspendHolds
  <1>5. CASE Foreground
    BY <1>1, <1>2, <1>5, ForegroundHolds
  <1>6. CASE Logout
    BY <1>1, <1>2, <1>6, LogoutHolds
  <1>7. CASE \E R \in SUBSET Relays : EditRelays(R)
    BY <1>1, <1>2, <1>7, EditRelaysHolds
  <1>8. CASE \E p \in Plans, b, c \in BOOLEAN : RefreshRequested(p, b, c)
    BY <1>1, <1>2, <1>8, RefreshRequestedHolds
  <1>9. CASE \E r \in Relays : RelayConnects(r) \/ RelayDrops(r) \/ StatusChanged(r)
    BY <1>9, RelayMovesHolds, StatusChangedHolds
  <1>10. CASE ConnectAges
    BY <1>10, ConnectAgesHolds
  <1>11. CASE ConnectTask
    BY <1>11, ConnectTaskHolds, ConnectionFinishedHolds DEF ConnectTask
  <1>12. CASE ApplyTask
    BY <1>12, ApplyTaskHolds, ReconcileCompletedHolds DEF ApplyTask
  <1>13. CASE TimerFires
    BY <1>13, TimerFiresHolds
  <1>14. CASE UNCHANGED vars
    BY <1>14 DEF vars, Holds, World
  <1> QED
    BY <1>3, <1>4, <1>5, <1>6, <1>7, <1>8, <1>9, <1>10, <1>11, <1>12, <1>13, <1>14 DEF Next

LEMMA InvInvariant == Spec => []Inv
  <1>1. Init => Inv
    BY InitHolds, InvHolds
  <1>2. Inv /\ [Next]_vars => Inv'
    <2>1. Holds(Weak)' <=> Inv'
      BY DEF Inv, Holds, Weak
    <2> QED
      BY <2>1, StepHolds, InvHolds
  <1> QED
    BY <1>1, <1>2, PTL DEF Spec

\* The variables keep their types, the actor caches only the status of servers
\* the user has, and a connection has flags raised only while it is in flight.
THEOREM SubscriptionTypeCorrect == Spec => []TypeOK
  <1>1. Inv => TypeOK
    BY DEF Inv, World, Good, Typed, TypeOK, ActorType
  <1> QED
    BY <1>1, InvInvariant, PTL

\* Whatever tasks overlap, time out or are left over from before a suspension, an
\* in-flight flag has a task of its own that will clear it.
THEOREM FlagsAreServed == Spec => []InFlightIsServed
  <1>1. Inv => InFlightIsServed
    BY DEF Inv, Good, Awaited, InFlightIsServed
  <1> QED
    BY <1>1, InvInvariant, PTL

\* A session with message servers always has a deadline and a timer that meets
\* it, if none starts with queued work (that one may not: subscription_queued_start).
THEOREM CheckIsArmed ==
    ASSUME "queued" \notin Disruptions
    PROVE  Spec => []WakeupArmed
  <1>1. Inv => WakeupArmed
    BY DEF Inv, Good, Timed, WakeupArmed
  <1> QED
    BY <1>1, InvInvariant, PTL

\* Only the report of an apply that the actor waits for no more, taken for the
\* current one's, makes it forget that the plan is not applied.
THEOREM RequestsAreRemembered == Spec => DeferredIsRemembered
  <1>1. Inv /\ [Next]_vars =>
            [Remembered => Remembered' \/ \E a \in actor.applies : TakenForCurrent(a)]_vars
    BY StepHolds, InvHolds
  <1> QED
    BY <1>1, InvInvariant, PTL DEF Spec, DeferredIsRemembered
=============================================================================
