------------------------ MODULE ProtocolSubscription ------------------------
(***************************************************************************)
(* How the core actor keeps one subscription, the protocol plan, open at   *)
(* its message servers: core/src/core/protocol.rs with the session entry   *)
(* points of account.rs, lifecycle.rs and chat_settings.rs.                *)
(*                                                                         *)
(* Connecting and applying the plan are tasks that work on the relay       *)
(* client while the actor goes on and report through its mailbox; a token  *)
(* tells the report of the current task from an older one.  Time is        *)
(* abstract: a deadline of the liveness check is Soon (2 s, and the 2 to   *)
(* 15 s of the back-off) or Later (30 s and more).                         *)
(*                                                                         *)
(* Left out: force_reconnect, which reconcile_protocol_subscriptions can   *)
(* only pass on as FALSE; applying_plan, set exactly while an apply is in  *)
(* flight; the one-shot fetches; labels and log lines.                     *)
(***************************************************************************)
EXTENDS Naturals, FiniteSets, Sequences

CONSTANTS
    Relays,        \* message servers the user may configure
    Plans,         \* subscription plans the protocol state may call for
    NoPlan,        \* desired_plan = None, applied_plan = None
    MaxToken,      \* bound: tokens of a runtime run from 1 to MaxToken, then again
    MaxApplies,    \* bound: unfinished apply tasks
    MaxConnects,   \* bound: unfinished connect tasks
    MaxNews,       \* bound: status notifications of a relay on their way
    Waiting,       \* what retries may find due: batch (protocol work), publish
    Disruptions    \* what may happen: suspend, logout, edit, lag, slow, queued

ASSUME PlanAssumption == NoPlan \notin Plans
ASSUME BoundAssumption == MaxToken \in Nat \ {0} /\ MaxNews \in Nat

VARIABLES
    session,   \* "none", "active" or "suspended"
    want,      \* what compute_protocol_subscription_plan returns
    dialed,    \* the relay client keeps connecting to its relays
    up,        \* relays the client is connected to
    held,      \* held[r]: the plan the client's subscription at r asks for
    watched,   \* relays with a task that forwards their status
    news,      \* news[r]: status notifications of r in the actor's mailbox
    actor      \* the control state of AppCore, see ActorType

vars == <<session, want, dialed, up, held, watched, news, actor>>

NoDue == "none"
Soon == "soon"
Later == "later"

Token == 0 .. MaxToken

\* An apply task and a connect task; `old', which no handler reads, marks an
\* apply that the actor does not wait for any more.
ApplyType == [token : Token, plan : Plans \cup {NoPlan}, replaces : BOOLEAN,
              old : BOOLEAN, at : {"start", "subscribe", "sent"},
              ok : BOOLEAN, seen : SUBSET Relays]
ConnectType == [token : Token, at : {"start", "wait", "sent"}, seen : SUBSET Relays]

\* relays: LoggedInState.relay_urls; cached: the relays Connected according to
\* relay_status_by_url; desired .. live: ProtocolSubscriptionRuntime, where live
\* says that a timer with the current protocol_liveness_token is running;
\* dialing .. stale: the connect_* fields of RelayTransportRuntime.
ActorType == [relays : SUBSET Relays, cached : SUBSET Relays,
              desired : Plans \cup {NoPlan}, applied : Plans \cup {NoPlan},
              inFlight : BOOLEAN, dirty : BOOLEAN, token : Token,
              due : {NoDue, Soon, Later}, live : BOOLEAN,
              dialing : BOOLEAN, dialAgain : BOOLEAN, stale : BOOLEAN,
              dialToken : Token,
              applies : SUBSET ApplyType, connects : SUBSET ConnectType]

\* The types of the variables; only a connection in flight has flags raised.
TypeOK ==
    /\ session \in {"none", "active", "suspended"} /\ want \in Plans
    /\ dialed \in BOOLEAN /\ up \subseteq Relays /\ (up # {} => dialed)
    /\ held \in [Relays -> Plans \cup {NoPlan}]
    /\ watched \subseteq Relays /\ news \in [Relays -> Seq(BOOLEAN)]
    /\ actor \in ActorType /\ actor.cached \subseteq actor.relays
    /\ actor.dialAgain \/ actor.stale => actor.dialing

-----------------------------------------------------------------------------
(* What a handler calls.  The actor's handlers run one at a time and call   *)
(* each other, so each is an operator from the set S of records the actor  *)
(* may be in to those the call may leave it in.                            *)

NextToken(t) == IF t = MaxToken THEN 1 ELSE t + 1

NoneAwaited(applies) == {[a EXCEPT !.old = TRUE] : a \in applies}

\* Mutant: a reset that leaves the flags of the old connection behind.
ResetKeepingDialFlags(s) ==
    [s EXCEPT !.desired = NoPlan, !.applied = NoPlan, !.inFlight = FALSE,
              !.dirty = FALSE, !.token = 0, !.due = NoDue, !.dialing = FALSE,
              !.dialToken = 0, !.applies = NoneAwaited(@)]

\* Default::default() for both runtimes.  The liveness token is not among them.
ResetRuntimes(s) ==
    [s EXCEPT !.desired = NoPlan, !.applied = NoPlan, !.inFlight = FALSE,
              !.dirty = FALSE, !.token = 0, !.due = NoDue, !.dialing = FALSE,
              !.dialAgain = FALSE, !.stale = FALSE, !.dialToken = 0,
              !.applies = NoneAwaited(@)]

SubscriptionWork(s) ==
    s.desired # NoPlan \/ s.applied # NoPlan \/ s.inFlight \/ s.dirty

\* schedule_protocol_subscription_liveness_check: an earlier deadline stands,
\* otherwise a new token replaces the running timer by a new one.
Schedule(S, after) ==
    {IF ~SubscriptionWork(s) THEN [s EXCEPT !.due = NoDue]
     ELSE IF s.due \in {Soon, after} THEN s
     ELSE [s EXCEPT !.due = after, !.live = TRUE] : s \in S}

\* schedule_relay_transport_retry: the back-off starts at Soon.
ScheduleTransportRetry(S) == Schedule(S, Soon)

\* Mutant: the token is bumped before the request is found to be a second one.
RequestConnectionBumpingFirst(S) ==
    {IF s.relays = {} THEN s
     ELSE IF s.dialing /\ ~s.stale
          THEN [s EXCEPT !.dialAgain = TRUE, !.dialToken = NextToken(@)]
     ELSE LET t == NextToken(s.dialToken)
          IN  [s EXCEPT !.dialing = TRUE, !.dialAgain = FALSE, !.stale = FALSE,
                        !.dialToken = t,
                        !.connects = @ \cup {[token |-> t, at |-> "start", seen |-> {}]}]
     : s \in S}

\* request_relay_connection: one connect task at a time; a request that finds
\* one running is remembered, unless that one is stale.
RequestConnection(S) ==
    {IF s.relays = {} THEN s
     ELSE IF s.dialing /\ ~s.stale THEN [s EXCEPT !.dialAgain = TRUE]
     ELSE LET t == NextToken(s.dialToken)
          IN  [s EXCEPT !.dialing = TRUE, !.dialAgain = FALSE, !.stale = FALSE,
                        !.dialToken = t,
                        !.connects = @ \cup {[token |-> t, at |-> "start", seen |-> {}]}]
     : s \in S}

\* Mutant: an offline reconcile that does not ask for a connection.
ReconcileWithoutDialing(S) ==
    {IF s.desired = NoPlan /\ s.applied = NoPlan /\ ~s.inFlight THEN s
     ELSE IF s.inFlight \/ s.cached = {} THEN [s EXCEPT !.dirty = TRUE]
     ELSE [s EXCEPT !.inFlight = TRUE, !.dirty = FALSE, !.token = NextToken(@),
                    !.applies = @ \cup
                        {[token |-> NextToken(s.token), plan |-> s.desired,
                          replaces |-> s.applied # NoPlan, old |-> FALSE,
                          at |-> "start", ok |-> FALSE, seen |-> {}]}] : s \in S}

\* reconcile_protocol_subscriptions: while a task applies a plan, or no relay is
\* connected, only remember that there is something to do.
Reconcile(S) ==
    LET Quiet(s) == s.desired = NoPlan /\ s.applied = NoPlan /\ ~s.inFlight
        Apply(s) == [token |-> NextToken(s.token), plan |-> s.desired,
                     replaces |-> s.applied # NoPlan, old |-> FALSE,
                     at |-> "start", ok |-> FALSE, seen |-> {}]
    IN  UNION {IF Quiet(s) THEN {s}
               ELSE IF s.inFlight THEN {[s EXCEPT !.dirty = TRUE]}
               ELSE IF s.cached = {}
                    THEN ScheduleTransportRetry(
                             RequestConnection({[s EXCEPT !.dirty = TRUE]}))
               ELSE {[s EXCEPT !.inFlight = TRUE, !.dirty = FALSE,
                               !.token = NextToken(@), !.applies = @ \cup {Apply(s)}]}
               : s \in S}

\* request_protocol_subscription_refresh_inner, for the plan p now called for.
RequestRefresh(S, p, force) ==
    UNION {IF s.relays = {} THEN {ResetRuntimes(s)}
           ELSE LET D == {[s EXCEPT !.desired = p]}
                IN  Schedule(IF force \/ s.desired # p \/ s.applied # p
                             THEN Reconcile(D) ELSE D, Later)
           : s \in S}

\* retry_protocol_engine_pending_outbound: work that is due may yield a batch,
\* which asks for a refresh and a fast check.
RetryProtocol(S, p) ==
    IF "batch" \in Waiting THEN S \cup Schedule(RequestRefresh(S, p, FALSE), Soon) ELSE S

\* retry_pending_relay_publishes, as far as the transport goes: when something is
\* pending, dial if offline and check again when the drain would be stale.
RetryPublishes(S) ==
    LET Offline == {s \in S : s.cached = {}}
    IN  IF "publish" \in Waiting
        THEN S \cup Schedule((S \ Offline) \cup
                     ScheduleTransportRetry(RequestConnection(Offline)), Later)
        ELSE S

Retries(S, p) == RetryPublishes(RetryProtocol(S, p))

\* The actor is left in one of S, if the bounds on unfinished tasks allow it.
Becomes(S) ==
    \E s \in S : /\ Cardinality(s.applies) <= MaxApplies
                 /\ Cardinality(s.connects) <= MaxConnects
                 /\ actor' = s

-----------------------------------------------------------------------------
(* The session.                                                            *)

Idle == [relays |-> Relays, cached |-> {}, desired |-> NoPlan, applied |-> NoPlan,
         inFlight |-> FALSE, dirty |-> FALSE, token |-> 0, due |-> NoDue,
         live |-> FALSE, dialing |-> FALSE, dialAgain |-> FALSE, stale |-> FALSE,
         dialToken |-> 0, applies |-> {}, connects |-> {}]

Init ==
    /\ session = "none" /\ want \in Plans
    /\ dialed = FALSE /\ up = {} /\ held = [r \in Relays |-> NoPlan]
    /\ watched = {} /\ news = [r \in Relays |-> <<>>]
    /\ actor = Idle

\* start_session: a new client and fresh runtimes.  Work that was queued before
\* the restart may ask for a refresh before the tokens are bumped.
StartSession(queued) ==
    LET S1 == {[ResetRuntimes(actor) EXCEPT !.cached = {}]}
        S2 == IF queued THEN Schedule(RequestRefresh(S1, want, FALSE), Soon) ELSE S1
        S3 == {[s EXCEPT !.live = FALSE] : s \in S2}
    IN  /\ session = "none" /\ session' = "active"
        /\ queued => "queued" \in Disruptions
        /\ Becomes(RequestRefresh(Retries(RequestConnection(S3), want), want, FALSE))
        /\ watched' = actor.relays
        /\ UNCHANGED <<want, dialed, up, held, news>>

\* The relay client is told to drop its subscriptions and connections.
ClientStops ==
    /\ dialed' = FALSE /\ up' = {} /\ held' = [r \in Relays |-> NoPlan]

\* prepare_for_suspend: the mailbox is shut, the runtimes are fresh, the status
\* watchers are of an old generation; the client has 750 ms to stop.
Suspend(stops) ==
    /\ "suspend" \in Disruptions
    /\ session = "active" /\ session' = "suspended"
    /\ Becomes({[ResetRuntimes(actor) EXCEPT !.cached = {}, !.live = FALSE]})
    /\ watched' = {} /\ news' = [r \in Relays |-> <<>>]
    /\ IF stops THEN ClientStops ELSE UNCHANGED <<dialed, up, held>>
    /\ UNCHANGED want

\* handle_app_foregrounded: connect and refresh; nobody watches the relays again.
Foreground ==
    /\ session = "suspended" /\ session' = "active"
    /\ Becomes(Retries(RequestRefresh(RequestConnection({actor}), want, TRUE), want))
    /\ UNCHANGED <<want, dialed, up, held, watched, news>>

\* logout: the client is shut down for good; the tasks that still work on it
\* find no relay and report that.
Logout ==
    /\ "logout" \in Disruptions
    /\ session = "active" /\ session' = "none"
    /\ Becomes({[ResetRuntimes(actor) EXCEPT !.cached = {}, !.live = FALSE,
           !.applies = {[a EXCEPT !.at = "sent"] : a \in NoneAwaited(@)},
           !.connects = {[k EXCEPT !.at = "sent"] : k \in @}]})
    /\ watched' = {} /\ news' = [r \in Relays |-> <<>>]
    /\ ClientStops
    /\ UNCHANGED want

\* set_nostr_relay_urls: the watchers of the relays that stay go on, a new relay
\* gets none.
EditRelays(R) ==
    LET S == {[actor EXCEPT !.relays = R, !.cached = @ \cap R]}
    IN  /\ "edit" \in Disruptions /\ session = "active" /\ R # actor.relays
        /\ Becomes(Retries(RequestRefresh(RequestConnection(S), want, TRUE), want))
        /\ watched' = watched \cap R /\ up' = up \cap R
        /\ held' = [r \in Relays |-> IF r \in R THEN held[r] ELSE NoPlan]
        /\ news' = [r \in Relays |-> IF r \in watched \cap R THEN news[r] ELSE <<>>]
        /\ UNCHANGED <<session, want, dialed>>

\* Any handler that changes what the plan is computed from, or only thinks it
\* may have, ends with a refresh; some ask for a fast check besides.
RefreshRequested(p, force, fast) ==
    LET S == RequestRefresh({actor}, p, force)
    IN  /\ session = "active" /\ want' = p
        /\ Becomes(IF fast THEN Schedule(S, Soon) ELSE S)
        /\ UNCHANGED <<session, dialed, up, held, watched, news>>

-----------------------------------------------------------------------------
(* The message servers, as the relay client reports them.                  *)

\* r's status changes to b; its watcher, if there is one, forwards the news,
\* unless it lags behind so far that the notification is lost.
Notify(r, b) ==
    \/ /\ r \in watched /\ Len(news[r]) < MaxNews
       /\ news' = [news EXCEPT ![r] = Append(@, b)]
    \/ /\ r \notin watched \/ "lag" \in Disruptions
       /\ news' = news

RelayConnects(r) ==
    /\ dialed /\ r \in actor.relays \ up
    /\ up' = up \cup {r} /\ Notify(r, TRUE)
    /\ UNCHANGED <<session, want, dialed, held, watched, actor>>

RelayDrops(r) ==
    /\ r \in up /\ up' = up \ {r} /\ Notify(r, FALSE)
    /\ UNCHANGED <<session, want, dialed, held, watched, actor>>

\* handle_relay_status_changed_for_generation: only the first relay to connect
\* and the last one to go are acted on.
StatusChanged(r) ==
    LET b   == Head(news[r])
        now == IF b THEN actor.cached \cup {r} ELSE actor.cached \ {r}
        S   == {[actor EXCEPT !.cached = now]}
    IN  /\ session = "active" /\ news[r] # <<>>
        /\ news' = [news EXCEPT ![r] = Tail(@)]
        /\ Becomes(IF actor.cached = {} /\ now # {}
                   THEN Schedule(Retries(Reconcile(S), want), Later)
                   ELSE IF actor.cached # {} /\ now = {} THEN Schedule(S, Soon)
                   ELSE S)
        /\ UNCHANGED <<session, want, dialed, up, held, watched>>

-----------------------------------------------------------------------------
(* Connecting.                                                             *)

\* A connect task adds the relays to the client and has it connect.
ConnectTaskDials(k) ==
    /\ k.at = "start"
    /\ dialed' = TRUE
    /\ actor' = [actor EXCEPT !.connects = (@ \ {k}) \cup {[k EXCEPT !.at = "wait"]}]
    /\ UNCHANGED <<session, want, up, held, watched, news>>

\* It reports the relays' statuses once one is connected, or at its timeout.
ConnectTaskReports(k) ==
    /\ k.at = "wait"
    /\ actor' = [actor EXCEPT !.connects = (@ \ {k}) \cup
           {[k EXCEPT !.at = "sent", !.seen = up]}]
    /\ UNCHANGED <<session, want, dialed, up, held, watched, news>>

\* RELAY_CONNECT_STALE_AFTER passes.
ConnectAges ==
    /\ "slow" \in Disruptions /\ actor.dialing /\ ~actor.stale
    /\ actor' = [actor EXCEPT !.stale = TRUE]
    /\ UNCHANGED <<session, want, dialed, up, held, watched, news>>

\* handle_relay_transport_connection_finished.
ConnectionFinished(k) ==
    LET S1 == {[actor EXCEPT !.connects = @ \ {k}]}
        S2 == {[s EXCEPT !.dialing = FALSE, !.dialAgain = FALSE, !.stale = FALSE,
                         !.cached = k.seen \cap s.relays] : s \in S1}
        S3 == IF k.seen \cap actor.relays # {} THEN Retries(Reconcile(S2), want)
              ELSE ScheduleTransportRetry(S2)
    IN  /\ k.at = "sent"
        /\ Becomes(IF session = "suspended" \/ k.token # actor.dialToken THEN S1
                   ELSE IF actor.dialAgain THEN RequestConnection(S3) ELSE S3)
        /\ UNCHANGED <<session, want, dialed, up, held, watched, news>>

-----------------------------------------------------------------------------
(* Applying the plan.                                                      *)

\* The apply task gives up when no relay is connected; otherwise it closes the
\* subscription it replaces, at every relay.
ApplyBegins(a) ==
    /\ a.at = "start"
    /\ actor' = [actor EXCEPT !.applies = (@ \ {a}) \cup
           {[a EXCEPT !.at = IF up = {} THEN "sent" ELSE "subscribe"]}]
    /\ held' = IF up # {} /\ a.replaces THEN [r \in Relays |-> NoPlan] ELSE held
    /\ UNCHANGED <<session, want, dialed, up, watched, news>>

\* It opens the subscription at the relays that accept it, at most those that
\* are connected; one is enough, unless the time is up before it can say so.
ApplySubscribes(a, R, intime) ==
    /\ a.at = "subscribe" /\ R \subseteq up
    /\ held' = [r \in Relays |-> IF r \in R THEN a.plan ELSE held[r]]
    /\ actor' = [actor EXCEPT !.applies = (@ \ {a}) \cup
           {[a EXCEPT !.at = "sent", !.ok = R # {} /\ intime, !.seen = up]}]
    /\ UNCHANGED <<session, want, dialed, up, watched, news>>

\* Mutants: a failed apply is not tried again; a dirty flag outlives its apply.
ReconcileCompletedForgetting(a) ==
    LET S == {[actor EXCEPT !.applies = @ \ {a}, !.inFlight = FALSE, !.dirty = FALSE,
                            !.applied = IF a.ok THEN a.plan ELSE @,
                            !.cached = a.seen \cap actor.relays]}
    IN  /\ a.at = "sent" /\ session = "active" /\ a.token = actor.token
        /\ Becomes(IF actor.dirty THEN RequestRefresh(Retries(S, want), want, FALSE)
                   ELSE Schedule(S, Soon))
        /\ UNCHANGED <<session, want, dialed, up, held, watched, news>>
ReconcileCompletedStayingDirty(a) ==
    LET S == {[actor EXCEPT !.applies = @ \ {a},
                            !.inFlight = @ /\ a.token # actor.token,
                            !.applied = IF a.ok /\ a.token = actor.token THEN a.plan ELSE @,
                            !.dirty = TRUE]}
    IN  /\ a.at = "sent" /\ Becomes(S)
        /\ UNCHANGED <<session, want, dialed, up, held, watched, news>>

\* handle_protocol_subscription_reconcile_completed: the token is compared, the
\* generation is not.
ReconcileCompleted(a) ==
    LET S1 == {[actor EXCEPT !.applies = @ \ {a}]}
        S2 == {[s EXCEPT !.inFlight = FALSE, !.dirty = FALSE,
                         !.applied = IF a.ok THEN a.plan ELSE @,
                         !.cached = a.seen \cap s.relays,
                         !.applies = NoneAwaited(@)] : s \in S1}
        S3 == IF a.seen # {} THEN Retries(S2, want) ELSE Schedule(S2, Soon)
        Missed(s) == ~a.ok /\ s.desired # s.applied
    IN  /\ a.at = "sent"
        /\ Becomes(IF session = "suspended" \/ a.token # actor.token THEN S1
                   ELSE IF actor.dirty THEN RequestRefresh(S3, want, FALSE)
                   ELSE {s \in S3 : ~Missed(s)} \cup
                        Schedule({[s EXCEPT !.dirty = TRUE] : s \in {u \in S3 : Missed(u)}}, Soon))
        /\ UNCHANGED <<session, want, dialed, up, held, watched, news>>

\* Mutants: the check forgets that it has run; it leaves a plan alone that was
\* applied once.
TimerFiresKeepingDeadline ==
    LET S == {[actor EXCEPT !.live = FALSE]}
    IN  /\ actor.live
        /\ Becomes(IF session # "active" THEN S
                   ELSE Schedule(Retries(Reconcile(S), want), Later))
        /\ UNCHANGED <<session, want, dialed, up, held, watched, news>>
TimerFiresIfUnapplied ==
    LET S == {[actor EXCEPT !.live = FALSE, !.due = NoDue]}
        T == IF actor.desired # actor.applied \/ actor.dirty THEN Reconcile(S) ELSE S
    IN  /\ actor.live
        /\ Becomes(IF session # "active" THEN S ELSE Schedule(Retries(T, want), Later))
        /\ UNCHANGED <<session, want, dialed, up, held, watched, news>>

\* handle_protocol_subscription_liveness_check, for the current token.
TimerFires ==
    LET S == {[actor EXCEPT !.live = FALSE, !.due = NoDue]}
    IN  /\ actor.live
        /\ Becomes(IF session # "active" \/ ~SubscriptionWork(actor) THEN S
                   ELSE Schedule(Retries(Reconcile(S), want), Later))
        /\ UNCHANGED <<session, want, dialed, up, held, watched, news>>

-----------------------------------------------------------------------------
ConnectTask ==
    \E k \in actor.connects : ConnectTaskDials(k) \/ ConnectTaskReports(k)
                              \/ ConnectionFinished(k)

ApplyTask ==
    \E a \in actor.applies :
        \/ ApplyBegins(a)
        \/ \E R \in SUBSET up, b \in BOOLEAN : ApplySubscribes(a, R, b)
        \/ ReconcileCompleted(a)

Next ==
    \/ \E b \in BOOLEAN : StartSession(b)
    \/ \E b \in BOOLEAN : Suspend(b)
    \/ Foreground
    \/ Logout
    \/ \E R \in SUBSET Relays : EditRelays(R)
    \/ \E p \in Plans, b, c \in BOOLEAN : RefreshRequested(p, b, c)
    \/ \E r \in Relays : RelayConnects(r) \/ RelayDrops(r) \/ StatusChanged(r)
    \/ ConnectAges
    \/ ConnectTask
    \/ ApplyTask
    \/ TimerFires

Spec == Init /\ [][Next]_vars

\* Tasks and timers run and their messages are handled; no task in particular
\* is favoured.
Fairness ==
    /\ WF_vars(ConnectTask) /\ WF_vars(ApplyTask)
    /\ WF_vars(\E r \in Relays : StatusChanged(r))
    /\ WF_vars(TimerFires)

\* The relays accept a subscription that is offered to them again and again.
RelaysAccept ==
    SF_vars(\E a \in actor.applies : ApplySubscribes(a, up, TRUE))

FairSpec == Spec /\ Fairness /\ RelaysAccept

-----------------------------------------------------------------------------
(* Safety.                                                                 *)

\* Every retry of this code, of subscriptions, connections and publishes, rests
\* on the liveness check: a session with message servers always has a deadline,
\* and a running timer that will meet it.
WakeupArmed ==
    session = "active" /\ actor.relays # {} => actor.due # NoDue /\ actor.live

\* refresh_in_flight and connect_in_flight are never left behind: as long as one
\* is set, the task the actor waits for will report with the token that clears it.
InFlightIsServed ==
    /\ actor.inFlight => \E a \in actor.applies : ~a.old /\ a.token = actor.token
    /\ actor.dialing => \E k \in actor.connects : k.token = actor.dialToken

\* What is known to be unapplied is being applied, or waits for a connection or
\* for the check.
Remembered ==
    session = "active" /\ actor.desired # actor.applied
        => actor.inFlight \/ actor.dirty

\* The report of an apply the actor no longer waits for is taken for the report
\* of the current one, whose token is the same.
TakenForCurrent(a) == a.old /\ a.token = actor.token /\ actor'.applied = a.plan

\* A request that a handler defers is not forgotten, except in one case: tokens
\* start at 1 in every runtime, so an apply of the runtime before a suspension
\* can report its plan as the applied one.  (The next check applies the plan
\* again, see EventuallyHeld.)
DeferredIsRemembered ==
    [][Remembered => Remembered' \/ \E a \in actor.applies : TakenForCurrent(a)]_vars

-----------------------------------------------------------------------------
(* Liveness: once the world outside stands still.                          *)

Settled(U, p) == session = "active" /\ up = U /\ dialed /\ want = p

\* The statuses the actor shows and decides by become those of the client, also
\* when nobody watches the relays or the notifications come out of order.
StatusConverges ==
    \A U \in SUBSET Relays, p \in Plans :
        <>[]Settled(U, p) => <>[](actor.cached = U)

\* The plan the protocol state calls for gets subscribed at every relay that
\* stays connected, whatever applies failed, overlapped or were left over from
\* before a suspension.
EventuallyHeld ==
    \A U \in SUBSET Relays, p \in Plans :
        <>[]Settled(U, p) => []<>(\A r \in U : held[r] = p)

\* busy.syncing_network, as far as subscriptions go, does not stay on.
Busy == actor.inFlight \/ actor.dirty \/ actor.desired # actor.applied
SyncingEnds ==
    \A U \in SUBSET Relays \ {{}}, p \in Plans : <>[]Settled(U, p) => []<>~Busy
=============================================================================
