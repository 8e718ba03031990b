-------------------------- MODULE ActorShellProofs --------------------------
(* Theorems about ActorShell, for any accounts, chats, failures and panics. *)
EXTENDS ActorShell, SequenceTheorems, TLAPS

CoreType == [alive : BOOLEAN, emitted : BOOLEAN, state : AppStates]
ListenerType == [busy : BOOLEAN, before : Seq(Accounts), latest : Seq(AppStates)]

-----------------------------------------------------------------------------
(* Types.                                                                  *)

LEMMA EmptyType == Empty \in AppStates /\ \A ok \in BOOLEAN : OpenState(ok) \in AppStates
  BY DEF Empty, OpenState, AppStates, Routes

LEMMA BundleType == \A a \in Accounts : Bundle(a) \in Updates /\ Bundle(a).who = a
  BY EmptyType DEF Bundle, Updates

LEMMA FullType == \A s \in AppStates : Full(s) \in Updates /\ Full(s).who = NoAccount
  BY DEF Full, Updates

LEMMA NoUpdates == <<>> \in Seq(Updates)
  OBVIOUS

\* What the core sends joins what waits for the listener.
LEMMA SentType ==
    ASSUME NEW us \in Seq(Updates), NEW vs \in Seq(Updates), NEW u \in Updates
    PROVE  us \o vs \in Seq(Updates) /\ Append(us, u) \in Seq(Updates)
           /\ us \o <<u>> \in Seq(Updates)
  OBVIOUS

LEMMA ActionTypes ==
    /\ Logout \in Actions
    /\ \A kind \in Logins, a \in Accounts \cup {Typo} :
          Login(kind, a) \in Actions /\ Login(kind, a).kind = kind /\ Login(kind, a).who = a
    /\ \A r \in Routes : Go(r) \in Actions
  BY DEF Logout, Login, Go, Actions, Logins, Routes

LEMMA EndBatchType ==
    ASSUME TypeOK, NEW bundles \in Seq(Updates), NEW s \in AppStates, NEW e \in BOOLEAN,
           EndBatch(bundles, s, e)
    PROVE  core' \in CoreType /\ shared' \in AppStates /\ updates' \in Seq(Updates)
  <1> DEFINE t == [s EXCEPT !.rev = @ + 1]
  <1>1. t \in AppStates
    BY DEF AppStates
  <1>2. core \in CoreType /\ shared \in AppStates /\ updates \in Seq(Updates)
    BY DEF TypeOK, CoreType
  <1>3. CASE e /\ Same(s, shared)
    <2>1. core' = [core EXCEPT !.state = s] /\ updates' = updates \o bundles /\ shared' = shared
      BY <1>3 DEF EndBatch
    <2>2. updates \o bundles \in Seq(Updates)
      BY <1>2
    <2> QED
      BY <1>2, <2>1, <2>2 DEF CoreType
  <1>4. CASE ~(e /\ Same(s, shared))
    <2>1. Full(t) \in Updates
      BY <1>1, FullType
    <2>2. /\ core' = [core EXCEPT !.state = t, !.emitted = TRUE]
          /\ updates' = Append(updates \o bundles, Full(t))
          /\ shared' = t
      BY <1>4 DEF EndBatch
    <2>3. updates' \in Seq(Updates)
      BY <1>2, <2>1, <2>2, SentType
    <2> HIDE DEF t
    <2> QED
      BY <1>1, <1>2, <2>2, <2>3 DEF CoreType
  <1> QED
    BY <1>3, <1>4

LEMMA RecoverType ==
    ASSUME TypeOK, NEW sent \in Seq(Updates), Recover(sent)
    PROVE  core' \in CoreType /\ shared' \in AppStates /\ updates' \in Seq(Updates)
  <1>1. updates \in Seq(Updates) /\ restore \in Accounts \cup {NoAccount, Typo}
    BY DEF TypeOK
  <1>2. OpenState(FALSE) \in AppStates /\ Full(OpenState(FALSE)) \in Updates /\ Empty \in AppStates
    BY EmptyType, FullType
  <1>3. CASE /\ restore # NoAccount
             /\ \E ok \in BOOLEAN :
                  LET s == IF ok THEN [Empty EXCEPT !.rev = 1, !.account = restore]
                           ELSE [Empty EXCEPT !.rev = 1, !.toast = TRUE]
                  IN  /\ ok => restore # Typo
                      /\ core' = [alive |-> TRUE, emitted |-> TRUE, state |-> s]
                      /\ shared' = s
                      /\ updates' = updates \o sent \o (IF ok THEN <<Bundle(restore)>> ELSE <<>>)
                                            \o <<Full(s)>>
    <2>1. PICK ok \in BOOLEAN :
                  LET s == IF ok THEN [Empty EXCEPT !.rev = 1, !.account = restore]
                           ELSE [Empty EXCEPT !.rev = 1, !.toast = TRUE]
                  IN  /\ ok => restore # Typo
                      /\ core' = [alive |-> TRUE, emitted |-> TRUE, state |-> s]
                      /\ shared' = s
                      /\ updates' = updates \o sent \o (IF ok THEN <<Bundle(restore)>> ELSE <<>>)
                                            \o <<Full(s)>>
      BY <1>3
    <2> DEFINE s == IF ok THEN [Empty EXCEPT !.rev = 1, !.account = restore]
                    ELSE [Empty EXCEPT !.rev = 1, !.toast = TRUE]
               bs == IF ok THEN <<Bundle(restore)>> ELSE <<>>
    <2>2. ok => restore \in Accounts
      BY <1>1, <1>3, <2>1
    <2>3. s \in AppStates
      BY <1>2, <2>2 DEF AppStates
    <2>4. Full(s) \in Updates
      BY <2>3, FullType
    <2>5. bs \in Seq(Updates)
      BY <2>2, BundleType
    <2>6. /\ core' = [alive |-> TRUE, emitted |-> TRUE, state |-> s]
          /\ shared' = s
          /\ updates' = updates \o sent \o bs \o <<Full(s)>>
      BY <2>1
    <2> HIDE DEF s, bs
    <2> QED
      BY <1>1, <2>3, <2>4, <2>5, <2>6 DEF CoreType
  <1>4. CASE core' = [alive |-> TRUE, emitted |-> FALSE, state |-> Empty]
             /\ shared' = Empty /\ updates' = updates \o sent
    BY <1>1, <1>2, <1>4 DEF CoreType
  <1>5. CASE core' = [alive |-> FALSE, emitted |-> FALSE, state |-> OpenState(FALSE)]
             /\ shared' = OpenState(FALSE) /\ updates' = updates \o sent \o <<Full(OpenState(FALSE))>>
    <2>1. updates \o sent \o <<Full(OpenState(FALSE))>> \in Seq(Updates)
      BY <1>1, <1>2, SentType
    <2> QED
      BY <1>2, <1>5, <2>1 DEF CoreType
  <1>6. CASE core' = [alive |-> FALSE, emitted |-> FALSE, state |-> Empty]
             /\ shared' = Empty /\ updates' = updates \o sent
    BY <1>1, <1>2, <1>6 DEF CoreType
  <1> QED
    BY <1>3, <1>4, <1>5, <1>6 DEF Recover

LEMMA LoginType ==
    ASSUME TypeOK, NEW m \in Actions, m.kind \in Logins, CoreLogsIn(m)
    PROVE  core' \in CoreType /\ shared' \in AppStates /\ updates' \in Seq(Updates)
  <1>1. core \in CoreType /\ core.state \in AppStates /\ core.emitted \in BOOLEAN
    BY DEF TypeOK, CoreType
  <1>2. CASE EndBatch(<<>>, [core.state EXCEPT !.toast = TRUE], core.emitted)
    <2>1. [core.state EXCEPT !.toast = TRUE] \in AppStates
      BY <1>1 DEF AppStates
    <2> QED
      BY <1>1, <1>2, <2>1, NoUpdates, EndBatchType
  <1>3. CASE m.who # Typo /\ EndBatch(<<Bundle(m.who)>>, Started(core.state, m.who), core.emitted)
    <2>1. m.who \in Accounts
      BY <1>3 DEF Actions, Logins
    <2>2. Started(core.state, m.who) \in AppStates
      BY <1>1, <2>1 DEF Started, AppStates, Routes
    <2>3. <<Bundle(m.who)>> \in Seq(Updates)
      BY <2>1, BundleType
    <2> QED
      BY <1>1, <1>3, <2>2, <2>3, EndBatchType
  <1>4. CASE EndBatch(<<>>, Failed(core.state), core.emitted)
    <2>1. Failed(core.state) \in AppStates
      BY <1>1 DEF Failed, AppStates, Routes
    <2> QED
      BY <1>1, <1>4, <2>1, NoUpdates, EndBatchType
  <1> QED
    BY <1>2, <1>3, <1>4 DEF CoreLogsIn
-----------------------------------------------------------------------------
(* Queues.                                                                 *)

LEMMA TailType ==
    ASSUME NEW S, NEW q \in Seq(S), q # <<>>
    PROVE  Head(q) \in S /\ Tail(q) \in Seq(S)
  OBVIOUS

\* What a queue holds that came from another one.
From(r, q) == \A i \in 1..Len(r) : \E j \in 1..Len(q) : r[i] = q[j]

LEMMA AppendElements ==
    ASSUME NEW S, NEW q \in Seq(S), NEW x \in S
    PROVE  \A i \in 1..Len(Append(q, x)) :
              Append(q, x)[i] = x \/ (i \in 1..Len(q) /\ Append(q, x)[i] = q[i])
  <1> DEFINE r == Append(q, x)
             n == Len(q)
  <1>1. n \in Nat
    BY LenProperties
  <1>2. Len(r) = n + 1 /\ r[n + 1] = x /\ \A i \in 1..n : r[i] = q[i]
    BY AppendProperties
  <1>3. \A i \in 1..n + 1 : i \in 1..n \/ i = n + 1
    BY <1>1
  <1> HIDE DEF r, n
  <1>4. \A i \in 1..Len(r) : r[i] = x \/ (i \in 1..n /\ r[i] = q[i])
    BY <1>2, <1>3
  <1> QED
    BY <1>4 DEF r, n

LEMMA TailElements ==
    ASSUME NEW S, NEW q \in Seq(S), q # <<>>
    PROVE  From(Tail(q), q)
  <1>1. \A i \in 1..Len(Tail(q)) : i + 1 \in 1..Len(q) /\ Tail(q)[i] = q[i + 1]
    OBVIOUS
  <1> QED
    BY <1>1 DEF From

LEMMA SubSeqElements ==
    ASSUME NEW S, NEW q \in Seq(S), NEW k \in 1..Len(q)
    PROVE  From(SubSeq(q, k + 1, Len(q)), q)
  <1>1. \A i \in 1..Len(SubSeq(q, k + 1, Len(q))) :
           k + i \in 1..Len(q) /\ SubSeq(q, k + 1, Len(q))[i] = q[k + i]
    OBVIOUS
  <1> QED
    BY <1>1 DEF From

LEMMA DispatchType ==
    ASSUME TypeOK, NEW m \in Actions, Dispatch(m)
    PROVE  /\ fg' \in Seq(Actions)
           /\ m.kind # "restore" \/ m.who \in Accounts \cup {Typo} =>
                 restore' \in Accounts \cup {NoAccount, Typo}
  <1>1. fg \in Seq(Actions) /\ restore \in Accounts \cup {NoAccount, Typo}
    BY DEF TypeOK
  <1>2. Append(fg, m) \in Seq(Actions)
    BY <1>1
  <1> QED
    BY <1>1, <1>2 DEF Dispatch

-----------------------------------------------------------------------------
(* The actions keep the types.                                             *)

LEMMA UserTypes ==
    ASSUME TypeOK, User
    PROVE  TypeOK'
  <1>0. /\ inputs \in 0..MaxInputs /\ MaxInputs \in Nat
        /\ uiq \in Seq(AppStates) /\ local \in AppStates
        /\ restore \in Accounts \cup {NoAccount, Typo}
    BY AccountAssumption DEF TypeOK
  <1>1. ASSUME NEW kind \in {"create", "restore"}, NEW a \in Accounts \cup {Typo},
               UserLogsIn(kind, a)
        PROVE  TypeOK'
    <2>1. /\ Login(kind, a) \in Actions /\ Login(kind, a).who = a
          /\ Dispatch(Login(kind, a))
      BY <1>1, ActionTypes DEF UserLogsIn, Logins
    <2>2. fg' \in Seq(Actions) /\ restore' \in Accounts \cup {NoAccount, Typo}
      BY <2>1, DispatchType
    <2>3. inputs' \in 0..MaxInputs
      BY <1>0, <1>1 DEF UserLogsIn, Input
    <2>4. pressed' = TRUE /\ left' = FALSE /\ override' \in {"none", override}
      BY <1>1 DEF UserLogsIn
    <2> QED
      BY <1>1, <2>2, <2>3, <2>4 DEF UserLogsIn, coreVars, TypeOK
  <1>2. ASSUME UserLogsOut \/ UserDeletes
        PROVE  TypeOK'
    <2>1. Logout \in Actions /\ Logout.kind = "logout" /\ Dispatch(Logout)
      BY <1>2, ActionTypes DEF UserLogsOut, UserDeletes, Logout
    <2>2. fg' \in Seq(Actions)
      BY <2>1, DispatchType
    <2>3. restore' = NoAccount
      BY <2>1 DEF Dispatch
    <2>4. inputs' \in 0..MaxInputs
      BY <1>0, <1>2 DEF UserLogsOut, UserDeletes, Input
    <2>5. secrets' \in {NoAccount, secrets} /\ left' \in BOOLEAN /\ override' = "none"
      BY <1>2 DEF UserLogsOut, UserDeletes, TypeOK
    <2> QED
      BY <1>2, <2>2, <2>3, <2>4, <2>5 DEF UserLogsOut, UserDeletes, coreVars, TypeOK
  <1>3. ASSUME NEW r \in Routes, UserNavigates(r)
        PROVE  TypeOK'
    <2> DEFINE s == [local EXCEPT !.route = r]
    <2>1. s \in AppStates
      BY <1>0 DEF AppStates
    <2>2. Go(r) \in Actions /\ Go(r).kind = "go" /\ Dispatch(Go(r))
      BY <1>3, ActionTypes DEF UserNavigates, Go
    <2>3. fg' \in Seq(Actions) /\ restore' \in Accounts \cup {NoAccount, Typo}
      BY <2>2, DispatchType
    <2>4. inputs' \in 0..MaxInputs
      BY <1>0, <1>3 DEF UserNavigates, Input
    <2>5. local' = s /\ uiq' = Append(uiq, s) /\ override' = r
      BY <1>3 DEF UserNavigates
    <2>6. uiq' \in Seq(AppStates)
      BY <1>0, <2>1, <2>5
    <2> HIDE DEF s
    <2> QED
      BY <1>3, <2>1, <2>3, <2>4, <2>5, <2>6 DEF UserNavigates, coreVars, TypeOK
  <1> QED
    BY <1>1, <1>2, <1>3 DEF User

LEMMA HandlesTypes ==
    ASSUME TypeOK, CoreHandles
    PROVE  core' \in CoreType /\ shared' \in AppStates /\ updates' \in Seq(Updates)
  <1> DEFINE m == Head(fg)
  <1>1. m \in Actions
    BY TailType DEF TypeOK, CoreHandles
  <1>2. core \in CoreType /\ core.state \in AppStates /\ core.emitted \in BOOLEAN
        /\ shared \in AppStates /\ updates \in Seq(Updates)
    BY DEF TypeOK, CoreType
  <1>3. CASE CoreLogsIn(m) /\ m.kind \in Logins
    BY <1>1, <1>3, LoginType
  <1>4. CASE CoreLogsOut
    <2>1. [Empty EXCEPT !.rev = core.state.rev] \in AppStates
      BY <1>2, EmptyType DEF AppStates
    <2> QED
      BY <1>4, <2>1, NoUpdates, EndBatchType DEF CoreLogsOut
  <1>5. CASE CoreGoes(m.route)
    <2> DEFINE s == [core.state EXCEPT !.toast = FALSE]
    <2>1. m.route \in Routes
      BY <1>1 DEF Actions, Routes
    <2>2. /\ s \in AppStates /\ [s EXCEPT !.route = m.route] \in AppStates
          /\ [s EXCEPT !.toast = TRUE] \in AppStates
      BY <1>2, <2>1 DEF AppStates
    <2>3. \/ EndBatch(<<>>, [s EXCEPT !.route = m.route], core.emitted)
          \/ core' = [core EXCEPT !.state = s] /\ shared' = shared /\ updates' = updates
          \/ EndBatch(<<>>, [s EXCEPT !.toast = TRUE], core.emitted)
      BY <1>5 DEF CoreGoes
    <2>4. [core EXCEPT !.state = s] \in CoreType
      BY <1>2, <2>2 DEF CoreType
    <2> HIDE DEF s
    <2> QED
      BY <1>2, <2>2, <2>3, <2>4, NoUpdates, EndBatchType
  <1> QED
    BY <1>3, <1>4, <1>5 DEF CoreHandles

LEMMA CoreTypes ==
    ASSUME TypeOK, CoreHandles \/ CoreHears \/ CorePanicsIdle \/ \E k \in 1..Len(fg) : CorePanics(k)
    PROVE  TypeOK'
  <1>0. /\ core \in CoreType /\ core.state \in AppStates /\ core.emitted \in BOOLEAN
        /\ fg \in Seq(Actions) /\ inputs \in 0..MaxInputs /\ MaxInputs \in Nat
    BY AccountAssumption DEF TypeOK, CoreType
  <1>1. ASSUME CoreHandles PROVE TypeOK'
    <2>1. core' \in CoreType /\ shared' \in AppStates /\ updates' \in Seq(Updates)
      BY <1>1, HandlesTypes
    <2>2. fg' \in Seq(Actions)
      BY <1>0, <1>1, TailType DEF CoreHandles
    <2> QED
      BY <1>1, <2>1, <2>2 DEF CoreHandles, uiVars, CoreType, TypeOK
  <1>2. ASSUME CoreHears PROVE TypeOK'
    <2>1. [core.state EXCEPT !.news = ~@] \in AppStates
      BY <1>0 DEF AppStates
    <2>2. core' \in CoreType /\ shared' \in AppStates /\ updates' \in Seq(Updates)
      BY <1>0, <1>2, <2>1, NoUpdates, EndBatchType DEF CoreHears
    <2>3. inputs' \in 0..MaxInputs
      BY <1>0, <1>2 DEF CoreHears, Input
    <2> QED
      BY <1>2, <2>2, <2>3 DEF CoreHears, uiVars, CoreType, TypeOK
  <1>3. ASSUME NEW k \in 1..Len(fg), CorePanics(k) PROVE TypeOK'
    <2> DEFINE m == Head(fg)
    <2>1. m \in Actions
      BY <1>0, <1>3, TailType DEF CorePanics
    <2>2. PICK sent \in {<<>>} \cup
               (IF m.kind \in Logins /\ m.who # Typo THEN {<<Bundle(m.who)>>} ELSE {}) : Recover(sent)
      BY <1>3 DEF CorePanics
    <2>3. m.kind \in Logins /\ m.who # Typo => m.who \in Accounts
      BY <2>1 DEF Actions, Logins
    <2>4. sent \in Seq(Updates)
      <3>1. CASE sent = <<>>
        BY <3>1, NoUpdates
      <3>2. CASE m.kind \in Logins /\ m.who # Typo /\ sent = <<Bundle(m.who)>>
        BY <2>3, <3>2, BundleType
      <3> QED
        BY <2>2, <3>1, <3>2
    <2>5. core' \in CoreType /\ shared' \in AppStates /\ updates' \in Seq(Updates)
      BY <2>2, <2>4, RecoverType
    <2>6. fg' \in Seq(Actions)
      BY <1>0, <1>3 DEF CorePanics
    <2> QED
      BY <1>3, <2>5, <2>6 DEF CorePanics, uiVars, CoreType, TypeOK
  <1>4. ASSUME CorePanicsIdle PROVE TypeOK'
    <2>1. core' \in CoreType /\ shared' \in AppStates /\ updates' \in Seq(Updates)
      BY <1>4, NoUpdates, RecoverType DEF CorePanicsIdle
    <2> QED
      BY <1>4, <2>1 DEF CorePanicsIdle, uiVars, CoreType, TypeOK
  <1> QED
    BY <1>1, <1>2, <1>3, <1>4

LEMMA ListenerTypes ==
    ASSUME TypeOK, Listener
    PROVE  TypeOK'
  <1>0. /\ updates \in Seq(Updates) /\ listener \in ListenerType
        /\ listener.before \in Seq(Accounts) /\ listener.latest \in Seq(AppStates)
        /\ Len(listener.latest) <= 1 /\ uiq \in Seq(AppStates)
    BY DEF TypeOK, ListenerType
  <1>1. ASSUME ListenerTakes PROVE TypeOK'
    <2> DEFINE u == Head(updates)
    <2>1. u \in Updates /\ Tail(updates) \in Seq(Updates)
      BY <1>0, <1>1, TailType DEF ListenerTakes
    <2>2. CASE u.who # NoAccount
      <3>1. u.who \in Accounts
        BY <2>1, <2>2 DEF Updates
      <3>2. Append(listener.before, u.who) \in Seq(Accounts)
        BY <1>0, <3>1
      <3>3. /\ listener' = [listener EXCEPT !.before = Append(listener.before, u.who)]
            /\ restore' = u.who /\ updates' = Tail(updates) /\ ~listener.busy
        BY <1>1, <2>2 DEF ListenerTakes
      <3>4. listener' \in ListenerType /\ ~listener'.busy /\ listener'.latest = listener.latest
        BY <1>0, <3>2, <3>3 DEF ListenerType
      <3> QED
        BY <1>0, <1>1, <2>1, <3>1, <3>3, <3>4 DEF ListenerTakes, ListenerType, uiVars, TypeOK
    <2>3. CASE u.who = NoAccount
      <3>1. <<u.state>> \in Seq(AppStates) /\ Len(<<u.state>>) = 1
        BY <2>1 DEF Updates
      <3>2. /\ listener' = [listener EXCEPT !.latest = <<u.state>>]
            /\ restore' = restore /\ updates' = Tail(updates) /\ ~listener.busy
        BY <1>1, <2>3 DEF ListenerTakes
      <3>3. listener' \in ListenerType /\ ~listener'.busy /\ listener'.latest = <<u.state>>
        BY <1>0, <3>1, <3>2 DEF ListenerType
      <3> QED
        BY <1>0, <1>1, <2>1, <3>1, <3>2, <3>3 DEF ListenerTakes, ListenerType, uiVars, TypeOK
    <2> QED
      BY <2>2, <2>3
  <1>2. ASSUME ListenerTurns PROVE TypeOK'
    BY <1>2 DEF ListenerTurns, Idle, coreVars, uiVars, TypeOK
  <1>3. ASSUME ListenerStores PROVE TypeOK'
    <2>1. Head(listener.before) \in Accounts /\ Tail(listener.before) \in Seq(Accounts)
      BY <1>0, <1>3, TailType DEF ListenerStores
    <2>2. /\ listener' \in ListenerType /\ listener'.latest = listener.latest
          /\ listener'.busy => listener'.before # <<>> \/ listener'.latest # <<>>
      BY <1>0, <1>3, <2>1 DEF ListenerStores, ListenerType
    <2> QED
      BY <1>0, <1>3, <2>1, <2>2 DEF ListenerStores, ListenerType, coreVars, uiVars, TypeOK
  <1>4. ASSUME ListenerForwards PROVE TypeOK'
    <2>1. uiq' \in Seq(AppStates)
      BY <1>0, <1>4 DEF ListenerForwards
    <2>2. <<>> \in Seq(AppStates) /\ Len(<<>>) = 0
      OBVIOUS
    <2>3. listener' \in ListenerType /\ listener'.latest = <<>> /\ ~listener'.busy
      BY <1>0, <1>4, <2>2 DEF ListenerForwards, ListenerType
    <2> QED
      BY <1>0, <1>4, <2>1, <2>2, <2>3 DEF ListenerForwards, ListenerType, coreVars, uiVars, TypeOK
  <1> QED
    BY <1>1, <1>2, <1>3, <1>4 DEF Listener

LEMMA WindowTypes ==
    ASSUME TypeOK, WindowDraws
    PROVE  TypeOK'
  <1> DEFINE s == Head(uiq)
  <1>1. s \in AppStates /\ uiq' \in Seq(AppStates) /\ local \in AppStates /\ override \in Routes \cup {"none"}
    BY TailType DEF TypeOK, WindowDraws
  <1>2. CASE WindowAccepts
    <2>1. override # "none" => [s EXCEPT !.route = override] \in AppStates
      BY <1>1 DEF AppStates
    <2>2. local' \in AppStates /\ override' \in {"none", override}
      BY <1>1, <1>2, <2>1 DEF WindowAccepts, Settled
    <2>3. window' = local' /\ pressed' = FALSE /\ boot' = FALSE
      BY <1>2 DEF WindowAccepts
    <2> QED
      BY <1>1, <2>2, <2>3 DEF WindowDraws, coreVars, TypeOK
  <1>3. CASE WindowKeeps
    <2>1. /\ window' \in {window, local} /\ pressed' \in {FALSE, pressed}
          /\ UNCHANGED <<local, override, boot>>
      BY <1>3 DEF WindowKeeps
    <2> QED
      BY <1>1, <2>1 DEF WindowDraws, coreVars, TypeOK
  <1> QED
    BY <1>2, <1>3 DEF WindowDraws

LEMMA RelaunchTypes ==
    ASSUME TypeOK, NEW ok \in BOOLEAN, Relaunch(ok)
    PROVE  TypeOK'
  <1> DEFINE s == OpenState(ok)
  <1>1. s \in AppStates /\ Full(s) \in Updates
    BY EmptyType, FullType
  <1>2. /\ core' = [alive |-> ok, emitted |-> FALSE, state |-> s]
        /\ shared' = s /\ local' = s /\ window' = s
        /\ updates' = IF ok THEN <<>> ELSE <<Full(s)>>
        /\ fg' = IF secrets = NoAccount THEN <<>> ELSE <<Login("bundle", secrets)>>
        /\ restore' = secrets /\ boot' = (secrets # NoAccount)
        /\ listener' = [busy |-> FALSE, before |-> <<>>, latest |-> <<>>] /\ uiq' = <<>>
        /\ override' = "none" /\ pressed' = FALSE
        /\ UNCHANGED <<secrets, panicked, left, kept>>
    BY DEF Relaunch
  <1>3. core' \in CoreType
    BY <1>1, <1>2 DEF CoreType
  <1>4. updates' \in Seq(Updates)
    BY <1>1, <1>2
  <1>5. fg' \in Seq(Actions)
    <2>1. secrets # NoAccount => Login("bundle", secrets) \in Actions
      BY ActionTypes DEF TypeOK, Logins
    <2> QED
      BY <1>2, <2>1
  <1>6. listener' \in ListenerType /\ Len(listener'.latest) <= 1 /\ ~listener'.busy /\ uiq' \in Seq(AppStates)
    BY <1>2 DEF ListenerType
  <1>7. inputs' \in 0..MaxInputs
    BY AccountAssumption DEF Relaunch, Input, TypeOK
  <1> HIDE DEF s
  <1> QED
    BY <1>1, <1>2, <1>3, <1>4, <1>5, <1>6, <1>7 DEF CoreType, ListenerType, TypeOK

LEMMA StepTypes == TypeOK /\ [Next]_vars => TypeOK'
  <1> SUFFICES ASSUME TypeOK, [Next]_vars PROVE TypeOK'
    OBVIOUS
  <1>1. CASE UNCHANGED vars
    BY <1>1 DEF TypeOK, vars, coreVars, uiVars
  <1> QED
    BY <1>1, UserTypes, CoreTypes, ListenerTypes, WindowTypes, RelaunchTypes DEF Next

LEMMA InitTypes == Init => TypeOK
  <1> SUFFICES ASSUME Init PROVE TypeOK
    OBVIOUS
  <1>1. core \in CoreType /\ listener \in ListenerType /\ Len(listener.latest) <= 1 /\ ~listener.busy
    BY EmptyType DEF Init, CoreType, ListenerType
  <1>2. fg \in Seq(Actions) /\ updates \in Seq(Updates) /\ uiq \in Seq(AppStates)
    BY DEF Init
  <1>3. inputs \in 0..MaxInputs
    BY AccountAssumption DEF Init
  <1> QED
    BY <1>1, <1>2, <1>3, EmptyType DEF Init, CoreType, ListenerType, TypeOK

\* Every variable keeps its type; in particular the listener hands over one state
\* of a burst at most and delivers only when it has something to deliver.
THEOREM ShellTypeCorrect == Spec => []TypeOK
  BY InitTypes, StepTypes, PTL DEF Spec

-----------------------------------------------------------------------------
(* A logout is final: nothing that is still queued can log in again.       *)

LoggedOut == left => secrets = NoAccount /\ restore = NoAccount /\ ~LoginOnItsWay

\* What a batch sends after a logout holds no bundle.
NoBundles(us) == \A i \in 1..Len(us) : us[i].who = NoAccount

LEMMA NoBundlesSent ==
    ASSUME NEW us \in Seq(Updates), NEW vs \in Seq(Updates), NoBundles(us), NoBundles(vs)
    PROVE  NoBundles(us \o vs)
  BY DEF NoBundles

LEMMA OneState ==
    ASSUME NEW u \in Updates, u.who = NoAccount
    PROVE  <<u>> \in Seq(Updates) /\ NoBundles(<<u>>)
  <1>1. <<u>> \in Seq(Updates)
    OBVIOUS
  <1>2. \A i \in 1..Len(<<u>>) : <<u>>[i] = u
    OBVIOUS
  <1> QED
    BY <1>1, <1>2 DEF NoBundles

LEMMA NoBundlesBatch ==
    ASSUME TypeOK, NEW s \in AppStates, NEW e \in BOOLEAN, EndBatch(<<>>, s, e), NoBundles(updates)
    PROVE  NoBundles(updates')
  <1> DEFINE t == [s EXCEPT !.rev = @ + 1]
  <1>1. updates \in Seq(Updates)
    BY DEF TypeOK
  <1>2. t \in AppStates
    BY DEF AppStates
  <1>3. Full(t) \in Updates /\ Full(t).who = NoAccount
    BY <1>2, FullType
  <1>4. updates' = updates \/ updates' = Append(updates, Full(t))
    BY <1>1 DEF EndBatch
  <1> HIDE DEF t
  <1> QED
    BY <1>1, <1>3, <1>4 DEF NoBundles

LEMMA NoBundlesRecover ==
    ASSUME TypeOK, NEW sent \in Seq(Updates), Recover(sent), restore = NoAccount,
           NoBundles(updates), NoBundles(sent)
    PROVE  NoBundles(updates')
  <1>1. updates \in Seq(Updates)
    BY DEF TypeOK
  <1>2. <<Full(OpenState(FALSE))>> \in Seq(Updates) /\ NoBundles(<<Full(OpenState(FALSE))>>)
    BY EmptyType, FullType, OneState
  <1>3. updates \o sent \in Seq(Updates) /\ NoBundles(updates \o sent)
    BY <1>1, NoBundlesSent, SentType
  <1>4. NoBundles((updates \o sent) \o <<Full(OpenState(FALSE))>>)
    BY <1>2, <1>3, NoBundlesSent
  <1>5. updates' \in {updates \o sent, (updates \o sent) \o <<Full(OpenState(FALSE))>>}
    BY DEF Recover
  <1> QED
    BY <1>3, <1>4, <1>5

LEMMA NoBundlesYet == LoggedOut /\ left => NoBundles(updates) /\ listener.before = <<>>
  BY DEF LoggedOut, LoginOnItsWay, NoBundles

LEMMA LoggedOutUser ==
    ASSUME TypeOK, LoggedOut, User
    PROVE  LoggedOut'
  <1>0. fg \in Seq(Actions)
    BY DEF TypeOK
  <1>1. ASSUME NEW kind \in {"create", "restore"}, NEW a \in Accounts \cup {Typo},
               UserLogsIn(kind, a)
        PROVE  LoggedOut'
    BY <1>1 DEF UserLogsIn, LoggedOut
  <1>2. ASSUME NEW m \in Actions, m.kind \notin Logins, fg' = Append(fg, m),
               (left' => secrets' = NoAccount /\ restore' = NoAccount /\ ~LoginOnItsWay),
               UNCHANGED <<listener, updates>>
        PROVE  LoggedOut'
    <2>1. \A i \in 1..Len(fg') : fg'[i] = m \/ (i \in 1..Len(fg) /\ fg'[i] = fg[i])
      BY <1>0, <1>2, AppendElements
    <2> QED
      BY <1>2, <2>1 DEF LoggedOut, LoginOnItsWay
  <1>3. Logout \in Actions /\ Logout.kind = "logout" /\ Logout.kind \notin Logins
    BY ActionTypes DEF Logout, Logins
  <1>4. ASSUME UserLogsOut \/ UserDeletes PROVE LoggedOut'
    <2>1. fg' = Append(fg, Logout) /\ restore' = NoAccount
      BY <1>3, <1>4 DEF UserLogsOut, UserDeletes, Dispatch
    <2>2. left' => secrets' = NoAccount /\ ~LoginOnItsWay
      BY <1>4 DEF UserLogsOut, UserDeletes, LoggedOut
    <2> QED
      BY <1>2, <1>3, <1>4, <2>1, <2>2 DEF UserLogsOut, UserDeletes, coreVars
  <1>5. ASSUME NEW r \in Routes, UserNavigates(r) PROVE LoggedOut'
    <2>1. Go(r) \in Actions /\ Go(r).kind = "go" /\ Go(r).kind \notin Logins
      BY ActionTypes DEF Go, Logins
    <2>2. fg' = Append(fg, Go(r)) /\ restore' = restore
      BY <1>5, <2>1 DEF UserNavigates, Dispatch
    <2> QED
      BY <1>2, <1>5, <2>1, <2>2 DEF UserNavigates, coreVars, LoggedOut
  <1> QED
    BY <1>1, <1>4, <1>5 DEF User

LEMMA LoggedOutCore ==
    ASSUME TypeOK, LoggedOut, CoreHandles \/ CoreHears \/ CorePanicsIdle \/ \E k \in 1..Len(fg) : CorePanics(k)
    PROVE  LoggedOut'
  <1> DEFINE m == Head(fg)
  <1>0. /\ core \in CoreType /\ core.state \in AppStates /\ core.emitted \in BOOLEAN
        /\ fg \in Seq(Actions) /\ updates \in Seq(Updates)
    BY DEF TypeOK, CoreType
  <1>1. UNCHANGED <<listener, secrets, restore, left>>
    BY DEF CoreHandles, CoreHears, CorePanicsIdle, CorePanics
  <1>2. ASSUME left PROVE \A i \in 1..Len(fg) : fg[i].kind \notin Logins
    BY <1>2 DEF LoggedOut, LoginOnItsWay
  <1>3. From(fg', fg)
    <2>1. CASE UNCHANGED fg
      BY <2>1 DEF From
    <2>2. CASE \E k \in 1..Len(fg) : CorePanics(k)
      BY <1>0, <2>2, SubSeqElements DEF CorePanics
    <2>3. CASE CoreHandles
      BY <1>0, <2>3, TailElements DEF CoreHandles
    <2> QED
      BY <2>1, <2>2, <2>3 DEF CoreHears, CorePanicsIdle
  <1>4. ASSUME left PROVE NoBundles(updates')
    <2>0. NoBundles(updates) /\ restore = NoAccount /\ NoBundles(<<>>)
      BY <1>4, NoBundlesYet DEF LoggedOut, NoBundles
    <2>1. CASE CoreHandles
      <3>1. m.kind \notin Logins
        <4>1. 1 \in 1..Len(fg) /\ m = fg[1]
          BY <1>0, <2>1 DEF CoreHandles
        <4> QED
          BY <1>2, <1>4, <4>1
      <3>2. m \in Actions /\ m.route \in Routes
        BY <1>0, <2>1, TailType DEF CoreHandles, Actions, Routes
      <3>3. CASE CoreLogsOut
        <4>1. [Empty EXCEPT !.rev = core.state.rev] \in AppStates
          BY <1>0, EmptyType DEF AppStates
        <4> QED
          BY <2>0, <3>3, <4>1, NoBundlesBatch DEF CoreLogsOut
      <3>4. CASE CoreGoes(m.route)
        <4> DEFINE s == [core.state EXCEPT !.toast = FALSE]
        <4>1. [s EXCEPT !.route = m.route] \in AppStates /\ [s EXCEPT !.toast = TRUE] \in AppStates
          BY <1>0, <3>2 DEF AppStates
        <4>2. \/ EndBatch(<<>>, [s EXCEPT !.route = m.route], core.emitted)
              \/ updates' = updates
              \/ EndBatch(<<>>, [s EXCEPT !.toast = TRUE], core.emitted)
          BY <3>4 DEF CoreGoes
        <4> HIDE DEF s
        <4> QED
          BY <1>0, <2>0, <4>1, <4>2, NoBundlesBatch
      <3> QED
        BY <2>1, <3>1, <3>3, <3>4 DEF CoreHandles
    <2>2. CASE CoreHears
      <3>1. [core.state EXCEPT !.news = ~@] \in AppStates
        BY <1>0 DEF AppStates
      <3> QED
        BY <1>0, <2>0, <2>2, <3>1, NoBundlesBatch DEF CoreHears
    <2>3. CASE CorePanicsIdle
      BY <2>0, <2>3, NoUpdates, NoBundlesRecover DEF CorePanicsIdle
    <2>4. ASSUME NEW k \in 1..Len(fg), CorePanics(k) PROVE NoBundles(updates')
      <3>1. 1 \in 1..Len(fg) /\ m = fg[1]
        BY <1>0, <2>4
      <3>2. Recover(<<>>)
        BY <1>2, <1>4, <2>4, <3>1 DEF CorePanics
      <3> QED
        BY <2>0, <3>2, NoUpdates, NoBundlesRecover
    <2> QED
      BY <2>1, <2>2, <2>3, <2>4
  <1> QED
    BY <1>1, <1>2, <1>3, <1>4 DEF LoggedOut, LoginOnItsWay, NoBundles, From

LEMMA LoggedOutRest ==
    ASSUME TypeOK, LoggedOut, Listener \/ WindowDraws \/ \E ok \in BOOLEAN : Relaunch(ok)
    PROVE  LoggedOut'
  <1>0. updates \in Seq(Updates)
    BY DEF TypeOK
  <1>1. CASE ListenerTakes
    <2>1. /\ \A i \in 1..Len(updates') : i + 1 \in 1..Len(updates) /\ updates'[i] = updates[i + 1]
          /\ 1 \in 1..Len(updates) /\ Head(updates) = updates[1]
      BY <1>0, <1>1 DEF ListenerTakes
    <2>2. ASSUME left PROVE Head(updates).who = NoAccount
      BY <2>1, <2>2, NoBundlesYet DEF NoBundles
    <2>3. ASSUME left PROVE listener'.before = listener.before /\ restore' = restore
      BY <1>1, <2>2, <2>3 DEF ListenerTakes, TypeOK
    <2> QED
      BY <1>1, <2>1, <2>3 DEF ListenerTakes, LoggedOut, LoginOnItsWay
  <1>2. CASE ListenerTurns
    BY <1>2 DEF ListenerTurns, LoggedOut, LoginOnItsWay, coreVars, TypeOK
  <1>3. CASE ListenerStores
    BY <1>3 DEF ListenerStores, LoggedOut, LoginOnItsWay, coreVars
  <1>4. CASE ListenerForwards
    BY <1>4 DEF ListenerForwards, LoggedOut, LoginOnItsWay, coreVars, TypeOK
  <1>5. CASE WindowDraws
    BY <1>5 DEF WindowDraws, LoggedOut, LoginOnItsWay, coreVars
  <1>6. ASSUME NEW ok \in BOOLEAN, Relaunch(ok) PROVE LoggedOut'
    <2>1. Full(OpenState(ok)).who = NoAccount
      BY EmptyType, FullType
    <2>2. updates' = <<>> \/ updates' = <<Full(OpenState(ok))>>
      BY <1>6 DEF Relaunch
    <2>3. \A i \in 1..Len(updates') : updates'[i].who = NoAccount
      BY <2>1, <2>2
    <2>4. left' => secrets' = NoAccount /\ restore' = NoAccount /\ fg' = <<>>
      BY <1>6 DEF Relaunch, LoggedOut
    <2>5. listener'.before = <<>>
      BY <1>6 DEF Relaunch
    <2> QED
      BY <2>3, <2>4, <2>5 DEF LoggedOut, LoginOnItsWay
  <1> QED
    BY <1>1, <1>2, <1>3, <1>4, <1>5, <1>6 DEF Listener

\* After a logout with no login on its way nothing brings the account back: no
\* queue holds a login or a bundle, neither the store nor the supervisor a key.
THEOREM LogoutIsFinal == Spec => []LoggedOutStaysOut
  <1>1. Init => LoggedOut
    BY DEF Init, LoggedOut
  <1>2. TypeOK /\ LoggedOut /\ [Next]_vars => LoggedOut'
    <2> SUFFICES ASSUME TypeOK, LoggedOut, [Next]_vars PROVE LoggedOut'
      OBVIOUS
    <2>1. CASE UNCHANGED vars
      BY <2>1 DEF LoggedOut, LoginOnItsWay, vars, coreVars, uiVars
    <2> QED
      BY <2>1, LoggedOutUser, LoggedOutCore, LoggedOutRest DEF Next
  <1>3. LoggedOut => LoggedOutStaysOut
    BY DEF LoggedOut, LoggedOutStaysOut
  <1> QED
    BY <1>1, <1>2, <1>3, ShellTypeCorrect, PTL DEF Spec

-----------------------------------------------------------------------------
(* What the window shows is stored.                                        *)

\* The accounts that the bundles of a queue name, and that the listener holds.
Named(us) == {us[i].who : i \in 1..Len(us)}
Held == {listener.before[i] : i \in 1..Len(listener.before)}

\* A state in the queue shows an account of S, or one whose bundle is before it.
Founded(us, S) ==
    \A j \in 1..Len(us) :
        us[j].state.account \in S \/ \E i \in 1..Len(us) : i < j /\ us[i].who = us[j].state.account

Known == kept \cup {NoAccount} \cup Held

Saved ==
    /\ window.account \in kept \cup {NoAccount}
    /\ local.account \in kept \cup {NoAccount}
    /\ \A i \in 1..Len(uiq) : uiq[i].account \in kept \cup {NoAccount}
    /\ \A i \in 1..Len(listener.latest) : listener.latest[i].account \in Known
    /\ Founded(updates, Known)
    /\ core.state.account \in Known \cup Named(updates)

LEMMA FoundedAppend ==
    ASSUME NEW us \in Seq(Updates), NEW S, Founded(us, S), NEW u \in Updates,
           u.state.account \in S \cup Named(us)
    PROVE  Founded(Append(us, u), S) /\ Named(Append(us, u)) = Named(us) \cup {u.who}
  <1> DEFINE n == Len(us)
             vs == Append(us, u)
  <1>1. n \in Nat
    BY LenProperties
  <1>2. Len(vs) = n + 1 /\ vs[n + 1] = u /\ \A i \in 1..n : vs[i] = us[i]
    BY AppendProperties
  <1>3. \A i \in 1..n + 1 : i \in 1..n \/ i = n + 1
    BY <1>1
  <1>4. 1..n \subseteq 1..n + 1 /\ n + 1 \in 1..n + 1 /\ \A i \in 1..n : i < n + 1
    BY <1>1
  <1> HIDE DEF n, vs
  <1>5. Named(us) = {us[i].who : i \in 1..n} /\ Named(vs) = {vs[i].who : i \in 1..n + 1}
    BY <1>2 DEF Named, n
  <1>6. Named(vs) = Named(us) \cup {u.who}
    BY <1>2, <1>3, <1>4, <1>5
  <1>7. ASSUME NEW j \in 1..n
        PROVE  vs[j].state.account \in S \/ \E i \in 1..n + 1 : i < j /\ vs[i].who = vs[j].state.account
    BY <1>2, <1>4, <1>7 DEF Founded, n
  <1>8. u.state.account \in S \/ \E i \in 1..n + 1 : i < n + 1 /\ vs[i].who = u.state.account
    BY <1>2, <1>4, <1>5
  <1>9. Founded(vs, S)
    BY <1>2, <1>3, <1>7, <1>8 DEF Founded
  <1> QED
    BY <1>6, <1>9 DEF vs

LEMMA FoundedTail ==
    ASSUME NEW us \in Seq(Updates), us # <<>>, NEW S, Founded(us, S)
    PROVE  /\ Founded(Tail(us), S \cup {Head(us).who})
           /\ Head(us).state.account \in S
           /\ Named(us) = {Head(us).who} \cup Named(Tail(us))
  <1> DEFINE n == Len(us)
             vs == Tail(us)
  <1>1. n \in Nat /\ n >= 1 /\ Head(us) = us[1]
    BY EmptySeq, LenProperties
  <1>2. Len(vs) = n - 1 /\ \A i \in 1..n - 1 : vs[i] = us[i + 1]
    BY HeadTailProperties
  <1>3. \A i \in 1..n : i = 1 \/ (i - 1 \in 1..n - 1 /\ i = (i - 1) + 1)
    BY <1>1
  <1>4. 1 \in 1..n /\ \A i \in 1..n - 1 : i + 1 \in 1..n
    BY <1>1
  <1> HIDE DEF n, vs
  <1>5. Named(us) = {us[i].who : i \in 1..n} /\ Named(vs) = {vs[i].who : i \in 1..n - 1}
    BY <1>2 DEF Named, n
  <1>6. Named(us) = {us[1].who} \cup Named(vs)
    <2>1. \A i \in 1..n : us[i].who \in {us[1].who} \cup Named(vs)
      BY <1>2, <1>3, <1>5
    <2>2. \A i \in 1..n - 1 : vs[i].who \in Named(us)
      BY <1>2, <1>4, <1>5
    <2>3. us[1].who \in Named(us)
      BY <1>4, <1>5
    <2> QED
      BY <1>5, <2>1, <2>2, <2>3
  <1>7. ASSUME NEW j \in 1..n - 1
        PROVE  vs[j].state.account \in S \cup {us[1].who}
               \/ \E i \in 1..n - 1 : i < j /\ vs[i].who = vs[j].state.account
    <2>1. j + 1 \in 1..n /\ vs[j] = us[j + 1]
      BY <1>2, <1>4
    <2>2. CASE us[j + 1].state.account \in S
      BY <2>1, <2>2
    <2>3. ASSUME NEW i \in 1..n, i < j + 1, us[i].who = us[j + 1].state.account PROVE <1>7!2
      <3>1. CASE i = 1
        BY <2>1, <2>3, <3>1
      <3>2. CASE i # 1
        <4>1. i - 1 \in 1..n - 1 /\ i - 1 < j /\ vs[i - 1] = us[i]
          BY <1>1, <1>2, <2>3, <3>2
        <4> QED
          BY <2>1, <2>3, <4>1
      <3> QED
        BY <3>1, <3>2
    <2> QED
      BY <2>1, <2>2, <2>3 DEF Founded, n
  <1>8. Founded(vs, S \cup {us[1].who})
    BY <1>2, <1>7 DEF Founded
  <1>9. us[1].state.account \in S
    <2>1. \A i \in 1..n : ~(i < 1)
      BY <1>1
    <2> QED
      BY <1>4, <2>1 DEF Founded, n
  <1> QED
    BY <1>1, <1>6, <1>8, <1>9 DEF vs

LEMMA FoundedMore ==
    ASSUME NEW us, NEW S, NEW T, Founded(us, S), S \subseteq T
    PROVE  Founded(us, T)
  BY DEF Founded

LEMMA FoundedState ==
    ASSUME NEW us \in Seq(Updates), NEW S, NoAccount \in S, Founded(us, S), NEW s \in AppStates,
           s.account \in S \cup Named(us)
    PROVE  /\ Append(us, Full(s)) \in Seq(Updates)
           /\ Founded(Append(us, Full(s)), S)
           /\ Named(us) \subseteq Named(Append(us, Full(s)))
  <1>1. Full(s) \in Updates /\ Full(s).state = s
    BY FullType DEF Full
  <1> QED
    BY <1>1, FoundedAppend, AppendProperties

LEMMA FoundedBundle ==
    ASSUME NEW us \in Seq(Updates), NEW S, NoAccount \in S, Founded(us, S), NEW a \in Accounts
    PROVE  /\ us \o <<Bundle(a)>> \in Seq(Updates)
           /\ Founded(us \o <<Bundle(a)>>, S)
           /\ Named(us \o <<Bundle(a)>>) = Named(us) \cup {a}
  <1>1. Bundle(a) \in Updates /\ Bundle(a).who = a /\ Bundle(a).state.account = NoAccount
    BY BundleType DEF Bundle, Empty
  <1>2. us \o <<Bundle(a)>> = Append(us, Bundle(a))
    BY <1>1, AppendIsConcat
  <1>3. Append(us, Bundle(a)) \in Seq(Updates)
    BY <1>1, AppendProperties
  <1> QED
    BY <1>1, <1>2, <1>3, FoundedAppend

\* What a batch sends is founded, when its state is.
LEMMA FoundedBatch ==
    ASSUME TypeOK, Saved, NEW B \in SUBSET Accounts, NEW bundles,
           \/ B = {} /\ bundles = <<>>
           \/ \E a \in Accounts : B = {a} /\ bundles = <<Bundle(a)>>,
           NEW s \in AppStates, NEW e \in BOOLEAN, EndBatch(bundles, s, e),
           s.account \in Known \cup Named(updates) \cup B
    PROVE  Founded(updates', Known) /\ core'.state.account \in Known \cup Named(updates')
  <1> DEFINE us == updates \o bundles
             t == [s EXCEPT !.rev = @ + 1]
  <1>1. updates \in Seq(Updates) /\ core \in CoreType /\ NoAccount \in Known
    BY DEF TypeOK, CoreType, Known
  <1>2. us \in Seq(Updates) /\ Founded(us, Known) /\ Named(us) = Named(updates) \cup B
    <2>1. CASE B = {} /\ bundles = <<>>
      BY <1>1, <2>1, ConcatEmptySeq DEF Saved
    <2>2. ASSUME NEW a \in Accounts, B = {a}, bundles = <<Bundle(a)>> PROVE <1>2
      BY <1>1, <2>2, FoundedBundle DEF Saved
    <2> QED
      BY <2>1, <2>2
  <1>3. t \in AppStates /\ t.account = s.account
    BY DEF AppStates
  <1>4. CASE core' = [core EXCEPT !.state = s] /\ updates' = us
    BY <1>1, <1>2, <1>4 DEF CoreType
  <1>5. CASE core' = [core EXCEPT !.state = t, !.emitted = TRUE] /\ updates' = Append(us, Full(t))
    <2>1. core'.state.account = s.account
      BY <1>1, <1>3, <1>5 DEF CoreType
    <2> HIDE DEF us, t
    <2> QED
      BY <1>1, <1>2, <1>3, <1>5, <2>1, FoundedState
  <1> QED
    BY <1>4, <1>5 DEF EndBatch

LEMMA FoundedRecover ==
    ASSUME TypeOK, Saved, NEW sent,
           \/ sent = <<>>
           \/ \E a \in Accounts : sent = <<Bundle(a)>>,
           Recover(sent)
    PROVE  Founded(updates', Known) /\ core'.state.account \in Known \cup Named(updates')
  <1> DEFINE us == updates \o sent
  <1>1. updates \in Seq(Updates) /\ NoAccount \in Known /\ restore \in Accounts \cup {NoAccount, Typo}
    BY DEF TypeOK, Known
  <1>2. us \in Seq(Updates) /\ Founded(us, Known)
    BY <1>1, ConcatEmptySeq, FoundedBundle DEF Saved
  <1>3. /\ Empty \in AppStates /\ Empty.account = NoAccount
        /\ OpenState(FALSE) \in AppStates /\ OpenState(FALSE).account = NoAccount
    BY EmptyType DEF Empty, OpenState
  <1>4. ASSUME NEW vs \in Seq(Updates), Founded(vs, Known), NEW s \in AppStates,
               s.account \in Known \cup Named(vs), core'.state = s, updates' = vs \o <<Full(s)>>
        PROVE  Founded(updates', Known) /\ core'.state.account \in Known \cup Named(updates')
    <2>1. updates' = Append(vs, Full(s))
      BY <1>4, FullType, AppendIsConcat
    <2> QED
      BY <1>1, <1>4, <2>1, FoundedState
  <1>5. CASE core'.state = Empty /\ updates' = us
    BY <1>1, <1>2, <1>3, <1>5
  <1>6. CASE core'.state = OpenState(FALSE) /\ updates' = us \o <<Full(OpenState(FALSE))>>
    BY <1>1, <1>2, <1>3, <1>4, <1>6
  <1>7. CASE /\ restore # NoAccount
             /\ \E ok \in BOOLEAN :
                  LET s == IF ok THEN [Empty EXCEPT !.rev = 1, !.account = restore]
                           ELSE [Empty EXCEPT !.rev = 1, !.toast = TRUE]
                  IN  /\ ok => restore # Typo
                      /\ core' = [alive |-> TRUE, emitted |-> TRUE, state |-> s]
                      /\ updates' = updates \o sent \o (IF ok THEN <<Bundle(restore)>> ELSE <<>>)
                                            \o <<Full(s)>>
    <2>1. PICK ok \in BOOLEAN :
                  LET s == IF ok THEN [Empty EXCEPT !.rev = 1, !.account = restore]
                           ELSE [Empty EXCEPT !.rev = 1, !.toast = TRUE]
                  IN  /\ ok => restore # Typo
                      /\ core' = [alive |-> TRUE, emitted |-> TRUE, state |-> s]
                      /\ updates' = updates \o sent \o (IF ok THEN <<Bundle(restore)>> ELSE <<>>)
                                            \o <<Full(s)>>
      BY <1>7
    <2> DEFINE s == IF ok THEN [Empty EXCEPT !.rev = 1, !.account = restore]
                    ELSE [Empty EXCEPT !.rev = 1, !.toast = TRUE]
               vs == us \o (IF ok THEN <<Bundle(restore)>> ELSE <<>>)
    <2>2. core'.state = s /\ updates' = vs \o <<Full(s)>>
      BY <2>1
    <2>3. ok => restore \in Accounts
      BY <1>1, <1>7, <2>1
    <2>4. s \in AppStates /\ s.account = IF ok THEN restore ELSE NoAccount
      BY <1>3, <2>3 DEF AppStates
    <2> HIDE DEF us
    <2>5. vs \in Seq(Updates) /\ Founded(vs, Known) /\ (ok => restore \in Named(vs))
      <3>1. CASE ok
        BY <1>1, <1>2, <2>3, <3>1, FoundedBundle
      <3>2. CASE ~ok
        BY <1>2, <3>2, ConcatEmptySeq
      <3> QED
        BY <3>1, <3>2
    <2> HIDE DEF s, vs
    <2> QED
      BY <1>1, <1>4, <2>2, <2>4, <2>5
  <1>8. \/ core' = [alive |-> TRUE, emitted |-> FALSE, state |-> Empty] /\ updates' = us
        \/ core' = [alive |-> FALSE, emitted |-> FALSE, state |-> Empty] /\ updates' = us
        \/ /\ core' = [alive |-> FALSE, emitted |-> FALSE, state |-> OpenState(FALSE)]
           /\ updates' = us \o <<Full(OpenState(FALSE))>>
        \/ /\ restore # NoAccount
           /\ \E ok \in BOOLEAN :
                  LET s == IF ok THEN [Empty EXCEPT !.rev = 1, !.account = restore]
                           ELSE [Empty EXCEPT !.rev = 1, !.toast = TRUE]
                  IN  /\ ok => restore # Typo
                      /\ core' = [alive |-> TRUE, emitted |-> TRUE, state |-> s]
                      /\ updates' = updates \o sent \o (IF ok THEN <<Bundle(restore)>> ELSE <<>>)
                                            \o <<Full(s)>>
    BY Zenon DEF Recover
  <1>9. ASSUME NEW b \in BOOLEAN, NEW s, core' = [alive |-> b, emitted |-> FALSE, state |-> s]
        PROVE  core'.state = s
    BY <1>9
  <1> QED
    BY <1>5, <1>6, <1>7, <1>8, <1>9

LEMMA SavedCore ==
    ASSUME TypeOK, Saved, CoreHandles \/ CoreHears \/ CorePanicsIdle \/ \E k \in 1..Len(fg) : CorePanics(k)
    PROVE  Saved'
  <1> DEFINE m == Head(fg)
             Goal == Founded(updates', Known) /\ core'.state.account \in Known \cup Named(updates')
  <1>0. /\ core \in CoreType /\ core.state \in AppStates /\ core.emitted \in BOOLEAN
        /\ fg \in Seq(Actions) /\ updates \in Seq(Updates)
    BY DEF TypeOK, CoreType
  <1>1. UNCHANGED <<listener, kept, window, local, uiq>>
    BY DEF CoreHandles, CoreHears, CorePanicsIdle, CorePanics, uiVars
  <1>2. NoAccount \in Known /\ core.state.account \in Known \cup Named(updates)
    BY DEF Saved, Known
  <1>3. ASSUME NEW s \in AppStates, s.account \in Known \cup Named(updates), NEW e \in BOOLEAN,
               EndBatch(<<>>, s, e)
        PROVE  Goal
    BY <1>3, FoundedBatch
  <1>4. ASSUME CoreLogsIn(m), m \in Actions, m.kind \in Logins PROVE Goal
    <2>1. CASE EndBatch(<<>>, [core.state EXCEPT !.toast = TRUE], core.emitted)
      <3>1. [core.state EXCEPT !.toast = TRUE] \in AppStates
            /\ [core.state EXCEPT !.toast = TRUE].account = core.state.account
        BY <1>0 DEF AppStates
      <3> QED
        BY <1>0, <1>2, <1>3, <2>1, <3>1
    <2>2. CASE m.who # Typo /\ EndBatch(<<Bundle(m.who)>>, Started(core.state, m.who), core.emitted)
      <3>1. m.who \in Accounts
        BY <1>4, <2>2 DEF Actions, Logins
      <3>2. Started(core.state, m.who) \in AppStates /\ Started(core.state, m.who).account = m.who
        BY <1>0, <3>1 DEF Started, AppStates, Routes
      <3> QED
        BY <1>0, <2>2, <3>1, <3>2, FoundedBatch
    <2>3. CASE EndBatch(<<>>, Failed(core.state), core.emitted)
      <3>1. Failed(core.state) \in AppStates /\ Failed(core.state).account = NoAccount
        BY <1>0 DEF Failed, AppStates, Routes
      <3> QED
        BY <1>0, <1>2, <1>3, <2>3, <3>1
    <2> QED
      BY <1>4, <2>1, <2>2, <2>3 DEF CoreLogsIn
  <1>5. ASSUME CoreLogsOut PROVE Goal
    <2>1. [Empty EXCEPT !.rev = core.state.rev] \in AppStates
          /\ [Empty EXCEPT !.rev = core.state.rev].account = NoAccount
      BY <1>0, EmptyType DEF AppStates, Empty
    <2> QED
      BY <1>2, <1>3, <1>5, <2>1 DEF CoreLogsOut
  <1>6. ASSUME CoreGoes(m.route), m.route \in Routes PROVE Goal
    <2> DEFINE s == [core.state EXCEPT !.toast = FALSE]
    <2>1. /\ s \in AppStates /\ s.account = core.state.account
          /\ [s EXCEPT !.route = m.route] \in AppStates
          /\ [s EXCEPT !.route = m.route].account = core.state.account
          /\ [s EXCEPT !.toast = TRUE] \in AppStates
          /\ [s EXCEPT !.toast = TRUE].account = core.state.account
      BY <1>0, <1>6 DEF AppStates
    <2>2. \/ EndBatch(<<>>, [s EXCEPT !.route = m.route], core.emitted)
          \/ core' = [core EXCEPT !.state = s] /\ updates' = updates
          \/ EndBatch(<<>>, [s EXCEPT !.toast = TRUE], core.emitted)
      BY <1>6 DEF CoreGoes
    <2>3. CASE core' = [core EXCEPT !.state = s] /\ updates' = updates
      <3>1. core'.state.account = core.state.account
        BY <1>0, <2>1, <2>3 DEF CoreType
      <3> QED
        BY <1>2, <2>3, <3>1 DEF Saved
    <2> HIDE DEF s
    <2> QED
      BY <1>0, <1>2, <1>3, <2>1, <2>2, <2>3
  <1>7. ASSUME CoreHandles PROVE Goal
    <2>1. m \in Actions /\ m.route \in Routes
      BY <1>0, <1>7, TailType DEF CoreHandles, Actions, Routes
    <2> QED
      BY <1>4, <1>5, <1>6, <1>7, <2>1 DEF CoreHandles
  <1>8. ASSUME CoreHears PROVE Goal
    <2>1. [core.state EXCEPT !.news = ~@] \in AppStates
          /\ [core.state EXCEPT !.news = ~@].account = core.state.account
      BY <1>0 DEF AppStates
    <2> QED
      BY <1>0, <1>2, <1>3, <1>8, <2>1 DEF CoreHears
  <1>9. ASSUME CorePanicsIdle PROVE Goal
    BY <1>9, FoundedRecover DEF CorePanicsIdle
  <1>10. ASSUME NEW k \in 1..Len(fg), CorePanics(k) PROVE Goal
    <2>1. m \in Actions
      BY <1>0, <1>10, TailType DEF CorePanics
    <2>2. m.kind \in Logins /\ m.who # Typo => m.who \in Accounts
      BY <2>1 DEF Actions, Logins
    <2>3. \E sent : /\ Recover(sent)
                    /\ sent = <<>> \/ \E a \in Accounts : sent = <<Bundle(a)>>
      BY <1>10, <2>2 DEF CorePanics
    <2> QED
      BY <2>3, FoundedRecover
  <1>11. Goal
    BY <1>7, <1>8, <1>9, <1>10
  <1> QED
    BY <1>1, <1>11 DEF Saved, Known, Held, Founded, Named

LEMMA SavedListener ==
    ASSUME TypeOK, Saved, Listener
    PROVE  Saved'
  <1>0. /\ updates \in Seq(Updates) /\ listener \in ListenerType
        /\ listener.before \in Seq(Accounts) /\ listener.latest \in Seq(AppStates)
        /\ uiq \in Seq(AppStates)
    BY DEF TypeOK, ListenerType
  <1>1. ASSUME ListenerTakes PROVE Saved'
    <2> DEFINE u == Head(updates)
    <2>1. /\ Founded(Tail(updates), Known \cup {u.who}) /\ u.state.account \in Known
          /\ Named(updates) = {u.who} \cup Named(Tail(updates)) /\ u \in Updates
      BY <1>0, <1>1, FoundedTail, TailType DEF ListenerTakes, Saved
    <2>2. UNCHANGED <<core, kept, window, local, uiq>> /\ updates' = Tail(updates)
      BY <1>1 DEF ListenerTakes, uiVars
    <2>3. ASSUME u.who # NoAccount PROVE Known' = Known \cup {u.who} /\ listener'.latest = listener.latest
      <3> DEFINE q == listener.before
                 r == Append(q, u.who)
                 n == Len(q)
      <3>1. u.who \in Accounts
        BY <2>1, <2>3 DEF Updates
      <3>2. listener' = [listener EXCEPT !.before = r]
        BY <1>1, <2>3 DEF ListenerTakes
      <3>3. listener'.before = r /\ listener'.latest = listener.latest
        BY <1>0, <3>2 DEF ListenerType
      <3>4. n \in Nat /\ Len(r) = n + 1 /\ r[n + 1] = u.who /\ \A i \in 1..n : r[i] = q[i]
        BY <1>0, <3>1, AppendProperties, LenProperties
      <3>5. (\A i \in 1..n + 1 : i \in 1..n \/ i = n + 1) /\ n + 1 \in 1..n + 1 /\ 1..n \subseteq 1..n + 1
        BY <3>4
      <3> HIDE DEF q, r, n
      <3>6. {r[i] : i \in 1..n + 1} = {q[i] : i \in 1..n} \cup {u.who}
        BY <3>4, <3>5
      <3>7. Held' = Held \cup {u.who}
        BY <3>3, <3>4, <3>6 DEF Held, q, n
      <3> QED
        BY <2>2, <3>3, <3>7 DEF Known
    <2>4. ASSUME u.who = NoAccount
          PROVE  Known' = Known /\ \A i \in 1..Len(listener'.latest) : listener'.latest[i] = u.state
      <3>1. listener'.before = listener.before /\ listener'.latest = <<u.state>>
        BY <1>0, <1>1, <2>4 DEF ListenerTakes, ListenerType
      <3>2. \A i \in 1..Len(<<u.state>>) : <<u.state>>[i] = u.state
        OBVIOUS
      <3> QED
        BY <2>2, <3>1, <3>2 DEF Known, Held
    <2>5. Known' = Known \cup {u.who} /\ \A i \in 1..Len(listener'.latest) : listener'.latest[i].account \in Known'
      BY <2>1, <2>3, <2>4 DEF Saved, Known
    <2>6. Founded(updates', Known')
      BY <2>1, <2>2, <2>5
    <2>7. core'.state.account \in Known' \cup Named(updates')
      BY <2>1, <2>2, <2>5 DEF Saved
    <2> HIDE DEF u
    <2> QED
      BY <2>2, <2>5, <2>6, <2>7 DEF Saved, Founded, Named, Known
  <1>2. ASSUME ListenerTurns PROVE Saved'
    <2>1. listener'.before = listener.before /\ listener'.latest = listener.latest
      BY <1>0, <1>2 DEF ListenerTurns, ListenerType
    <2> QED
      BY <1>2, <2>1 DEF ListenerTurns, coreVars, uiVars, Saved, Known, Held, Founded, Named
  <1>3. ASSUME ListenerStores PROVE Saved'
    <2> DEFINE q == listener.before
               n == Len(q)
    <2>1. /\ listener'.before = Tail(q) /\ listener'.latest = listener.latest
          /\ kept' = kept \cup {Head(q)} /\ q # <<>>
      BY <1>0, <1>3 DEF ListenerStores, ListenerType
    <2>2. n \in Nat /\ n >= 1 /\ Head(q) = q[1] /\ Len(Tail(q)) = n - 1
          /\ \A i \in 1..n - 1 : Tail(q)[i] = q[i + 1]
      BY <1>0, <2>1, EmptySeq, LenProperties, HeadTailProperties
    <2>3. \A i \in 1..n : i = 1 \/ (i - 1 \in 1..n - 1 /\ i = (i - 1) + 1)
      BY <2>2
    <2>4. 1 \in 1..n /\ \A i \in 1..n - 1 : i + 1 \in 1..n
      BY <2>2
    <2>5. Known' = Known
      <3>1. Held = {q[i] : i \in 1..n} /\ Held' = {Tail(q)[i] : i \in 1..n - 1}
        BY <2>1, <2>2 DEF Held
      <3> HIDE DEF q, n
      <3>2. \A i \in 1..n : q[i] \in {Head(q)} \cup Held'
        BY <2>2, <2>3, <3>1
      <3>3. \A i \in 1..n - 1 : Tail(q)[i] \in Held
        BY <2>2, <2>4, <3>1
      <3>4. Held = {Head(q)} \cup Held'
        BY <2>2, <2>4, <3>1, <3>2, <3>3
      <3> QED
        BY <2>1, <3>4 DEF Known
    <2>6. UNCHANGED <<core, updates, window, local, uiq>> /\ kept \subseteq kept'
      BY <1>3, <2>1 DEF ListenerStores, coreVars, uiVars
    <2> HIDE DEF q, n
    <2> QED
      BY <2>1, <2>5, <2>6 DEF Saved, Founded, Named
  <1>4. ASSUME ListenerForwards PROVE Saved'
    <2> DEFINE q == uiq
               l == listener.latest
    <2>1. /\ listener.before = <<>> /\ listener'.before = <<>> /\ listener'.latest = <<>>
          /\ uiq' = q \o l /\ UNCHANGED <<core, updates, window, local, kept>>
      BY <1>0, <1>4 DEF ListenerForwards, ListenerType, coreVars, uiVars
    <2>2. Held = {} /\ Held' = {}
      BY <2>1 DEF Held
    <2>3. Len(q) \in Nat /\ Len(l) \in Nat /\ Len(q \o l) = Len(q) + Len(l)
          /\ \A i \in 1..Len(q) + Len(l) : (q \o l)[i] = IF i <= Len(q) THEN q[i] ELSE l[i - Len(q)]
      BY <1>0, ConcatProperties, LenProperties
    <2>4. \A i \in 1..Len(q) + Len(l) : i \in 1..Len(q) \/ (~(i <= Len(q)) /\ i - Len(q) \in 1..Len(l))
      BY <2>3
    <2>5. \A i \in 1..Len(l) : l[i].account \in kept \cup {NoAccount}
      BY <2>2 DEF Saved, Known
    <2>6. \A i \in 1..Len(uiq') : uiq'[i].account \in kept \cup {NoAccount}
      <3>1. \A i \in 1..Len(q) : q[i].account \in kept \cup {NoAccount} /\ i <= Len(q)
        BY <2>3 DEF Saved
      <3> HIDE DEF q, l
      <3> QED
        BY <2>1, <2>3, <2>4, <2>5, <3>1
    <2>7. \A i \in 1..Len(listener'.latest) : listener'.latest[i].account \in Known'
      BY <2>1
    <2> QED
      BY <2>1, <2>2, <2>6, <2>7 DEF Saved, Known, Founded, Named
  <1> QED
    BY <1>1, <1>2, <1>3, <1>4 DEF Listener

LEMMA SavedUser ==
    ASSUME TypeOK, Saved, User
    PROVE  Saved'
  <1>1. UNCHANGED <<core, updates, listener, window, kept>>
    BY DEF User, UserLogsIn, UserLogsOut, UserDeletes, UserNavigates, coreVars
  <1>2. Known' = Known
    BY <1>1 DEF Known, Held
  <1>3. CASE UNCHANGED <<local, uiq>>
    BY <1>1, <1>2, <1>3 DEF Saved, Founded, Named
  <1>4. ASSUME NEW r \in Routes, UserNavigates(r) PROVE Saved'
    <2> DEFINE s == [local EXCEPT !.route = r]
    <2>1. s \in AppStates /\ s.account = local.account /\ uiq \in Seq(AppStates)
      BY DEF TypeOK, AppStates
    <2>2. local' = s /\ uiq' = Append(uiq, s)
      BY <1>4 DEF UserNavigates
    <2> HIDE DEF s
    <2>3. \A i \in 1..Len(uiq') : uiq'[i] = s \/ (i \in 1..Len(uiq) /\ uiq'[i] = uiq[i])
      BY <2>1, <2>2, AppendElements
    <2> QED
      BY <1>1, <1>2, <2>1, <2>2, <2>3 DEF Saved, Founded, Named
  <1> QED
    BY <1>3, <1>4 DEF User, UserLogsIn, UserLogsOut, UserDeletes

LEMMA SavedWindow ==
    ASSUME TypeOK, Saved, WindowDraws
    PROVE  Saved'
  <1> DEFINE s == Head(uiq)
  <1>1. s \in AppStates /\ uiq \in Seq(AppStates) /\ uiq # <<>> /\ uiq' = Tail(uiq)
    BY TailType DEF TypeOK, WindowDraws
  <1>2. s.account \in kept \cup {NoAccount}
        /\ \A i \in 1..Len(uiq') : uiq'[i].account \in kept \cup {NoAccount}
    <2>1. 1 \in 1..Len(uiq) /\ s = uiq[1]
      BY <1>1, EmptySeq
    <2>2. From(uiq', uiq)
      BY <1>1, TailElements
    <2> HIDE DEF s
    <2> QED
      BY <2>1, <2>2 DEF Saved, From
  <1>3. UNCHANGED <<core, updates, listener, kept>>
    BY DEF WindowDraws, coreVars
  <1>4. local'.account \in {s.account, local.account} /\ window'.account \in {window.account, local'.account}
    <2>1. CASE WindowAccepts
      <3>1. local' = s \/ local' = [s EXCEPT !.route = override]
        BY <2>1 DEF WindowAccepts
      <3>2. local'.account = s.account
        BY <1>1, <3>1 DEF AppStates
      <3> QED
        BY <2>1, <3>2 DEF WindowAccepts
    <2>2. CASE WindowKeeps
      BY <2>2 DEF WindowKeeps
    <2> QED
      BY <2>1, <2>2 DEF WindowDraws
  <1>5. Known' = Known
    BY <1>3 DEF Known, Held
  <1> HIDE DEF s
  <1> QED
    BY <1>2, <1>3, <1>4, <1>5 DEF Saved, Founded, Named

LEMMA SavedRelaunch ==
    ASSUME TypeOK, Saved, NEW ok \in BOOLEAN, Relaunch(ok)
    PROVE  Saved'
  <1> DEFINE s == OpenState(ok)
  <1>1. s \in AppStates /\ s.account = NoAccount
    BY EmptyType DEF OpenState, Empty
  <1>2. /\ core'.state = s /\ local' = s /\ window' = s /\ uiq' = <<>> /\ listener'.latest = <<>>
        /\ updates' = IF ok THEN <<>> ELSE <<Full(s)>>
    BY DEF Relaunch
  <1>3. NoAccount \in Known'
    BY DEF Known
  <1>4. \A j \in 1..Len(updates') : updates'[j].state.account = NoAccount
    <2>1. Full(s).state.account = NoAccount
      BY <1>1 DEF Full
    <2> HIDE DEF s
    <2>2. CASE updates' = <<>>
      BY <2>2
    <2>3. CASE updates' = <<Full(s)>>
      <3>1. \A j \in 1..Len(<<Full(s)>>) : <<Full(s)>>[j] = Full(s)
        OBVIOUS
      <3> QED
        BY <2>1, <2>3, <3>1
    <2> QED
      BY <1>2, <2>2, <2>3
  <1>5. Founded(updates', Known')
    BY <1>3, <1>4 DEF Founded
  <1>6. \A i \in 1..Len(<<>>) : FALSE
    OBVIOUS
  <1> HIDE DEF s
  <1> QED
    BY <1>1, <1>2, <1>3, <1>5, <1>6 DEF Saved, Founded, Named

\* The window shows an account only when its keys are stored: by induction over
\* the way of a state, every account a state shows has been stored, is held by
\* the listener ahead of the state, or has its bundle before it in the queue.
THEOREM WindowShowsSaved == Spec => []ShownIsSaved
  <1>1. Init => Saved
    <2> SUFFICES ASSUME Init PROVE Saved
      OBVIOUS
    <2>1. \A i \in 1..Len(<<>>) : FALSE
      OBVIOUS
    <2>2. Empty.account = NoAccount
      BY DEF Empty
    <2> QED
      BY <2>1, <2>2 DEF Init, Saved, Known, Founded
  <1>2. TypeOK /\ Saved /\ [Next]_vars => Saved'
    <2> SUFFICES ASSUME TypeOK, Saved, [Next]_vars PROVE Saved'
      OBVIOUS
    <2>1. CASE UNCHANGED vars
      BY <2>1 DEF Saved, Known, Held, Founded, Named, vars, coreVars, uiVars
    <2> QED
      BY <2>1, SavedUser, SavedCore, SavedListener, SavedWindow, SavedRelaunch DEF Next
  <1>3. Saved => ShownIsSaved
    BY DEF Saved, ShownIsSaved
  <1> QED
    BY <1>1, <1>2, <1>3, ShellTypeCorrect, PTL DEF Spec

-----------------------------------------------------------------------------
(* A quiet screen is true.  A state the core publishes goes through the      *)
(* updates, the listener and the window's queue.  On its way it can be       *)
(* overtaken by none, so the last one published is the one that stays.      *)

Elements(q) == {q[i] : i \in 1..Len(q)}

\* The states among the updates.
States(us) == {us[i].state : i \in {j \in 1..Len(us) : us[j].who = NoAccount}}

RisingUpdates(us) ==
    \A i, j \in 1..Len(us) :
       i < j /\ us[i].who = NoAccount /\ us[j].who = NoAccount => us[i].state.rev < us[j].state.rev

\* The window's queue also holds states the shell made, none newer than number n.
RisingQueue(q, n) == \A i, j \in 1..Len(q) : i < j /\ q[j].rev > n => q[i].rev < q[j].rev

\* What the core last published, top, is the newest on its way to a shell at
\* number n, and still on its way unless the shell has it.
Flow(us, l, q, n, top) ==
    /\ RisingUpdates(us) /\ RisingQueue(q, n)
    /\ \A x \in Elements(l), y \in States(us) : x.rev < y.rev
    /\ \A x \in States(us) \cup Elements(l), y \in Elements(q) : x.rev > n => y.rev < x.rev
    /\ \A x \in States(us) \cup Elements(l) \cup Elements(q) : x.rev <= top.rev
    /\ n <= top.rev
    /\ n < top.rev => top \in States(us) \cup Elements(l) \cup Elements(q)

LEMMA AppendParts ==
    ASSUME NEW S, NEW q \in Seq(S), NEW x \in S
    PROVE  /\ Append(q, x) \in Seq(S) /\ Len(q) \in Nat
           /\ Len(Append(q, x)) = Len(q) + 1 /\ Append(q, x)[Len(q) + 1] = x
           /\ \A i \in 1..Len(q) : Append(q, x)[i] = q[i]
           /\ \A i \in 1..Len(q) + 1 : i \in 1..Len(q) \/ i = Len(q) + 1
           /\ \A i \in 1..Len(q) : i \in 1..Len(q) + 1 /\ i < Len(q) + 1
           /\ Len(q) + 1 \in 1..Len(q) + 1
  <1>1. /\ Append(q, x) \in Seq(S) /\ Len(Append(q, x)) = Len(q) + 1 /\ Append(q, x)[Len(q) + 1] = x
        /\ \A i \in 1..Len(q) : Append(q, x)[i] = q[i]
    BY AppendProperties
  <1>2. Len(q) \in Nat
    BY LenProperties
  <1> QED
    BY <1>1, <1>2

LEMMA TailParts ==
    ASSUME NEW S, NEW q \in Seq(S), q # <<>>
    PROVE  /\ Head(q) \in S /\ Tail(q) \in Seq(S) /\ Head(q) = q[1] /\ 1 \in 1..Len(q)
           /\ \A i \in 1..Len(Tail(q)) : i + 1 \in 1..Len(q) /\ Tail(q)[i] = q[i + 1] /\ 1 < i + 1
           /\ \A i \in 1..Len(q) : i = 1 \/ (i - 1 \in 1..Len(Tail(q)) /\ q[i] = Tail(q)[i - 1])
           /\ \A i, j \in 1..Len(Tail(q)) : i < j => i + 1 < j + 1
  OBVIOUS

LEMMA ElementsAppend ==
    ASSUME NEW S, NEW q \in Seq(S), NEW x \in S
    PROVE  Elements(Append(q, x)) = Elements(q) \cup {x}
  <1> DEFINE r == Append(q, x)
             n == Len(q)
  <1>1. /\ Len(r) = n + 1 /\ r[n + 1] = x
        /\ \A i \in 1..n : r[i] = q[i] /\ i \in 1..n + 1
        /\ \A i \in 1..n + 1 : i \in 1..n \/ i = n + 1
        /\ n + 1 \in 1..n + 1
    BY AppendParts
  <1> HIDE DEF r
  <1>2. Elements(r) \subseteq Elements(q) \cup {x}
    BY <1>1 DEF Elements
  <1>3. Elements(q) \subseteq Elements(r) /\ x \in Elements(r)
    BY <1>1 DEF Elements
  <1> QED
    BY <1>2, <1>3 DEF r

LEMMA ElementsTail ==
    ASSUME NEW S, NEW q \in Seq(S), q # <<>>
    PROVE  Elements(q) = {Head(q)} \cup Elements(Tail(q))
  <1> DEFINE r == Tail(q)
             h == Head(q)
  <1>1. /\ h = q[1] /\ 1 \in 1..Len(q)
        /\ \A i \in 1..Len(r) : i + 1 \in 1..Len(q) /\ r[i] = q[i + 1]
        /\ \A i \in 1..Len(q) : i = 1 \/ (i - 1 \in 1..Len(r) /\ q[i] = r[i - 1])
    BY TailParts
  <1> HIDE DEF r, h
  <1>2. Elements(q) \subseteq {h} \cup Elements(r)
    BY <1>1 DEF Elements
  <1>3. Elements(r) \subseteq Elements(q) /\ h \in Elements(q)
    BY <1>1 DEF Elements
  <1> QED
    BY <1>2, <1>3 DEF r, h

LEMMA StatesAppend ==
    ASSUME NEW us \in Seq(Updates), NEW u \in Updates
    PROVE  States(Append(us, u)) = States(us) \cup {v \in {u.state} : u.who = NoAccount}
  <1> DEFINE r == Append(us, u)
             n == Len(us)
  <1>1. /\ Len(r) = n + 1 /\ r[n + 1] = u
        /\ \A i \in 1..n : r[i] = us[i] /\ i \in 1..n + 1
        /\ \A i \in 1..n + 1 : i \in 1..n \/ i = n + 1
        /\ n + 1 \in 1..n + 1
    BY AppendParts
  <1> HIDE DEF r
  <1>2. States(r) \subseteq States(us) \cup {v \in {u.state} : u.who = NoAccount}
    BY <1>1 DEF States
  <1>3. States(us) \subseteq States(r) /\ {v \in {u.state} : u.who = NoAccount} \subseteq States(r)
    BY <1>1 DEF States
  <1> QED
    BY <1>2, <1>3 DEF r

LEMMA StatesTail ==
    ASSUME NEW us \in Seq(Updates), us # <<>>
    PROVE  States(us) = {v \in {Head(us).state} : Head(us).who = NoAccount} \cup States(Tail(us))
  <1> DEFINE r == Tail(us)
             h == Head(us)
  <1>1. /\ h = us[1] /\ 1 \in 1..Len(us)
        /\ \A i \in 1..Len(r) : i + 1 \in 1..Len(us) /\ r[i] = us[i + 1]
        /\ \A i \in 1..Len(us) : i = 1 \/ (i - 1 \in 1..Len(r) /\ us[i] = r[i - 1])
    BY TailParts
  <1> HIDE DEF r, h
  <1>2. States(us) \subseteq {v \in {h.state} : h.who = NoAccount} \cup States(r)
    BY <1>1 DEF States
  <1>3. States(r) \subseteq States(us) /\ {v \in {h.state} : h.who = NoAccount} \subseteq States(us)
    BY <1>1 DEF States
  <1> QED
    BY <1>2, <1>3 DEF r, h

LEMMA StatesType ==
    /\ \A us \in Seq(Updates) : States(us) \subseteq AppStates
    /\ \A q \in Seq(AppStates) : Elements(q) \subseteq AppStates
  <1>1. ASSUME NEW us \in Seq(Updates) PROVE States(us) \subseteq AppStates
    <2>1. \A i \in 1..Len(us) : us[i] \in Updates
      OBVIOUS
    <2> QED
      BY <2>1 DEF States, Updates
  <1>2. ASSUME NEW q \in Seq(AppStates) PROVE Elements(q) \subseteq AppStates
    BY <1>2 DEF Elements
  <1> QED
    BY <1>1, <1>2

LEMMA NothingFlows == States(<<>>) = {} /\ Elements(<<>>) = {}
  BY DEF States, Elements

\* A bundle and a newer state join the updates.
LEMMA FlowBundle ==
    ASSUME NEW us \in Seq(Updates), NEW l, NEW q, NEW n, NEW top, NEW a \in Accounts,
           Flow(us, l, q, n, top)
    PROVE  Flow(Append(us, Bundle(a)), l, q, n, top)
  <1> DEFINE u == Bundle(a)
             vs == Append(us, u)
  <1>1. u \in Updates /\ u.who # NoAccount
    BY BundleType, AccountAssumption
  <1> HIDE DEF u
  <1>2. States(vs) = States(us)
    BY <1>1, StatesAppend
  <1>3. RisingUpdates(vs)
    <2>1. /\ Len(vs) = Len(us) + 1 /\ vs[Len(us) + 1] = u
          /\ \A i \in 1..Len(us) : vs[i] = us[i]
          /\ \A i \in 1..Len(us) + 1 : i \in 1..Len(us) \/ i = Len(us) + 1
      BY <1>1, AppendParts
    <2> HIDE DEF vs
    <2> QED
      BY <1>1, <2>1 DEF Flow, RisingUpdates
  <1> HIDE DEF vs
  <1>4. Flow(vs, l, q, n, top)
    BY <1>2, <1>3 DEF Flow
  <1> QED
    BY <1>4 DEF vs, u

LEMMA FlowState ==
    ASSUME NEW us \in Seq(Updates), NEW l \in Seq(AppStates), NEW q \in Seq(AppStates), NEW n \in Nat,
           NEW top \in AppStates, NEW t \in AppStates, t.rev > top.rev,
           Flow(us, l, q, n, top)
    PROVE  Flow(Append(us, Full(t)), l, q, n, t)
  <1> DEFINE u == Full(t)
             vs == Append(us, u)
             X == States(us)
             L == Elements(l)
             Q == Elements(q)
  <1>0. \A s \in AppStates : s.rev \in Nat
    BY DEF AppStates
  <1>1. u \in Updates /\ u.who = NoAccount /\ u.state = t
    BY FullType DEF Full
  <1> HIDE DEF u
  <1>2. States(vs) = X \cup {t}
    BY <1>1, StatesAppend
  <1>3. X \subseteq AppStates /\ L \subseteq AppStates /\ Q \subseteq AppStates
    BY StatesType
  <1>4. \A x \in X \cup L \cup Q : x.rev < t.rev
    BY <1>0, <1>3 DEF Flow
  <1>5. RisingUpdates(vs)
    <2>1. /\ Len(vs) = Len(us) + 1 /\ vs[Len(us) + 1] = u /\ Len(us) \in Nat
          /\ \A i \in 1..Len(us) : vs[i] = us[i]
          /\ \A i \in 1..Len(us) + 1 : i \in 1..Len(us) \/ i = Len(us) + 1
      BY <1>1, AppendParts
    <2>2. \A i \in 1..Len(us) : us[i].who = NoAccount => us[i].state \in X
      BY DEF States
    <2>3. ASSUME NEW i \in 1..Len(us) + 1, NEW j \in 1..Len(us) + 1, i < j,
                 vs[i].who = NoAccount, vs[j].who = NoAccount
          PROVE  vs[i].state.rev < vs[j].state.rev
      <3> HIDE DEF vs, X
      <3>1. i \in 1..Len(us)
        BY <2>1, <2>3
      <3>2. CASE j \in 1..Len(us)
        BY <2>1, <2>3, <3>1, <3>2 DEF Flow, RisingUpdates
      <3>3. CASE j = Len(us) + 1
        BY <1>1, <1>4, <2>1, <2>2, <2>3, <3>1, <3>3
      <3> QED
        BY <2>1, <3>2, <3>3
    <2> HIDE DEF vs
    <2> QED
      BY <2>1, <2>3 DEF RisingUpdates
  <1> HIDE DEF vs, X, L, Q
  <1>6. /\ RisingQueue(q, n)
        /\ \A x \in L, y \in X : x.rev < y.rev
        /\ \A x \in X \cup L, y \in Q : x.rev > n => y.rev < x.rev
        /\ n <= top.rev
    BY DEF Flow, X, L, Q
  <1>7. /\ \A x \in L, y \in X \cup {t} : x.rev < y.rev
        /\ \A x \in X \cup {t} \cup L, y \in Q : x.rev > n => y.rev < x.rev
        /\ \A x \in X \cup {t} \cup L \cup Q : x.rev <= t.rev
        /\ n <= t.rev
    BY <1>0, <1>3, <1>4, <1>6
  <1>8. Flow(vs, l, q, n, t)
    BY <1>2, <1>5, <1>6, <1>7 DEF Flow, L, Q
  <1> QED
    BY <1>8 DEF vs, u

\* The listener takes an update; of the states it keeps the newest.
LEMMA FlowTakes ==
    ASSUME NEW us \in Seq(Updates), NEW l \in Seq(AppStates), NEW q \in Seq(AppStates), NEW n \in Nat,
           NEW top \in AppStates, us # <<>>, Flow(us, l, q, n, top)
    PROVE  Flow(Tail(us), IF Head(us).who # NoAccount THEN l ELSE <<Head(us).state>>, q, n, top)
  <1> DEFINE u == Head(us)
             vs == Tail(us)
             Y == States(vs)
             L == Elements(l)
             Q == Elements(q)
  <1>0. \A s \in AppStates : s.rev \in Nat
    BY DEF AppStates
  <1>1. /\ u \in Updates /\ vs \in Seq(Updates) /\ u = us[1] /\ 1 \in 1..Len(us)
        /\ \A i \in 1..Len(vs) : i + 1 \in 1..Len(us) /\ vs[i] = us[i + 1] /\ 1 < i + 1
        /\ \A i, j \in 1..Len(vs) : i < j => i + 1 < j + 1
    BY TailParts
  <1>2. States(us) = {v \in {u.state} : u.who = NoAccount} \cup Y
    BY StatesTail
  <1>3. Y \subseteq AppStates /\ L \subseteq AppStates /\ Q \subseteq AppStates /\ u.state \in AppStates
    BY <1>1, StatesType DEF Updates
  <1> HIDE DEF u, vs
  <1>4. RisingUpdates(vs) /\ (u.who = NoAccount => \A y \in Y : u.state.rev < y.rev)
    BY <1>1 DEF Flow, RisingUpdates, States
  <1>5. /\ RisingQueue(q, n)
        /\ \A x \in L, y \in States(us) : x.rev < y.rev
        /\ \A x \in States(us) \cup L, y \in Q : x.rev > n => y.rev < x.rev
        /\ \A x \in States(us) \cup L \cup Q : x.rev <= top.rev
        /\ n <= top.rev
        /\ n < top.rev => top \in States(us) \cup L \cup Q
    BY DEF Flow
  <1>6. CASE u.who # NoAccount
    <2>1. States(us) = Y
      BY <1>2, <1>6
    <2> QED
      BY <1>4, <1>5, <1>6, <2>1 DEF Flow, vs, u
  <1>7. CASE u.who = NoAccount
    <2>1. Elements(<<u.state>>) = {u.state}
      BY DEF Elements
    <2> DEFINE s == u.state
               M == Elements(<<u.state>>)
    <2>2. States(us) = {s} \cup Y
      BY <1>2, <1>7
    <2>3. M = {s}
      BY <2>1
    <2>4. \A y \in Y : s.rev < y.rev
      BY <1>4, <1>7
    <2> HIDE DEF s, M, Y, L, Q
    <2>5. s \in AppStates
      BY <1>3 DEF s
    <2>6. /\ \A x \in M, y \in Y : x.rev < y.rev
          /\ \A x \in Y \cup M, y \in Q : x.rev > n => y.rev < x.rev
          /\ \A x \in Y \cup M \cup Q : x.rev <= top.rev
      BY <1>5, <2>2, <2>3, <2>4
    <2>7. n < top.rev => top \in Y \cup M \cup Q
      <3>1. top \notin L \/ top.rev < s.rev
        BY <1>5, <2>2
      <3>2. s.rev <= top.rev
        BY <1>5, <2>2
      <3>3. top \notin L
        BY <1>0, <2>5, <3>1, <3>2
      <3> QED
        BY <1>5, <2>2, <2>3, <3>3
    <2>8. Flow(vs, <<u.state>>, q, n, top)
      BY <1>4, <1>5, <2>6, <2>7 DEF Flow, M, Y, Q
    <2> QED
      BY <1>7, <2>8 DEF vs, u
  <1> QED
    BY <1>6, <1>7

\* The listener hands its state to the window.
LEMMA FlowForwards ==
    ASSUME NEW us \in Seq(Updates), NEW l \in Seq(AppStates), NEW q \in Seq(AppStates), NEW n \in Nat,
           NEW top \in AppStates, Len(l) <= 1, Flow(us, l, q, n, top)
    PROVE  Flow(us, <<>>, q \o l, n, top)
  <1> DEFINE r == q \o l
             X == States(us)
             L == Elements(l)
             Q == Elements(q)
  <1>1. CASE l = <<>>
    <2>1. q \o l = q
      BY <1>1
    <2> QED
      BY <1>1, <2>1
  <1>2. CASE l # <<>>
    <2>1. l = <<l[1]>> /\ l[1] \in AppStates /\ q \o l = Append(q, l[1])
      <3>1. Len(l) = 1
        BY <1>2
      <3>2. l[1] \in AppStates
        <4>1. 1 \in 1..Len(l)
          BY <3>1
        <4>2. \A i \in 1..Len(l) : l[i] \in AppStates
          <5> HIDE DEF r, X, L, Q
          <5> QED
            BY ElementOfSeq
        <4> QED
          BY <4>1, <4>2
      <3>3. l = <<l[1]>>
        BY <3>1, <3>2
      <3>4. q \o <<l[1]>> = Append(q, l[1])
        BY <3>2
      <3> QED
        BY <3>2, <3>3, <3>4
    <2> DEFINE s == l[1]
    <2>2. L = {s} /\ s \in AppStates
      <3>1. Elements(<<s>>) = {s}
        BY DEF Elements
      <3> QED
        BY <2>1, <3>1
    <2>3. Elements(r) = Q \cup {s}
      BY <2>1, ElementsAppend
    <2>4. /\ Len(r) = Len(q) + 1 /\ r[Len(q) + 1] = s /\ Len(q) \in Nat
          /\ \A i \in 1..Len(q) : r[i] = q[i]
          /\ \A i \in 1..Len(q) + 1 : i \in 1..Len(q) \/ i = Len(q) + 1
      BY <2>1, AppendParts
    <2> HIDE DEF s, r, L
    <2>5. \A i \in 1..Len(q) : q[i] \in Q
      BY DEF Elements
    <2>6. RisingQueue(r, n)
      <3> HIDE DEF Q
      <3>1. s.rev > n => \A y \in Q : y.rev < s.rev
        BY <2>2 DEF Flow, Q, L
      <3>2. ASSUME NEW i \in 1..Len(q) + 1, NEW j \in 1..Len(q) + 1, i < j, r[j].rev > n
            PROVE  r[i].rev < r[j].rev
        <4>1. i \in 1..Len(q)
          BY <2>4, <3>2
        <4>2. CASE j \in 1..Len(q)
          BY <2>4, <3>2, <4>1, <4>2 DEF Flow, RisingQueue
        <4>3. CASE j = Len(q) + 1
          BY <2>4, <2>5, <3>1, <3>2, <4>1, <4>3
        <4> QED
          BY <2>4, <4>2, <4>3
      <3> QED
        BY <2>4, <3>2 DEF RisingQueue
    <2>7. /\ RisingUpdates(us)
          /\ \A y \in X : s.rev < y.rev
          /\ \A x \in X \cup L, y \in Q : x.rev > n => y.rev < x.rev
          /\ \A x \in X \cup L \cup Q : x.rev <= top.rev
          /\ n <= top.rev
          /\ n < top.rev => top \in X \cup L \cup Q
      BY <2>2 DEF Flow, L
    <2> HIDE DEF X, Q
    <2>8. /\ \A x \in X, y \in Q \cup {s} : x.rev > n => y.rev < x.rev
          /\ \A x \in X \cup (Q \cup {s}) : x.rev <= top.rev
          /\ n < top.rev => top \in X \cup (Q \cup {s})
      BY <2>2, <2>7
    <2>9. Elements(<<>>) = {}
      BY NothingFlows
    <2>10. Flow(us, <<>>, r, n, top)
      BY <2>3, <2>6, <2>7, <2>8, <2>9 DEF Flow, X, Q
    <2> QED
      BY <2>10 DEF r
  <1> QED
    BY <1>1, <1>2

\* The shell queues a state it made itself, at its own number.
LEMMA FlowOptimistic ==
    ASSUME NEW us \in Seq(Updates), NEW l \in Seq(AppStates), NEW q \in Seq(AppStates), NEW n \in Nat,
           NEW top \in AppStates, NEW s \in AppStates, s.rev = n, Flow(us, l, q, n, top)
    PROVE  Flow(us, l, Append(q, s), n, top)
  <1> DEFINE r == Append(q, s)
             X == States(us) \cup Elements(l)
             Q == Elements(q)
  <1>1. Elements(r) = Q \cup {s}
    BY ElementsAppend
  <1>2. /\ Len(r) = Len(q) + 1 /\ r[Len(q) + 1] = s /\ Len(q) \in Nat
        /\ \A i \in 1..Len(q) : r[i] = q[i]
        /\ \A i \in 1..Len(q) + 1 : i \in 1..Len(q) \/ i = Len(q) + 1
    BY AppendParts
  <1> HIDE DEF r
  <1>3. RisingQueue(r, n)
    <2>1. ASSUME NEW i \in 1..Len(q) + 1, NEW j \in 1..Len(q) + 1, i < j, r[j].rev > n
          PROVE  r[i].rev < r[j].rev
      <3>1. i \in 1..Len(q)
        BY <1>2, <2>1
      <3>2. j \in 1..Len(q)
        BY <1>2, <2>1
      <3> QED
        BY <1>2, <2>1, <3>1, <3>2 DEF Flow, RisingQueue
    <2> QED
      BY <1>2, <2>1 DEF RisingQueue
  <1>4. /\ RisingUpdates(us)
        /\ \A x \in Elements(l), y \in States(us) : x.rev < y.rev
        /\ \A x \in X, y \in Q : x.rev > n => y.rev < x.rev
        /\ \A x \in X \cup Q : x.rev <= top.rev
        /\ n <= top.rev
        /\ n < top.rev => top \in X \cup Q
    BY DEF Flow
  <1>5. \A x \in X : x.rev \in Nat
    BY StatesType DEF AppStates
  <1> HIDE DEF X, Q
  <1>6. /\ \A x \in X, y \in Q \cup {s} : x.rev > n => y.rev < x.rev
        /\ \A x \in X \cup (Q \cup {s}) : x.rev <= top.rev
        /\ n < top.rev => top \in X \cup (Q \cup {s})
    BY <1>4, <1>5
  <1>7. Flow(us, l, r, n, top)
    BY <1>1, <1>3, <1>4, <1>6 DEF Flow, X, Q
  <1> QED
    BY <1>7 DEF r

\* The window takes the next state, and moves to its number if that is newer.
LEMMA FlowDraws ==
    ASSUME NEW us \in Seq(Updates), NEW l \in Seq(AppStates), NEW q \in Seq(AppStates), NEW n \in Nat,
           NEW top \in AppStates, q # <<>>, Flow(us, l, q, n, top)
    PROVE  /\ Head(q).rev <= n => Flow(us, l, Tail(q), n, top)
           /\ Head(q).rev > n => Flow(us, l, Tail(q), Head(q).rev, top)
           /\ Head(q).rev > n /\ Head(q).rev = top.rev => Head(q) = top
  <1> DEFINE s == Head(q)
             r == Tail(q)
             X == States(us) \cup Elements(l)
             R == Elements(r)
  <1>0. \A x \in AppStates : x.rev \in Nat
    BY DEF AppStates
  <1>1. /\ s \in AppStates /\ r \in Seq(AppStates) /\ s = q[1] /\ 1 \in 1..Len(q)
        /\ \A i \in 1..Len(r) : i + 1 \in 1..Len(q) /\ r[i] = q[i + 1] /\ 1 < i + 1
        /\ \A i, j \in 1..Len(r) : i < j => i + 1 < j + 1
    BY TailParts
  <1>2. Elements(q) = {s} \cup R
    BY ElementsTail
  <1>3. X \subseteq AppStates /\ R \subseteq AppStates
    BY <1>1, StatesType
  <1> HIDE DEF s, r
  <1>4. /\ RisingUpdates(us)
        /\ \A x \in Elements(l), y \in States(us) : x.rev < y.rev
        /\ \A x \in X, y \in {s} \cup R : x.rev > n => y.rev < x.rev
        /\ \A x \in X \cup ({s} \cup R) : x.rev <= top.rev
        /\ n <= top.rev
        /\ n < top.rev => top \in X \cup ({s} \cup R)
    BY <1>2 DEF Flow
  <1>5. /\ \A i, j \in 1..Len(r) : i < j /\ r[j].rev > n => r[i].rev < r[j].rev
        /\ \A y \in R : y.rev > n => s.rev < y.rev
    <2>1. \A i, j \in 1..Len(q) : i < j /\ q[j].rev > n => q[i].rev < q[j].rev
      BY DEF Flow, RisingQueue
    <2>2. \A i, j \in 1..Len(r) : i < j /\ r[j].rev > n => r[i].rev < r[j].rev
      BY <1>1, <2>1
    <2>3. \A i \in 1..Len(r) : r[i].rev > n => s.rev < r[i].rev
      BY <1>1, <2>1
    <2> QED
      BY <2>2, <2>3 DEF Elements
  <1>6. \A j \in 1..Len(r) : r[j].rev \in Nat
    BY <1>0, <1>1
  <1> HIDE DEF X, R
  <1>7. CASE s.rev <= n
    <2>1. top.rev \in Nat /\ (n < top.rev => top # s)
      BY <1>0, <1>7
    <2>2. RisingQueue(r, n)
      BY <1>5 DEF RisingQueue
    <2>3. Flow(us, l, r, n, top)
      BY <1>4, <2>1, <2>2 DEF Flow, X, R
    <2> QED
      BY <1>0, <1>1, <1>7, <2>3 DEF s, r
  <1>8. CASE s.rev > n
    <2>1. s.rev \in Nat /\ top.rev \in Nat
      BY <1>0, <1>1
    <2>2. RisingQueue(r, s.rev)
      BY <1>5, <1>6, <1>8, <2>1 DEF RisingQueue
    <2>3. n < top.rev
      BY <1>4, <1>8, <2>1
    <2>4. \A x \in X : x.rev \in Nat /\ (x.rev > n => s.rev < x.rev)
      BY <1>0, <1>3, <1>4
    <2>5. s.rev = top.rev => s = top
      <3>1. top \in X \cup ({s} \cup R)
        BY <1>4, <2>3
      <3>2. top \in X => s.rev < top.rev
        BY <2>3, <2>4
      <3>3. top \in R => s.rev < top.rev
        BY <1>5, <2>3
      <3> QED
        BY <2>1, <3>1, <3>2, <3>3
    <2>6. \A x \in X, y \in R : x.rev > s.rev => y.rev < x.rev
      BY <1>4, <1>8, <2>1, <2>4
    <2>7. s.rev < top.rev => top \in X \cup R
      BY <1>4, <2>1, <2>3
    <2>8. s.rev <= top.rev
      BY <1>4
    <2>9. Flow(us, l, r, s.rev, top)
      BY <1>4, <2>2, <2>6, <2>7, <2>8 DEF Flow, X, R
    <2> QED
      BY <1>8, <2>1, <2>5, <2>9 DEF s, r
  <1> QED
    BY <1>0, <1>1, <1>7, <1>8

-----------------------------------------------------------------------------
\* Two states that differ in the screen on top at most.
Alike(s, t) == s.rev = t.rev /\ s.account = t.account /\ s.news = t.news /\ s.toast = t.toast

\* A living core counts on from what it last published, for the same account.
CoreAgrees == core.alive => core.state.rev = shared.rev /\ core.state.account = shared.account

\* The window shows the shell's state, or will once it draws one the shell made.
Drawn ==
    /\ Alike(window, local)
    /\ window = local \/ \E w \in Elements(uiq) : w.rev = local.rev /\ w.route = local.route

\* A shell that waits for nothing, or has no account, is on the screen of the core
\* unless what the core has still to handle makes it publish or go there.
Astray ==
    local.rev = shared.rev /\ local.route # shared.route /\ (override = "none" \/ local.account = NoAccount)
    => \/ \E i \in 1..Len(fg) : fg[i].kind = "logout"
       \/ /\ local.account = NoAccount /\ local.route \notin Chats
          /\ \E i \in 1..Len(fg) : fg[i] = Go(local.route)

Screen ==
    ~panicked =>
        /\ CoreAgrees
        /\ Flow(updates, listener.latest, uiq, local.rev, shared)
        /\ local.rev = shared.rev => Alike(local, shared)
        /\ Drawn
        /\ Astray

LEMMA ScreenTypes ==
    ASSUME TypeOK
    PROVE  /\ core \in CoreType /\ core.state \in AppStates /\ core.emitted \in BOOLEAN
           /\ fg \in Seq(Actions) /\ updates \in Seq(Updates) /\ uiq \in Seq(AppStates)
           /\ listener \in ListenerType /\ listener.latest \in Seq(AppStates)
           /\ shared \in AppStates /\ local \in AppStates /\ window \in AppStates
           /\ local.rev \in Nat /\ shared.rev \in Nat /\ core.state.rev \in Nat
  BY DEF TypeOK, CoreType, ListenerType, AppStates

\* The end of a batch publishes a newer state, or what was published is still true.
BatchEnds ==
    /\ CoreAgrees'
    /\ Flow(updates', listener.latest, uiq, local.rev, shared')
    /\ shared' = shared \/ shared'.rev > shared.rev

LEMMA ScreenBatch ==
    ASSUME TypeOK, core.alive, CoreAgrees, Flow(updates, listener.latest, uiq, local.rev, shared),
           NEW bundles, bundles = <<>> \/ \E a \in Accounts : bundles = <<Bundle(a)>>,
           NEW s \in AppStates, s.rev = core.state.rev, NEW e \in BOOLEAN, EndBatch(bundles, s, e)
    PROVE  /\ BatchEnds
           /\ shared' = shared => e /\ s.route = shared.route
  <1> DEFINE t == [s EXCEPT !.rev = @ + 1]
             us == updates \o bundles
             l == listener.latest
             n == local.rev
  <1>0. /\ core \in CoreType /\ updates \in Seq(Updates) /\ uiq \in Seq(AppStates)
        /\ l \in Seq(AppStates) /\ n \in Nat /\ shared \in AppStates /\ shared.rev \in Nat
    BY ScreenTypes
  <1>1. us \in Seq(Updates) /\ Flow(us, l, uiq, n, shared)
    <2>1. CASE bundles = <<>>
      <3>1. updates \o <<>> = updates
        BY <1>0
      <3> QED
        BY <1>0, <2>1, <3>1
    <2>2. ASSUME NEW a \in Accounts, bundles = <<Bundle(a)>> PROVE us \in Seq(Updates) /\ Flow(us, l, uiq, n, shared)
      <3> DEFINE b == Bundle(a)
      <3>1. b \in Updates
        BY BundleType
      <3>2. Flow(Append(updates, b), l, uiq, n, shared)
        BY <1>0, FlowBundle
      <3> HIDE DEF b
      <3>3. updates \o <<b>> = Append(updates, b) /\ Append(updates, b) \in Seq(Updates)
        BY <1>0, <3>1
      <3> QED
        BY <2>2, <3>2, <3>3 DEF b
    <2> QED
      BY <2>1, <2>2
  <1>2. /\ t \in AppStates /\ t.rev = shared.rev + 1 /\ t.account = s.account
    <2>1. s.rev = shared.rev
      BY DEF CoreAgrees
    <2> QED
      BY <1>0, <2>1 DEF AppStates
  <1>3. CASE e /\ Same(s, shared)
    <2>1. core' = [core EXCEPT !.state = s] /\ updates' = us /\ shared' = shared
      BY <1>3 DEF EndBatch
    <2>2. s.account = shared.account /\ s.route = shared.route
      <3> DEFINE x == [s EXCEPT !.rev = 0]
                 y == [shared EXCEPT !.rev = 0]
      <3>1. x = y
        BY <1>3 DEF Same
      <3>2. x.account = s.account /\ y.account = shared.account /\ x.route = s.route /\ y.route = shared.route
        BY <1>0 DEF AppStates
      <3> HIDE DEF x, y
      <3> QED
        BY <3>1, <3>2
    <2>3. core'.state = s
      BY <1>0, <2>1 DEF CoreType
    <2> QED
      BY <1>1, <1>3, <2>1, <2>2, <2>3 DEF BatchEnds, CoreAgrees
  <1>4. CASE ~(e /\ Same(s, shared))
    <2>1. /\ core' = [core EXCEPT !.state = t, !.emitted = TRUE]
          /\ updates' = Append(us, Full(t))
          /\ shared' = t
      BY <1>4 DEF EndBatch
    <2> HIDE DEF t, us, l, n
    <2>2. core'.state = t
      BY <1>0, <2>1 DEF CoreType
    <2>3. t.rev > shared.rev
      BY <1>0, <1>2
    <2>4. Flow(Append(us, Full(t)), l, uiq, n, t)
      BY <1>0, <1>1, <1>2, <2>3, FlowState
    <2>5. shared' # shared
      BY <2>1, <2>3, <1>0
    <2> QED
      BY <2>1, <2>2, <2>3, <2>4, <2>5 DEF BatchEnds, CoreAgrees, l, n
  <1> QED
    BY <1>3, <1>4

LEMMA HandledGo ==
    ASSUME NEW r
    PROVE  Go(r).kind = "go" /\ Go(r).route = r
  BY DEF Go

\* The core handles an action: a logout publishes, and so does a screen for those
\* who are not logged in unless the core is there.
LEMMA ScreenHandled ==
    ASSUME TypeOK, Screen, ~panicked, CoreHandles
    PROVE  /\ BatchEnds
           /\ shared' = shared =>
                /\ Head(fg).kind # "logout"
                /\ core.state.account = NoAccount /\ Head(fg).kind = "go" /\ Head(fg).route \notin Chats
                   => Head(fg).route = shared.route
  <1> DEFINE m == Head(fg)
             c == core.state
  <1>0. /\ core \in CoreType /\ c \in AppStates /\ core.emitted \in BOOLEAN /\ c.rev \in Nat
        /\ fg \in Seq(Actions) /\ updates \in Seq(Updates)
    BY ScreenTypes
  <1>1. m \in Actions /\ m.route \in Routes /\ core.alive
    BY <1>0, TailType DEF CoreHandles, Actions, Routes
  <1>2. CoreAgrees /\ Flow(updates, listener.latest, uiq, local.rev, shared)
    BY DEF Screen
  <1> HIDE DEF m
  <1>6. UNCHANGED <<listener, uiq, local>>
    BY DEF CoreHandles, uiVars
  <1>3. CASE m.kind \in Logins /\ CoreLogsIn(m)
    <2>1. m.kind # "logout" /\ m.kind # "go"
      BY <1>3 DEF Logins
    <2>2. CASE EndBatch(<<>>, [core.state EXCEPT !.toast = TRUE], core.emitted)
      <3>1. [c EXCEPT !.toast = TRUE] \in AppStates /\ [c EXCEPT !.toast = TRUE].rev = c.rev
        BY <1>0 DEF AppStates
      <3>2. BatchEnds
        BY <1>0, <1>1, <1>2, <2>2, <3>1, ScreenBatch
      <3> QED
        BY <2>1, <3>2 DEF m
    <2>3. CASE m.who # Typo /\ EndBatch(<<Bundle(m.who)>>, Started(core.state, m.who), core.emitted)
      <3>1. m.who \in Accounts
        BY <1>1, <1>3, <2>3 DEF Actions, Logins
      <3>2. Started(c, m.who) \in AppStates /\ Started(c, m.who).rev = c.rev
        BY <1>0, <3>1 DEF Started, AppStates, Routes
      <3>3. BatchEnds
        BY <1>0, <1>1, <1>2, <2>3, <3>1, <3>2, ScreenBatch
      <3> QED
        BY <2>1, <3>3 DEF m
    <2>4. CASE EndBatch(<<>>, Failed(core.state), core.emitted)
      <3>1. Failed(c) \in AppStates /\ Failed(c).rev = c.rev
        BY <1>0 DEF Failed, AppStates, Routes
      <3>2. BatchEnds
        BY <1>0, <1>1, <1>2, <2>4, <3>1, ScreenBatch
      <3> QED
        BY <2>1, <3>2 DEF m
    <2> QED
      BY <1>3, <2>2, <2>3, <2>4 DEF CoreLogsIn
  <1>4. CASE m.kind = "logout" /\ CoreLogsOut
    <2> DEFINE s == [Empty EXCEPT !.rev = core.state.rev]
    <2>1. s \in AppStates /\ s.rev = c.rev
      BY <1>0, EmptyType DEF AppStates, Empty
    <2>2. EndBatch(<<>>, s, FALSE)
      BY <1>4 DEF CoreLogsOut
    <2> HIDE DEF s
    <2> QED
      BY <1>0, <1>1, <1>2, <2>1, <2>2, ScreenBatch
  <1>5. CASE m.kind = "go" /\ CoreGoes(m.route)
    <2> DEFINE s == [c EXCEPT !.toast = FALSE]
               g == [s EXCEPT !.route = m.route]
               f == [s EXCEPT !.toast = TRUE]
               Goal == BatchEnds /\ (shared' = shared =>
                          (c.account = NoAccount /\ m.route \notin Chats => m.route = shared.route))
    <2>1. /\ s \in AppStates /\ s.account = c.account /\ s.rev = c.rev
          /\ g \in AppStates /\ g.rev = c.rev /\ g.route = m.route
          /\ f \in AppStates /\ f.rev = c.rev
      BY <1>0, <1>1 DEF AppStates
    <2>2. \/ EndBatch(<<>>, g, core.emitted)
          \/ /\ m.route = "form" /\ s.account # NoAccount
             /\ core' = [core EXCEPT !.state = s] /\ UNCHANGED <<shared, updates>>
          \/ m.route \in Chats /\ EndBatch(<<>>, f, core.emitted)
      BY <1>5 DEF CoreGoes
    <2> HIDE DEF s, g, f
    <2>3. ASSUME EndBatch(<<>>, g, core.emitted) PROVE Goal
      BY <1>0, <1>1, <1>2, <2>1, <2>3, ScreenBatch
    <2>4. ASSUME m.route = "form", s.account # NoAccount,
                 core' = [core EXCEPT !.state = s], UNCHANGED <<shared, updates>>
          PROVE  Goal
      <3>1. core'.state = s /\ core'.alive
        BY <1>0, <1>1, <2>4 DEF CoreType
      <3> QED
        BY <1>1, <1>2, <1>6, <2>1, <2>4, <3>1 DEF BatchEnds, CoreAgrees
    <2>5. ASSUME m.route \in Chats, EndBatch(<<>>, f, core.emitted) PROVE Goal
      BY <1>0, <1>1, <1>2, <2>1, <2>5, ScreenBatch
    <2>6. Goal
      BY <2>2, <2>3, <2>4, <2>5
    <2> QED
      BY <1>5, <2>6 DEF m
  <1> QED
    BY <1>3, <1>4, <1>5 DEF CoreHandles, m

LEMMA ScreenCore ==
    ASSUME TypeOK, Screen, ~panicked, CoreHandles \/ CoreHears
    PROVE  Screen'
  <1>0. /\ core \in CoreType /\ core.state \in AppStates /\ core.state.rev \in Nat /\ core.emitted \in BOOLEAN
        /\ fg \in Seq(Actions) /\ local.rev \in Nat /\ shared.rev \in Nat
    BY ScreenTypes
  <1>1. /\ CoreAgrees /\ Flow(updates, listener.latest, uiq, local.rev, shared) /\ Drawn /\ Astray
        /\ local.rev = shared.rev => Alike(local, shared)
    BY DEF Screen
  <1>2. UNCHANGED <<listener, uiq, local, window, override>> /\ core.alive
    BY DEF CoreHandles, CoreHears, uiVars
  <1>3. BatchEnds
    <2>1. CASE CoreHears
      <3> DEFINE s == [core.state EXCEPT !.news = ~@]
      <3>1. s \in AppStates /\ s.rev = core.state.rev
        BY <1>0 DEF AppStates
      <3>2. EndBatch(<<>>, s, core.emitted)
        BY <2>1 DEF CoreHears
      <3> HIDE DEF s
      <3> QED
        BY <1>0, <1>1, <1>2, <3>1, <3>2, ScreenBatch
    <2>2. CASE CoreHandles
      BY <2>2, ScreenHandled
    <2> QED
      BY <2>1, <2>2
  <1>4. CASE shared'.rev > shared.rev
    <2>1. shared.rev >= local.rev
      BY <1>0, <1>1 DEF Flow
    <2>2. local'.rev # shared'.rev
      BY <1>0, <1>2, <1>4, <2>1
    <2> QED
      BY <1>1, <1>2, <1>3, <2>2 DEF Screen, BatchEnds, Drawn, Astray
  <1>5. CASE shared' = shared
    <2>1. Astray'
      <3> SUFFICES ASSUME local.rev = shared.rev, local.route # shared.route,
                          override = "none" \/ local.account = NoAccount
                   PROVE  \/ \E i \in 1..Len(fg') : fg'[i].kind = "logout"
                          \/ /\ local.account = NoAccount /\ local.route \notin Chats
                             /\ \E i \in 1..Len(fg') : fg'[i] = Go(local.route)
        BY <1>2, <1>5 DEF Astray
      <3>1. core.state.account = local.account
        BY <1>1, <1>2 DEF CoreAgrees, Alike
      <3>2. CASE CoreHears
        BY <1>1, <3>2 DEF Astray, CoreHears
      <3>3. CASE CoreHandles
        <4>1. /\ fg # <<>> /\ fg' = Tail(fg)
              /\ \A i \in 1..Len(fg) : i = 1 \/ (i - 1 \in 1..Len(fg') /\ fg[i] = fg'[i - 1])
              /\ Head(fg) = fg[1]
          BY <1>0, <3>3, TailParts DEF CoreHandles
        <4>2. fg[1].kind # "logout"
          BY <1>5, <3>3, <4>1, ScreenHandled
        <4>3. ASSUME local.account = NoAccount, local.route \notin Chats PROVE fg[1] # Go(local.route)
          BY <1>5, <3>1, <3>3, <4>1, <4>3, ScreenHandled, HandledGo
        <4>4. \/ \E i \in 1..Len(fg) : fg[i].kind = "logout"
              \/ /\ local.account = NoAccount /\ local.route \notin Chats
                 /\ \E i \in 1..Len(fg) : fg[i] = Go(local.route)
          BY <1>1 DEF Astray
        <4> QED
          BY <4>1, <4>2, <4>3, <4>4
      <3> QED
        BY <3>2, <3>3
    <2> QED
      BY <1>1, <1>2, <1>3, <1>5, <2>1 DEF Screen, BatchEnds, Drawn
  <1> QED
    BY <1>3, <1>4, <1>5 DEF BatchEnds

\* What the user does appends to the core's queue.
LEMMA AstrayMore ==
    ASSUME TypeOK, Astray, NEW m \in Actions, fg' = Append(fg, m), UNCHANGED <<local, shared>>,
           m.kind = "logout" \/ override' = override \/ local.account = NoAccount
    PROVE  Astray'
  <1>1. /\ Len(fg') = Len(fg) + 1 /\ fg'[Len(fg) + 1] = m /\ Len(fg) + 1 \in 1..Len(fg) + 1
        /\ \A i \in 1..Len(fg) : fg'[i] = fg[i] /\ i \in 1..Len(fg) + 1
    BY ScreenTypes, AppendParts
  <1> QED
    BY <1>1 DEF Astray

LEMMA ScreenUser ==
    ASSUME TypeOK, Screen, ~panicked, User
    PROVE  Screen'
  <1>0. /\ uiq \in Seq(AppStates) /\ updates \in Seq(Updates) /\ listener.latest \in Seq(AppStates)
        /\ local \in AppStates /\ window \in AppStates /\ shared \in AppStates /\ local.rev \in Nat
        /\ fg \in Seq(Actions)
    BY ScreenTypes
  <1>1. /\ CoreAgrees /\ Flow(updates, listener.latest, uiq, local.rev, shared) /\ Drawn /\ Astray
        /\ local.rev = shared.rev => Alike(local, shared)
    BY DEF Screen
  <1>2. ASSUME UNCHANGED <<core, shared, updates, listener, uiq, local, window>>, Astray' PROVE Screen'
    BY <1>1, <1>2 DEF Screen, CoreAgrees, Drawn
  <1>3. ASSUME NEW kind \in {"create", "restore"}, NEW a \in Accounts \cup {Typo}, UserLogsIn(kind, a)
        PROVE  Screen'
    <2>1. Login(kind, a) \in Actions
      BY ActionTypes DEF Logins
    <2>2. local.account = NoAccount
      BY <1>1, <1>3 DEF UserLogsIn, Drawn, Alike
    <2>3. fg' = Append(fg, Login(kind, a))
          /\ UNCHANGED <<core, shared, updates, listener, uiq, local, window>>
      BY <1>3 DEF UserLogsIn, Dispatch, coreVars
    <2>4. Astray'
      BY <1>1, <2>1, <2>2, <2>3, AstrayMore
    <2> QED
      BY <1>2, <2>3, <2>4
  <1>4. ASSUME UserLogsOut \/ UserDeletes PROVE Screen'
    <2>1. Logout \in Actions /\ Logout.kind = "logout"
      BY ActionTypes DEF Logout
    <2>2. fg' = Append(fg, Logout) /\ UNCHANGED <<core, shared, updates, listener, uiq, local, window>>
      BY <1>4 DEF UserLogsOut, UserDeletes, Dispatch, coreVars
    <2>3. Astray'
      BY <1>1, <2>1, <2>2, AstrayMore
    <2> QED
      BY <1>2, <2>2, <2>3
  <1>5. ASSUME NEW r \in Routes, UserNavigates(r) PROVE Screen'
    <2> DEFINE s == [local EXCEPT !.route = r]
    <2>1. /\ s \in AppStates /\ s.rev = local.rev /\ s.account = local.account /\ s.news = local.news
          /\ s.toast = local.toast /\ s.route = r
      BY <1>0 DEF AppStates
    <2>2. /\ local' = s /\ uiq' = Append(uiq, s) /\ override' = r /\ fg' = Append(fg, Go(r))
          /\ UNCHANGED <<core, shared, updates, listener, window>>
          /\ window.account = NoAccount => r \in {"home", "form"}
      BY <1>5 DEF UserNavigates, Dispatch, coreVars
    <2> HIDE DEF s
    <2>3. Alike(window, local)
      BY <1>1 DEF Drawn
    <2>4. Elements(uiq') = Elements(uiq) \cup {s}
      BY <1>0, <2>1, <2>2, ElementsAppend
    <2>5. Flow(updates, listener.latest, Append(uiq, s), local.rev, shared)
      BY <1>0, <1>1, <2>1, FlowOptimistic
    <2>6. Drawn'
      BY <2>1, <2>2, <2>3, <2>4 DEF Drawn, Alike
    <2>7. Astray'
      <3>1. Go(r) \in Actions
        BY ActionTypes
      <3>2. /\ Len(fg') = Len(fg) + 1 /\ fg'[Len(fg) + 1] = Go(r) /\ Len(fg) + 1 \in 1..Len(fg) + 1
        BY <1>0, <2>2, <3>1, AppendParts
      <3>3. r # "none"
        BY AccountAssumption DEF Routes
      <3>4. local'.account = NoAccount => r \notin Chats
        BY <2>1, <2>2, <2>3, AccountAssumption DEF Alike
      <3>5. \E i \in 1..Len(fg') : fg'[i] = Go(local'.route)
        BY <2>1, <2>2, <3>2
      <3> QED
        BY <2>1, <2>2, <3>3, <3>4, <3>5 DEF Astray
    <2>8. CoreAgrees' /\ (local'.rev = shared'.rev => Alike(local', shared'))
      BY <1>1, <2>1, <2>2 DEF CoreAgrees, Alike
    <2> QED
      BY <2>1, <2>2, <2>5, <2>6, <2>7, <2>8 DEF Screen
  <1> QED
    BY <1>3, <1>4, <1>5 DEF User

LEMMA ScreenListener ==
    ASSUME TypeOK, Screen, ~panicked, Listener
    PROVE  Screen'
  <1>0. /\ uiq \in Seq(AppStates) /\ updates \in Seq(Updates) /\ listener \in ListenerType
        /\ listener.latest \in Seq(AppStates) /\ shared \in AppStates /\ local.rev \in Nat
        /\ Len(listener.latest) <= 1
    BY ScreenTypes DEF TypeOK
  <1>1. /\ CoreAgrees /\ Flow(updates, listener.latest, uiq, local.rev, shared) /\ Drawn /\ Astray
        /\ local.rev = shared.rev => Alike(local, shared)
    BY DEF Screen
  <1>2. UNCHANGED <<core, shared, fg, local, window, override, panicked>>
    BY DEF Listener, ListenerTakes, ListenerTurns, ListenerStores, ListenerForwards, coreVars, uiVars
  <1>3. ASSUME Flow(updates', listener'.latest, uiq', local.rev, shared),
               Elements(uiq) \subseteq Elements(uiq')
        PROVE  Screen'
    BY <1>1, <1>2, <1>3 DEF Screen, CoreAgrees, Drawn, Astray
  <1>4. CASE ListenerTakes
    <2>1. updates # <<>> /\ updates' = Tail(updates) /\ uiq' = uiq
      BY <1>4 DEF ListenerTakes, uiVars
    <2>2. listener'.latest = IF Head(updates).who # NoAccount THEN listener.latest ELSE <<Head(updates).state>>
      BY <1>0, <1>4 DEF ListenerTakes, ListenerType
    <2>3. Flow(Tail(updates), IF Head(updates).who # NoAccount THEN listener.latest ELSE <<Head(updates).state>>,
               uiq, local.rev, shared)
      BY <1>0, <1>1, <2>1, FlowTakes
    <2> QED
      BY <1>3, <2>1, <2>2, <2>3
  <1>5. CASE ListenerTurns
    <2>1. listener'.latest = listener.latest /\ UNCHANGED <<updates, uiq>>
      BY <1>0, <1>5 DEF ListenerTurns, ListenerType, coreVars
    <2> QED
      BY <1>1, <1>3, <2>1
  <1>6. CASE ListenerStores
    <2>1. listener'.latest = listener.latest /\ UNCHANGED <<updates, uiq>>
      BY <1>0, <1>6 DEF ListenerStores, ListenerType, coreVars
    <2> QED
      BY <1>1, <1>3, <2>1
  <1>7. CASE ListenerForwards
    <2> DEFINE l == listener.latest
    <2>1. listener'.latest = <<>> /\ updates' = updates /\ uiq' = uiq \o l
      BY <1>0, <1>7 DEF ListenerForwards, ListenerType, coreVars
    <2>2. Flow(updates, <<>>, uiq \o l, local.rev, shared)
      BY <1>0, <1>1, FlowForwards
    <2>3. Elements(uiq) \subseteq Elements(uiq')
      <3>1. Len(uiq) \in Nat /\ Len(l) \in Nat /\ Len(uiq \o l) = Len(uiq) + Len(l)
            /\ \A i \in 1..Len(uiq) + Len(l) : (uiq \o l)[i] = IF i <= Len(uiq) THEN uiq[i] ELSE l[i - Len(uiq)]
        BY <1>0, ConcatProperties, LenProperties
      <3>2. \A i \in 1..Len(uiq) : i \in 1..Len(uiq) + Len(l) /\ i <= Len(uiq)
        BY <3>1
      <3> HIDE DEF l
      <3>3. \A i \in 1..Len(uiq) : i \in 1..Len(uiq') /\ uiq'[i] = uiq[i]
        BY <2>1, <3>1, <3>2
      <3> QED
        BY <3>3 DEF Elements
    <2> QED
      BY <1>3, <2>1, <2>2, <2>3
  <1> QED
    BY <1>4, <1>5, <1>6, <1>7 DEF Listener

LEMMA ScreenWindow ==
    ASSUME TypeOK, Screen, ~panicked, WindowDraws
    PROVE  Screen'
  <1> DEFINE s == Head(uiq)
  <1>0. /\ uiq \in Seq(AppStates) /\ updates \in Seq(Updates) /\ listener.latest \in Seq(AppStates)
        /\ shared \in AppStates /\ local \in AppStates /\ local.rev \in Nat /\ uiq # <<>> /\ uiq' = Tail(uiq)
        /\ s \in AppStates /\ s.rev \in Nat /\ override \in Routes \cup {"none"}
    <2>1. uiq # <<>> /\ uiq' = Tail(uiq) /\ uiq \in Seq(AppStates)
      BY ScreenTypes DEF WindowDraws
    <2>2. s \in AppStates
      BY <2>1, TailParts
    <2>3. \A x \in AppStates : x.rev \in Nat
      BY DEF AppStates
    <2> HIDE DEF s
    <2>4. s.rev \in Nat
      BY <2>2, <2>3
    <2>5. override \in Routes \cup {"none"}
      BY DEF TypeOK
    <2> QED
      BY <2>1, <2>2, <2>4, <2>5, ScreenTypes
  <1>1. /\ CoreAgrees /\ Flow(updates, listener.latest, uiq, local.rev, shared) /\ Drawn /\ Astray
        /\ local.rev = shared.rev => Alike(local, shared)
    BY DEF Screen
  <1>2. UNCHANGED <<core, shared, updates, listener, fg, panicked>>
    BY DEF WindowDraws, coreVars
  <1>3. /\ s.rev <= local.rev => Flow(updates, listener.latest, Tail(uiq), local.rev, shared)
        /\ s.rev > local.rev => Flow(updates, listener.latest, Tail(uiq), s.rev, shared)
        /\ s.rev > local.rev /\ s.rev = shared.rev => s = shared
    BY <1>0, <1>1, FlowDraws
  <1>4. Elements(uiq) = {s} \cup Elements(uiq')
    BY <1>0, ElementsTail
  <1> HIDE DEF s
  <1>5. CASE WindowAccepts
    <2>1. /\ s.rev > local.rev /\ window' = local'
          /\ \/ local' = s /\ override' = "none"
             \/ /\ local' = [s EXCEPT !.route = override] /\ override' = override
                /\ override # "none" /\ s.account # NoAccount
      BY <1>5 DEF WindowAccepts, Settled, s
    <2>2. local'.rev = s.rev /\ local'.account = s.account /\ local'.news = s.news /\ local'.toast = s.toast
      BY <1>0, <2>1 DEF AppStates
    <2>3. Drawn'
      BY <2>1 DEF Drawn, Alike
    <2>4. local'.rev = shared.rev => s = shared
      BY <1>3, <2>1, <2>2
    <2>5. Astray'
      BY <1>2, <2>1, <2>2, <2>4 DEF Astray
    <2>6. local'.rev = shared.rev => Alike(local', shared)
      BY <2>2, <2>4 DEF Alike
    <2>7. Flow(updates, listener.latest, uiq', local'.rev, shared)
      BY <1>0, <1>3, <2>1, <2>2
    <2> QED
      BY <1>1, <1>2, <2>3, <2>5, <2>6, <2>7 DEF Screen, CoreAgrees
  <1>6. CASE WindowKeeps
    <2>1. /\ s.rev <= local.rev /\ UNCHANGED <<local, override>>
          /\ IF s.rev = local.rev /\ s.route = local.route /\ local.rev >= window.rev
             THEN window' = local ELSE window' = window
      BY <1>6 DEF WindowKeeps, s
    <2>2. window.rev = local.rev
      BY <1>1 DEF Drawn, Alike
    <2>3. CASE window' = local
      <3>1. Drawn'
        BY <2>1, <2>3 DEF Drawn, Alike
      <3> QED
        BY <1>0, <1>1, <1>2, <1>3, <2>1, <3>1 DEF Screen, CoreAgrees, Astray
    <2>4. CASE window' # local
      <3>1. window' = window /\ ~(s.rev = local.rev /\ s.route = local.route)
        BY <1>0, <2>1, <2>2, <2>4
      <3>2. Drawn'
        BY <1>1, <1>4, <2>1, <2>4, <3>1 DEF Drawn, Alike
      <3> QED
        BY <1>0, <1>1, <1>2, <1>3, <2>1, <3>2 DEF Screen, CoreAgrees, Astray
    <2> QED
      BY <2>3, <2>4
  <1> QED
    BY <1>5, <1>6 DEF WindowDraws

LEMMA ScreenRelaunch ==
    ASSUME TypeOK, ~panicked, NEW ok \in BOOLEAN, Relaunch(ok)
    PROVE  Screen'
  <1> DEFINE s == OpenState(ok)
             us == updates'
  <1>1. s \in AppStates
    BY EmptyType
  <1>2. /\ core'.state = s /\ shared' = s /\ local' = s /\ window' = s
        /\ us = (IF ok THEN <<>> ELSE <<Full(s)>>)
        /\ listener'.latest = <<>> /\ uiq' = <<>>
    BY DEF Relaunch
  <1> HIDE DEF s
  <1>3. RisingUpdates(us) /\ States(us) \subseteq {s}
    <2>1. CASE us = <<>>
      BY <2>1, NothingFlows DEF RisingUpdates
    <2>2. CASE us = <<Full(s)>>
      <3>1. Len(us) = 1 /\ us[1].state = s
        BY <2>2 DEF Full
      <3>2. \A i \in 1..Len(us) : i = 1
        BY <3>1
      <3>3. ~(1 < 1)
        OBVIOUS
      <3> HIDE DEF us
      <3> QED
        BY <3>1, <3>2, <3>3 DEF RisingUpdates, States
    <2> QED
      BY <1>2, <2>1, <2>2
  <1>4. Elements(<<>>) = {} /\ RisingQueue(<<>>, s.rev)
    BY NothingFlows DEF RisingQueue
  <1>5. s.rev \in Nat /\ s.rev <= s.rev /\ ~(s.rev < s.rev)
    BY <1>1 DEF AppStates
  <1>6. Flow(us, <<>>, <<>>, s.rev, s)
    BY <1>3, <1>4, <1>5 DEF Flow
  <1>7. Flow(updates', listener'.latest, uiq', local'.rev, shared')
    BY <1>2, <1>6
  <1>8. CoreAgrees' /\ Drawn' /\ Astray' /\ (local'.rev = shared'.rev => Alike(local', shared'))
    BY <1>2 DEF CoreAgrees, Drawn, Alike, Astray
  <1> QED
    BY <1>7, <1>8 DEF Screen

\* As long as no core was rebuilt, a screen that has nothing left to draw shows
\* what the core last published: on their way the states keep the order of their
\* numbers and the newest is never dropped (Flow), the shell makes states of its
\* own only at the number it has (Drawn), and what it is led away by is handled or
\* overruled by the core (Astray).
THEOREM QuietScreen == Spec => []QuietScreenIsTrue
  <1>1. Init => Screen
    <2> SUFFICES ASSUME Init PROVE Screen
      OBVIOUS
    <2>1. Empty.rev = 0
      BY DEF Empty
    <2>2. States(<<>>) = {} /\ Elements(<<>>) = {} /\ RisingUpdates(<<>>) /\ RisingQueue(<<>>, 0)
      BY NothingFlows DEF RisingUpdates, RisingQueue
    <2>3. Flow(<<>>, <<>>, <<>>, 0, Empty)
      BY <2>1, <2>2 DEF Flow
    <2>4. /\ core.state = Empty /\ shared = Empty /\ local = Empty /\ window = Empty
          /\ updates = <<>> /\ uiq = <<>> /\ listener.latest = <<>>
      BY DEF Init
    <2> QED
      BY <2>1, <2>3, <2>4 DEF Screen, CoreAgrees, Drawn, Alike, Astray
  <1>2. TypeOK /\ Screen /\ [Next]_vars => Screen'
    <2> SUFFICES ASSUME TypeOK, Screen, [Next]_vars, ~panicked' PROVE Screen'
      BY DEF Screen
    <2>1. CASE UNCHANGED vars
      BY <2>1 DEF Screen, CoreAgrees, Drawn, Astray, vars, coreVars, uiVars
    <2>2. ASSUME NEW k \in 1..Len(fg), CorePanics(k) PROVE FALSE
      BY <2>2 DEF CorePanics
    <2>3. ~CorePanicsIdle
      BY DEF CorePanicsIdle
    <2>4. CASE User
      <3>1. ~panicked
        BY <2>4 DEF User, UserLogsIn, UserLogsOut, UserDeletes, UserNavigates
      <3> QED
        BY <2>4, <3>1, ScreenUser
    <2>5. CASE CoreHandles \/ CoreHears
      <3>1. ~panicked
        BY <2>5 DEF CoreHandles, CoreHears
      <3> QED
        BY <2>5, <3>1, ScreenCore
    <2>6. CASE Listener
      <3>1. ~panicked
        BY <2>6 DEF Listener, ListenerTakes, ListenerTurns, ListenerStores, ListenerForwards
      <3> QED
        BY <2>6, <3>1, ScreenListener
    <2>7. CASE WindowDraws
      <3>1. ~panicked
        BY <2>7 DEF WindowDraws
      <3> QED
        BY <2>7, <3>1, ScreenWindow
    <2>8. ASSUME NEW ok \in BOOLEAN, Relaunch(ok) PROVE Screen'
      <3>1. ~panicked
        BY <2>8 DEF Relaunch
      <3> QED
        BY <2>8, <3>1, ScreenRelaunch
    <2> QED
      BY <2>1, <2>2, <2>3, <2>4, <2>5, <2>6, <2>7, <2>8 DEF Next
  <1>3. TypeOK /\ Screen => QuietScreenIsTrue
    <2> SUFFICES ASSUME TypeOK, Screen, Quiet, ~panicked
                 PROVE  /\ window = local
                        /\ [local EXCEPT !.route = shared.route] = shared
                        /\ override = "none" => local.route = shared.route
      BY DEF QuietScreenIsTrue
    <2>0. local \in AppStates /\ shared \in AppStates /\ local.rev \in Nat /\ shared.rev \in Nat
      BY ScreenTypes
    <2>1. /\ fg = <<>> /\ States(updates) = {} /\ Elements(listener.latest) = {} /\ Elements(uiq) = {}
      BY NothingFlows DEF Quiet, Idle
    <2>2. Flow(updates, listener.latest, uiq, local.rev, shared) /\ Drawn /\ Astray
          /\ (local.rev = shared.rev => Alike(local, shared))
      BY DEF Screen
    <2>3. local.rev = shared.rev
      BY <2>0, <2>1, <2>2 DEF Flow
    <2>4. window = local
      BY <2>1, <2>2 DEF Drawn
    <2>5. \A i \in 1..Len(fg) : FALSE
      BY <2>1
    <2>6. override = "none" => local.route = shared.route
      BY <2>2, <2>3, <2>5 DEF Astray
    <2>7. Alike(local, shared)
      BY <2>2, <2>3
    <2>8. [local EXCEPT !.route = shared.route] = shared
      BY <2>0, <2>7 DEF Alike, AppStates
    <2> QED
      BY <2>4, <2>6, <2>8
  <1> QED
    BY <1>1, <1>2, <1>3, ShellTypeCorrect, PTL DEF Spec

-----------------------------------------------------------------------------
(* What the supervisor remembers.  Once the listener has taken all updates,  *)
(* it remembers the account that the core is logged in to, or a key that is *)
(* none, which the replay reports.                                          *)

\* What r will have become once the updates are taken is a, or else a typo.
Remembers(us, r, a) ==
    /\ \A i \in 1..Len(us) :
         us[i].who \in {NoAccount, a} \/ \E j \in 1..Len(us) : i < j /\ us[j].who = a
    /\ r \in {a, Typo} \/ \E j \in 1..Len(us) : us[j].who = a

\* Actions that neither change the account nor what is remembered of it.
Harmless(q) == \A i \in 1..Len(q) : q[i].kind = "go" \/ q[i].who = Typo

Replayable ==
    core.state.account # NoAccount /\ Harmless(fg)
        => Remembers(updates, restore, core.state.account)

LEMMA RemembersState ==
    ASSUME NEW us \in Seq(Updates), NEW r, NEW a, Remembers(us, r, a), NEW s \in AppStates
    PROVE  Remembers(Append(us, Full(s)), r, a)
  <1> DEFINE vs == Append(us, Full(s))
             n == Len(us)
  <1>1. Full(s) \in Updates /\ Full(s).who = NoAccount
    BY FullType
  <1>2. /\ Len(vs) = n + 1 /\ vs[n + 1].who = NoAccount
        /\ \A i \in 1..n : vs[i] = us[i] /\ i \in 1..n + 1
        /\ \A i \in 1..n + 1 : i \in 1..n \/ i = n + 1
    BY <1>1, AppendParts
  <1> HIDE DEF vs, n
  <1> QED
    BY <1>2 DEF Remembers, vs, n

LEMMA RemembersBundle ==
    ASSUME NEW us \in Seq(Updates), NEW r, NEW a \in Accounts
    PROVE  /\ us \o <<Bundle(a)>> \in Seq(Updates)
           /\ Remembers(us \o <<Bundle(a)>>, r, a)
  <1> DEFINE vs == Append(us, Bundle(a))
             n == Len(us)
  <1>1. Bundle(a) \in Updates /\ Bundle(a).who = a
    BY BundleType
  <1>2. us \o <<Bundle(a)>> = vs
    BY <1>1, AppendIsConcat
  <1>3. /\ vs \in Seq(Updates) /\ Len(vs) = n + 1 /\ vs[n + 1].who = a
        /\ \A i \in 1..n : i < n + 1
        /\ \A i \in 1..n + 1 : i \in 1..n \/ i = n + 1
        /\ n + 1 \in 1..n + 1
    BY <1>1, AppendParts
  <1> HIDE DEF vs, n
  <1> QED
    BY <1>2, <1>3 DEF Remembers

LEMMA RemembersTail ==
    ASSUME NEW us \in Seq(Updates), us # <<>>, NEW r, NEW a, a # NoAccount, Remembers(us, r, a)
    PROVE  Remembers(Tail(us), IF Head(us).who # NoAccount THEN Head(us).who ELSE r, a)
  <1> DEFINE vs == Tail(us)
             h == Head(us)
  <1>1. /\ h = us[1] /\ 1 \in 1..Len(us)
        /\ \A i \in 1..Len(vs) : i + 1 \in 1..Len(us) /\ vs[i] = us[i + 1]
        /\ \A i \in 1..Len(us) : i = 1 \/ (i - 1 \in 1..Len(vs) /\ us[i] = vs[i - 1])
        /\ \A i \in 1..Len(vs) : \A j \in 1..Len(us) : i + 1 < j => i < j - 1 /\ j # 1
        /\ \A j \in 1..Len(us) : 1 < j => j # 1
    BY TailParts
  <1> HIDE DEF vs, h
  <1>2. ASSUME NEW i \in 1..Len(vs), vs[i].who \notin {NoAccount, a}
        PROVE  \E j \in 1..Len(vs) : i < j /\ vs[j].who = a
    <2>1. PICK j \in 1..Len(us) : i + 1 < j /\ us[j].who = a
      BY <1>1, <1>2 DEF Remembers
    <2>2. j - 1 \in 1..Len(vs) /\ vs[j - 1].who = a /\ i < j - 1
      BY <1>1, <2>1
    <2> QED
      BY <2>2
  <1>3. (IF h.who # NoAccount THEN h.who ELSE r) \in {a, Typo} \/ \E j \in 1..Len(vs) : vs[j].who = a
    <2>1. CASE h.who = a /\ h.who # NoAccount
      BY <2>1
    <2>2. CASE h.who \notin {NoAccount, a}
      <3>1. PICK j \in 1..Len(us) : 1 < j /\ us[j].who = a
        BY <1>1, <2>2 DEF Remembers
      <3>2. j - 1 \in 1..Len(vs) /\ vs[j - 1].who = a
        BY <1>1, <3>1
      <3> QED
        BY <3>2
    <2>3. CASE h.who = NoAccount
      <3>1. CASE r \in {a, Typo}
        BY <2>3, <3>1
      <3>2. ASSUME NEW j \in 1..Len(us), us[j].who = a PROVE <1>3
        <4>1. j - 1 \in 1..Len(vs) /\ vs[j - 1].who = a
          BY <1>1, <2>3, <3>2
        <4> QED
          BY <4>1
      <3> QED
        BY <2>3, <3>1, <3>2 DEF Remembers
    <2> QED
      BY <2>1, <2>2, <2>3
  <1> QED
    BY <1>2, <1>3 DEF Remembers, vs, h

\* What a batch does to the account and to the updates.
LEMMA BatchSends ==
    ASSUME TypeOK, NEW bundles \in Seq(Updates), NEW s \in AppStates, NEW e \in BOOLEAN,
           EndBatch(bundles, s, e)
    PROVE  /\ core'.state.account = s.account
           /\ \/ updates' = updates \o bundles
              \/ \E t \in AppStates : updates' = Append(updates \o bundles, Full(t))
  <1> DEFINE t == [s EXCEPT !.rev = @ + 1]
  <1>1. core \in CoreType
    BY DEF TypeOK, CoreType
  <1>2. t \in AppStates /\ t.account = s.account
    BY DEF AppStates
  <1> HIDE DEF t
  <1>3. \/ core' = [core EXCEPT !.state = s] /\ updates' = updates \o bundles
        \/ /\ core' = [core EXCEPT !.state = t, !.emitted = TRUE]
           /\ updates' = Append(updates \o bundles, Full(t))
    BY DEF EndBatch, t
  <1> QED
    BY <1>1, <1>2, <1>3 DEF CoreType

LEMMA ReplayRecover ==
    ASSUME TypeOK, NEW sent \in Seq(Updates), Recover(sent), core'.state.account # NoAccount
    PROVE  Remembers(updates', restore, core'.state.account)
  <1> DEFINE us == updates \o sent
             start(ok) == IF ok THEN [Empty EXCEPT !.rev = 1, !.account = restore]
                          ELSE [Empty EXCEPT !.rev = 1, !.toast = TRUE]
  <1>1. restore \in Accounts \cup {NoAccount, Typo} /\ us \in Seq(Updates)
    BY SentType DEF TypeOK
  <1>2. Empty.account = NoAccount /\ OpenState(FALSE).account = NoAccount
    BY DEF Empty, OpenState
  <1>3. ASSUME NEW b, NEW f, NEW s, core' = [alive |-> b, emitted |-> f, state |-> s]
        PROVE  core'.state = s
    BY <1>3
  <1>4. \/ \E b \in BOOLEAN, s \in {Empty, OpenState(FALSE)} :
             core' = [alive |-> b, emitted |-> FALSE, state |-> s]
        \/ /\ restore # NoAccount
           /\ \E ok \in BOOLEAN :
                /\ ok => restore # Typo
                /\ core' = [alive |-> TRUE, emitted |-> TRUE, state |-> start(ok)]
                /\ updates' = us \o (IF ok THEN <<Bundle(restore)>> ELSE <<>>) \o <<Full(start(ok))>>
    BY Zenon DEF Recover
  <1>5. ~ \E b \in BOOLEAN, s \in {Empty, OpenState(FALSE)} :
             core' = [alive |-> b, emitted |-> FALSE, state |-> s]
    BY <1>2, <1>3
  <1>6. PICK ok \in BOOLEAN :
          /\ restore # NoAccount /\ (ok => restore # Typo)
          /\ core' = [alive |-> TRUE, emitted |-> TRUE, state |-> start(ok)]
          /\ updates' = us \o (IF ok THEN <<Bundle(restore)>> ELSE <<>>) \o <<Full(start(ok))>>
    BY <1>4, <1>5
  <1>7. core'.state = start(ok)
    BY <1>3, <1>6
  <1>8. ok
    BY <1>2, <1>7 DEF Empty
  <1> DEFINE s == [Empty EXCEPT !.rev = 1, !.account = restore]
             vs == us \o <<Bundle(restore)>>
  <1>9. /\ restore \in Accounts /\ start(ok) = s
        /\ s \in AppStates /\ s.account = restore /\ core'.state.account = restore
    BY <1>1, <1>6, <1>7, <1>8, EmptyType DEF AppStates
  <1>10. updates' = vs \o <<Full(s)>>
    BY <1>6, <1>8, <1>9
  <1>11. vs \in Seq(Updates) /\ Remembers(vs, restore, restore)
    <2> HIDE DEF us
    <2> QED
      BY <1>1, <1>9, RemembersBundle
  <1> HIDE DEF us, vs, s
  <1>12. Full(s) \in Updates /\ vs \o <<Full(s)>> = Append(vs, Full(s))
    BY <1>9, <1>11, FullType, AppendIsConcat
  <1> QED
    BY <1>9, <1>10, <1>11, <1>12, RemembersState

LEMMA ReplayCore ==
    ASSUME TypeOK, Replayable,
           CoreHandles \/ CoreHears \/ CorePanicsIdle \/ \E k \in 1..Len(fg) : CorePanics(k)
    PROVE  Replayable'
  <1> DEFINE m == Head(fg)
             a == core.state.account
             Goal == core'.state.account # NoAccount /\ Harmless(fg')
                       => Remembers(updates', restore, core'.state.account)
  <1>0. /\ core \in CoreType /\ core.state \in AppStates /\ core.emitted \in BOOLEAN
        /\ fg \in Seq(Actions) /\ updates \in Seq(Updates)
        /\ updates \o <<>> = updates /\ <<>> \in Seq(Updates)
    BY DEF TypeOK, CoreType
  <1>1. UNCHANGED restore
    BY DEF CoreHandles, CoreHears, CorePanicsIdle, CorePanics
  <1>2. ASSUME NEW s \in AppStates, s.account = a, EndBatch(<<>>, s, core.emitted),
               Harmless(fg') => Harmless(fg)
        PROVE  Goal
    <2>1. /\ core'.state.account = a
          /\ \/ updates' = updates
             \/ \E t \in AppStates : updates' = Append(updates, Full(t))
      BY <1>0, <1>2, BatchSends
    <2> QED
      BY <1>0, <1>2, <2>1, RemembersState DEF Replayable
  <1>3. ASSUME NEW s \in AppStates, s.account = NoAccount, NEW e \in BOOLEAN, EndBatch(<<>>, s, e)
        PROVE  Goal
    BY <1>0, <1>3, BatchSends
  <1>4. ASSUME CoreLogsIn(m), m \in Actions, m.kind \in Logins, m.who = Typo => (Harmless(fg') => Harmless(fg))
        PROVE  Goal
    <2>1. CASE m.who = Typo /\ EndBatch(<<>>, [core.state EXCEPT !.toast = TRUE], core.emitted)
      <3>1. [core.state EXCEPT !.toast = TRUE] \in AppStates
            /\ [core.state EXCEPT !.toast = TRUE].account = core.state.account
        BY <1>0 DEF AppStates
      <3> QED
        BY <1>2, <1>4, <2>1, <3>1
    <2>2. CASE m.who # Typo /\ EndBatch(<<Bundle(m.who)>>, Started(core.state, m.who), core.emitted)
      <3>1. m.who \in Accounts
        BY <1>4, <2>2 DEF Actions, Logins
      <3>2. Started(core.state, m.who) \in AppStates /\ Started(core.state, m.who).account = m.who
        BY <1>0, <3>1 DEF Started, AppStates, Routes
      <3>3. /\ updates \o <<Bundle(m.who)>> \in Seq(Updates)
            /\ Remembers(updates \o <<Bundle(m.who)>>, restore, m.who)
        BY <1>0, <3>1, RemembersBundle
      <3>4. <<Bundle(m.who)>> \in Seq(Updates)
        BY <3>1, BundleType
      <3>5. /\ core'.state.account = m.who
            /\ \/ updates' = updates \o <<Bundle(m.who)>>
               \/ \E t \in AppStates : updates' = Append(updates \o <<Bundle(m.who)>>, Full(t))
        BY <1>0, <2>2, <3>2, <3>4, BatchSends
      <3>6. Remembers(updates', restore, m.who)
        <4> DEFINE vs == updates \o <<Bundle(m.who)>>
        <4> HIDE DEF vs
        <4>1. vs \in Seq(Updates) /\ Remembers(vs, restore, m.who)
          BY <3>3 DEF vs
        <4>2. updates' = vs \/ \E t \in AppStates : updates' = Append(vs, Full(t))
          BY <3>5 DEF vs
        <4> QED
          BY <4>1, <4>2, RemembersState
      <3> QED
        BY <3>5, <3>6
    <2>3. CASE EndBatch(<<>>, Failed(core.state), core.emitted)
      <3>1. Failed(core.state) \in AppStates /\ Failed(core.state).account = NoAccount
        BY <1>0 DEF Failed, AppStates, Routes
      <3> QED
        BY <1>0, <1>3, <2>3, <3>1
    <2> QED
      BY <1>4, <2>1, <2>2, <2>3 DEF CoreLogsIn
  <1>5. ASSUME CoreLogsOut PROVE Goal
    <2>1. [Empty EXCEPT !.rev = core.state.rev] \in AppStates
          /\ [Empty EXCEPT !.rev = core.state.rev].account = NoAccount
      BY <1>0, EmptyType DEF AppStates, Empty
    <2> QED
      BY <1>3, <1>5, <2>1 DEF CoreLogsOut
  <1>6. ASSUME CoreGoes(m.route), m.route \in Routes, Harmless(fg') => Harmless(fg) PROVE Goal
    <2> DEFINE s == [core.state EXCEPT !.toast = FALSE]
    <2>1. /\ s \in AppStates /\ s.account = core.state.account
          /\ [s EXCEPT !.route = m.route] \in AppStates
          /\ [s EXCEPT !.route = m.route].account = core.state.account
          /\ [s EXCEPT !.toast = TRUE] \in AppStates
          /\ [s EXCEPT !.toast = TRUE].account = core.state.account
      BY <1>0, <1>6 DEF AppStates
    <2>2. \/ EndBatch(<<>>, [s EXCEPT !.route = m.route], core.emitted)
          \/ core' = [core EXCEPT !.state = s] /\ updates' = updates
          \/ EndBatch(<<>>, [s EXCEPT !.toast = TRUE], core.emitted)
      BY <1>6 DEF CoreGoes
    <2>3. CASE core' = [core EXCEPT !.state = s] /\ updates' = updates
      <3>1. core'.state.account = core.state.account
        BY <1>0, <2>1, <2>3 DEF CoreType
      <3> QED
        BY <1>6, <2>3, <3>1 DEF Replayable
    <2> HIDE DEF s
    <2> QED
      BY <1>2, <1>6, <2>1, <2>2, <2>3
  <1>7. ASSUME CoreHandles PROVE Goal
    <2>1. m \in Actions /\ m.route \in Routes
      BY <1>0, <1>7, TailType DEF CoreHandles, Actions, Routes
    <2>2. m.kind = "go" \/ m.who = Typo => (Harmless(fg') => Harmless(fg))
      <3>1. /\ fg' = Tail(fg) /\ m = fg[1]
            /\ \A i \in 1..Len(fg) : i = 1 \/ (i - 1 \in 1..Len(Tail(fg)) /\ fg[i] = Tail(fg)[i - 1])
        BY <1>0, <1>7, TailParts DEF CoreHandles
      <3> QED
        BY <3>1 DEF Harmless
    <2> QED
      BY <1>4, <1>5, <1>6, <1>7, <2>1, <2>2 DEF CoreHandles
  <1>8. ASSUME CoreHears PROVE Goal
    <2>1. [core.state EXCEPT !.news = ~@] \in AppStates
          /\ [core.state EXCEPT !.news = ~@].account = core.state.account
      BY <1>0 DEF AppStates
    <2> QED
      BY <1>2, <1>8, <2>1 DEF CoreHears
  <1>9. ASSUME CorePanicsIdle PROVE Goal
    BY <1>0, <1>9, ReplayRecover DEF CorePanicsIdle
  <1>10. ASSUME NEW k \in 1..Len(fg), CorePanics(k) PROVE Goal
    <2>1. m \in Actions
      BY <1>0, <1>10, TailType DEF CorePanics
    <2>2. m.kind \in Logins /\ m.who # Typo => <<Bundle(m.who)>> \in Seq(Updates)
      BY <2>1, BundleType DEF Actions, Logins
    <2>3. \E sent \in Seq(Updates) : Recover(sent)
      BY <1>0, <1>10, <2>2 DEF CorePanics
    <2> QED
      BY <2>3, ReplayRecover
  <1> QED
    BY <1>1, <1>7, <1>8, <1>9, <1>10 DEF Replayable

LEMMA ReplayUser ==
    ASSUME TypeOK, Replayable, User
    PROVE  Replayable'
  <1>0. fg \in Seq(Actions)
    BY DEF TypeOK
  <1>1. UNCHANGED <<core, updates>>
    BY DEF User, UserLogsIn, UserLogsOut, UserDeletes, UserNavigates, coreVars
  <1>2. ASSUME NEW m \in Actions, Dispatch(m), m.kind = "restore" \/ m.who = NoAccount,
               m.kind = "go" \/ m.who = Typo
        PROVE  Replayable'
    <2>1. Harmless(fg') => Harmless(fg)
      <3>1. /\ Len(Append(fg, m)) = Len(fg) + 1 /\ fg' = Append(fg, m)
            /\ \A i \in 1..Len(fg) : i \in 1..Len(fg) + 1 /\ Append(fg, m)[i] = fg[i]
        BY <1>0, <1>2, AppendParts DEF Dispatch
      <3> QED
        BY <3>1 DEF Harmless
    <2>2. restore' = restore \/ restore' = Typo
      BY <1>2, AccountAssumption DEF Dispatch
    <2> QED
      BY <1>1, <2>1, <2>2 DEF Replayable, Remembers
  <1>3. ASSUME NEW m \in Actions, Dispatch(m), m.kind # "go", m.who # Typo
        PROVE  Replayable'
    <2>1. /\ fg' = Append(fg, m) /\ Append(fg, m)[Len(fg) + 1] = m
          /\ Len(Append(fg, m)) = Len(fg) + 1 /\ Len(fg) + 1 \in 1..Len(fg) + 1
      BY <1>0, <1>3, AppendParts DEF Dispatch
    <2>2. ~Harmless(fg')
      BY <1>3, <2>1 DEF Harmless
    <2> QED
      BY <2>2 DEF Replayable
  <1>4. ASSUME NEW kind \in {"create", "restore"}, NEW a \in Accounts \cup {Typo},
               UserLogsIn(kind, a)
        PROVE  Replayable'
    <2> DEFINE m == Login(kind, a)
    <2>1. /\ m \in Actions /\ m.kind = kind /\ m.who = a /\ m.kind # "go" /\ Dispatch(m)
          /\ a = Typo => kind = "restore"
      BY <1>4, ActionTypes, AccountAssumption DEF UserLogsIn, Logins
    <2> HIDE DEF m
    <2> QED
      BY <1>2, <1>3, <2>1
  <1>5. ASSUME UserLogsOut \/ UserDeletes PROVE Replayable'
    <2>1. Logout \in Actions /\ Logout.kind # "go" /\ Logout.who # Typo /\ Dispatch(Logout)
      BY <1>5, ActionTypes, AccountAssumption DEF Logout, UserLogsOut, UserDeletes
    <2> QED
      BY <1>3, <2>1
  <1>6. ASSUME NEW r \in Routes, UserNavigates(r) PROVE Replayable'
    <2>1. Go(r) \in Actions /\ Go(r).kind = "go" /\ Go(r).who = NoAccount /\ Dispatch(Go(r))
      BY <1>6, ActionTypes DEF Go, UserNavigates
    <2> QED
      BY <1>2, <2>1
  <1> QED
    BY <1>4, <1>5, <1>6 DEF User

LEMMA ReplayRest ==
    ASSUME TypeOK, Replayable, Listener \/ WindowDraws \/ \E ok \in BOOLEAN : Relaunch(ok)
    PROVE  Replayable'
  <1>1. CASE ListenerTakes
    <2>1. /\ updates \in Seq(Updates) /\ updates # <<>> /\ updates' = Tail(updates)
          /\ restore' = IF Head(updates).who # NoAccount THEN Head(updates).who ELSE restore
          /\ UNCHANGED <<core, fg>>
      BY <1>1 DEF ListenerTakes, TypeOK
    <2> QED
      BY <2>1, RemembersTail DEF Replayable
  <1>2. CASE ListenerTurns \/ ListenerStores \/ ListenerForwards \/ WindowDraws
    <2>1. UNCHANGED <<core, fg, restore, updates>>
      BY <1>2 DEF ListenerTurns, ListenerStores, ListenerForwards, WindowDraws, coreVars
    <2> QED
      BY <2>1 DEF Replayable
  <1>3. ASSUME NEW ok \in BOOLEAN, Relaunch(ok) PROVE Replayable'
    <2>1. core'.state = OpenState(ok) /\ OpenState(ok).account = NoAccount
      BY <1>3 DEF Relaunch, OpenState, Empty
    <2> QED
      BY <2>1 DEF Replayable
  <1> QED
    BY <1>1, <1>2, <1>3 DEF Listener

\* A panic of background work does not log the user out (recover_core_after_panic):
\* what the supervisor replays is what the core was logged in to, however logins,
\* logouts and their bundles came and went before.
THEOREM PanicSurvived == Spec => SurvivesPanic
  <1>1. Init => Replayable
    BY DEF Init, Replayable, Empty
  <1>2. TypeOK /\ Replayable /\ [Next]_vars => Replayable'
    <2> SUFFICES ASSUME TypeOK, Replayable, [Next]_vars PROVE Replayable'
      OBVIOUS
    <2>1. CASE UNCHANGED vars
      BY <2>1 DEF Replayable, vars, coreVars
    <2> QED
      BY <2>1, ReplayUser, ReplayCore, ReplayRest DEF Next
  <1>3. TypeOK /\ Replayable =>
          [CorePanicsIdle /\ core.state.account # NoAccount /\ fg = <<>> /\ updates = <<>> /\ Idle =>
             core'.state.account = core.state.account \/ core'.state.toast \/ ~core'.alive]_vars
    <2> SUFFICES ASSUME TypeOK, Replayable, CorePanicsIdle, core.state.account # NoAccount,
                        fg = <<>>, updates = <<>>
                 PROVE  core'.state.account = core.state.account \/ core'.state.toast \/ ~core'.alive
      OBVIOUS
    <2>1. \A i \in 1..Len(<<>>) : FALSE
      OBVIOUS
    <2>2. restore \in {core.state.account, Typo} /\ restore # NoAccount
      BY <2>1, AccountAssumption DEF Replayable, Harmless, Remembers
    <2>3. Recover(<<>>)
      BY DEF CorePanicsIdle
    <2> DEFINE start(ok) == IF ok THEN [Empty EXCEPT !.rev = 1, !.account = restore]
                            ELSE [Empty EXCEPT !.rev = 1, !.toast = TRUE]
    <2>4. \/ \E s : core' = [alive |-> FALSE, emitted |-> FALSE, state |-> s]
          \/ \E ok \in BOOLEAN : /\ ok => restore # Typo
                                 /\ core' = [alive |-> TRUE, emitted |-> TRUE, state |-> start(ok)]
      BY <2>2, <2>3, Zenon DEF Recover
    <2>5. CASE \E s : core' = [alive |-> FALSE, emitted |-> FALSE, state |-> s]
      BY <2>5
    <2>6. ASSUME NEW ok \in BOOLEAN, ok => restore # Typo,
                 core' = [alive |-> TRUE, emitted |-> TRUE, state |-> start(ok)]
          PROVE  core'.state.account = core.state.account \/ core'.state.toast
      <3>1. core'.state = start(ok)
        BY <2>6
      <3>2. CASE ok
        BY <2>2, <2>6, <3>1, <3>2 DEF Empty
      <3>3. CASE ~ok
        BY <3>1, <3>3 DEF Empty
      <3> QED
        BY <3>2, <3>3
    <2> QED
      BY <2>4, <2>5, <2>6
  <1> QED
    BY <1>1, <1>2, <1>3, ShellTypeCorrect, PTL DEF Spec, SurvivesPanic
=============================================================================
