----------------------------- MODULE ActorShell -----------------------------
(***************************************************************************)
(* How the core and a native shell (the Linux one) keep each other up to    *)
(* date.  Three threads share four channels:                               *)
(*                                                                         *)
(*   window  -- dispatch -->  core actor  -- updates -->  listener          *)
(*      ^------------------ the window's queue --------------'             *)
(*                                                                         *)
(* The actor answers an action with account bundles, which the listener    *)
(* writes to the secret store, and with full states, which the listener    *)
(* hands to the window, the latest of a burst only.  The window navigates  *)
(* before the core has answered, and drops states that are not newer than  *)
(* its own.  When a batch panics a supervisor builds a new core, which     *)
(* starts counting its states from zero, and replays the last login it     *)
(* remembers.  What the states hold is abstract: the account, the screen   *)
(* on top, one bit of news, and whether there is an error to show.          *)
(***************************************************************************)
EXTENDS Integers, Sequences

CONSTANTS
    Accounts,    \* identities, each with its secret keys
    NoAccount,
    Typo,        \* what a user may type for a secret key that is none
    Chats,       \* screens of chats
    Failures,    \* what may fail: "start" of a session, "open" of the data
                 \* directory, "chats" that are gone
    Panics,      \* where the core may panic: in a "batch", once; in the "replay"
    MaxInputs    \* bound on what the user and the network do

ASSUME AccountAssumption ==
    /\ NoAccount \notin Accounts /\ Typo \notin Accounts \cup {NoAccount}
    /\ {"home", "form", "none"} \cap Chats = {}
    /\ MaxInputs \in Nat

Routes == {"home", "form"} \cup Chats

VARIABLES
    core,     \* the actor: [alive, emitted, state]; emitted: last_emitted_state is set
    shared,   \* shared_state
    fg,       \* the actor's foreground queue
    restore,  \* recovery.restore_action
    updates,  \* the actor's updates
    listener, \* the updates the listener holds: [busy, before, latest]; busy
              \* once it has drained them and until it has delivered them
    secrets,  \* the stored account bundle
    uiq,      \* the window's queue
    local,    \* the shell's state, at last_rev_applied
    window,   \* what the window shows
    override, \* pending_navigation_override
    pressed,  \* the login button is insensitive
    boot,     \* bootstrap_in_flight
    panicked, \* history: the core was rebuilt
    left,     \* history: the user logged out, with no login on its way, and
              \* has not logged in since
    kept,     \* history: the accounts whose keys have been written
    inputs    \* inputs so far

uiVars == <<local, window, override, pressed, boot>>
coreVars == <<core, shared, updates>>
vars == <<coreVars, fg, restore, listener, secrets, uiq, uiVars, panicked, left, kept, inputs>>

AppStates == [rev : Nat, account : Accounts \cup {NoAccount}, route : Routes,
              news : BOOLEAN, toast : BOOLEAN]
Empty == [rev |-> 0, account |-> NoAccount, route |-> "home", news |-> FALSE, toast |-> FALSE]

\* An update is a bundle to store (PersistAccountBundle) or a state (FullState).
Updates == [who : Accounts \cup {NoAccount}, state : AppStates]
Bundle(a) == [who |-> a, state |-> Empty]
Full(s) == [who |-> NoAccount, state |-> s]

Logins == {"create", "restore", "bundle"}
Actions == [kind : Logins, who : Accounts \cup {Typo}, route : {"home"}]
           \cup [kind : {"logout", "go"}, who : {NoAccount}, route : Routes]
Login(kind, a) == [kind |-> kind, who |-> a, route |-> "home"]
Go(r) == [kind |-> "go", who |-> NoAccount, route |-> r]
Logout == [kind |-> "logout", who |-> NoAccount, route |-> "home"]

\* The types of the variables.  The listener holds one state at most, and
\* something as long as it delivers.
TypeOK ==
    /\ core \in [alive : BOOLEAN, emitted : BOOLEAN, state : AppStates]
    /\ shared \in AppStates /\ local \in AppStates /\ window \in AppStates
    /\ fg \in Seq(Actions) /\ updates \in Seq(Updates) /\ uiq \in Seq(AppStates)
    /\ restore \in Accounts \cup {NoAccount, Typo} /\ secrets \in Accounts \cup {NoAccount}
    /\ listener \in [busy : BOOLEAN, before : Seq(Accounts), latest : Seq(AppStates)]
    /\ override \in Routes \cup {"none"}
    /\ {pressed, boot, panicked, left} \subseteq BOOLEAN
    /\ kept \subseteq Accounts /\ inputs \in 0..MaxInputs
    /\ Len(listener.latest) <= 1
    /\ listener.busy => listener.before # <<>> \/ listener.latest # <<>>

-----------------------------------------------------------------------------
(* Launching the program.                                                  *)

Init ==
    /\ core = [alive |-> TRUE, emitted |-> FALSE, state |-> Empty]
    /\ shared = Empty /\ local = Empty /\ window = Empty
    /\ fg = <<>> /\ updates = <<>> /\ uiq = <<>>
    /\ listener = [busy |-> FALSE, before |-> <<>>, latest |-> <<>>]
    /\ restore = NoAccount /\ secrets = NoAccount
    /\ override = "none" /\ pressed = FALSE /\ boot = FALSE
    /\ panicked = FALSE /\ left = FALSE /\ kept = {} /\ inputs = 0

Input == inputs < MaxInputs /\ inputs' = inputs + 1

\* A core that cannot be built leaves a state that says so.
OpenState(ok) == IF ok THEN Empty ELSE [Empty EXCEPT !.rev = 1, !.toast = TRUE]

\* The process ends at any moment, and the user starts it again: FfiApp::new and
\* AppManager::new, which dispatches the login that the secret store holds.
Relaunch(ok) ==
    LET s == OpenState(ok)
    IN  /\ Input /\ (ok \/ "open" \in Failures)
        /\ core' = [alive |-> ok, emitted |-> FALSE, state |-> s]
        /\ shared' = s /\ local' = s /\ window' = s
        /\ updates' = IF ok THEN <<>> ELSE <<Full(s)>>
        /\ fg' = IF secrets = NoAccount THEN <<>> ELSE <<Login("bundle", secrets)>>
        /\ restore' = secrets /\ boot' = (secrets # NoAccount)
        /\ listener' = [busy |-> FALSE, before |-> <<>>, latest |-> <<>>] /\ uiq' = <<>>
        /\ override' = "none" /\ pressed' = FALSE
        /\ UNCHANGED <<secrets, panicked, left, kept>>

-----------------------------------------------------------------------------
(* The user, at the window.                                                *)

\* Mutant: a logout leaves the login to replay after a panic.
DispatchKeepingLogin(m) ==
    /\ fg' = Append(fg, m)
    /\ restore' = IF m.kind = "restore" THEN m.who ELSE restore

\* dispatch: a login or a logout is remembered for the supervisor at once.
Dispatch(m) ==
    /\ fg' = Append(fg, m)
    /\ restore' = CASE m.kind = "restore" -> m.who
                    [] m.kind = "logout" -> NoAccount
                    [] OTHER -> restore

\* The button of the profile form and of the restore form.  It is insensitive
\* until the window is drawn again.
UserLogsIn(kind, a) ==
    /\ window.account = NoAccount /\ window.route = "form" /\ ~pressed /\ Input
    /\ <<kind, a>> \in {"create"} \X Accounts \cup {"restore"} \X (Accounts \cup {Typo})
    /\ pressed' = TRUE /\ left' = FALSE
    /\ Dispatch(Login(kind, a))
    /\ override' = IF kind = "restore" THEN "none" ELSE override
    /\ UNCHANGED <<coreVars, listener, secrets, uiq, local, window, boot, panicked, kept>>

LoginOnItsWay ==
    \/ listener.before # <<>>
    \/ \E i \in 1..Len(updates) : updates[i].who # NoAccount
    \/ \E i \in 1..Len(fg) : fg[i].kind \in Logins

\* AppManager::logout, which the screen of a removed device calls: the keys are
\* removed first; if they cannot be, nothing happens.
UserLogsOut ==
    /\ window.account # NoAccount /\ Input
    /\ secrets' = NoAccount /\ left' = ~LoginOnItsWay
    /\ Dispatch(Logout)
    /\ override' = "none"
    /\ UNCHANGED <<coreVars, listener, uiq, local, window, pressed, boot, panicked, kept>>

\* The dialog that deletes all local data logs out as well, and leaves the keys.
UserDeletes ==
    /\ window.account # NoAccount /\ Input
    /\ Dispatch(Logout)
    /\ override' = "none"
    /\ UNCHANGED <<coreVars, listener, secrets, uiq, local, window, pressed, boot, panicked,
                   left, kept>>

\* navigate_optimistically: the shell goes there, then asks the core.
UserNavigates(r) ==
    LET s == [local EXCEPT !.route = r]
    IN  /\ ~boot /\ Input
        /\ IF window.account = NoAccount THEN r \in {"home", "form"} ELSE r \in {"home"} \cup Chats
        /\ r # window.route
        /\ override' = r /\ local' = s /\ uiq' = Append(uiq, s)
        /\ Dispatch(Go(r))
        /\ UNCHANGED <<coreVars, listener, secrets, window, pressed, boot, panicked, left, kept>>

-----------------------------------------------------------------------------
(* The actor.  A foreground action has a batch to itself; at its end the    *)
(* state is emitted if anything but its number has changed.                *)

Same(s, t) == [s EXCEPT !.rev = 0] = [t EXCEPT !.rev = 0]

\* exit_batch: the handler has queued bundles and left the state s.
EndBatch(bundles, s, emitted) ==
    IF emitted /\ Same(s, shared)
    THEN /\ core' = [core EXCEPT !.state = s]
         /\ updates' = updates \o bundles
         /\ UNCHANGED shared
    ELSE LET t == [s EXCEPT !.rev = @ + 1]
         IN  /\ core' = [core EXCEPT !.state = t, !.emitted = TRUE]
             /\ updates' = Append(updates \o bundles, Full(t))
             /\ shared' = t

Failed(s) == [s EXCEPT !.account = NoAccount, !.route = "home", !.toast = TRUE]
Started(s, a) == [s EXCEPT !.account = a, !.route = "home", !.news = FALSE, !.toast = FALSE]

\* Mutant: a session that cannot start says nothing.
CoreLogsInQuietly(m) ==
    \/ m.who = Typo /\ EndBatch(<<>>, [core.state EXCEPT !.toast = TRUE], core.emitted)
    \/ m.who # Typo /\ EndBatch(<<Bundle(m.who)>>, Started(core.state, m.who), core.emitted)
    \/ "start" \in Failures /\ core' = [core EXCEPT !.state = Failed(@)] /\ UNCHANGED <<shared, updates>>

\* create_account, restore_primary_session, restore_account_bundle: a key that
\* is none is turned down; start_session may fail after it ended the old one.
CoreLogsIn(m) ==
    \/ m.who = Typo /\ EndBatch(<<>>, [core.state EXCEPT !.toast = TRUE], core.emitted)
    \/ m.who # Typo /\ EndBatch(<<Bundle(m.who)>>, Started(core.state, m.who), core.emitted)
    \/ "start" \in Failures /\ m.who # Typo /\ EndBatch(<<>>, Failed(core.state), core.emitted)

\* Mutant: the empty state starts counting anew.
CoreLogsOutFromZero == EndBatch(<<>>, Empty, FALSE)

\* logout: the number goes on, and the empty state is emitted in any case.
CoreLogsOut == EndBatch(<<>>, [Empty EXCEPT !.rev = core.state.rev], FALSE)

\* push_screen, open_chat, update_screen_stack: a form is for those who are not
\* logged in and is turned down in silence, a chat with an error.
CoreGoes(r) ==
    LET s == [core.state EXCEPT !.toast = FALSE]
    IN  \/ /\ r = "form" => s.account = NoAccount
           /\ r \in Chats => s.account # NoAccount
           /\ EndBatch(<<>>, [s EXCEPT !.route = r], core.emitted)
        \/ /\ r = "form" /\ s.account # NoAccount
           /\ core' = [core EXCEPT !.state = s] /\ UNCHANGED <<shared, updates>>
        \/ /\ r \in Chats /\ (s.account = NoAccount \/ "chats" \in Failures)
           /\ EndBatch(<<>>, [s EXCEPT !.toast = TRUE], core.emitted)

CoreHandles ==
    /\ core.alive /\ fg # <<>> /\ fg' = Tail(fg)
    /\ LET m == Head(fg)
       IN  \/ m.kind \in Logins /\ CoreLogsIn(m)
           \/ m.kind = "logout" /\ CoreLogsOut
           \/ m.kind = "go" /\ CoreGoes(m.route)
    /\ UNCHANGED <<restore, listener, secrets, uiq, uiVars, panicked, left, kept, inputs>>

\* A background event changes what the chats show.  The foreground goes first.
CoreHears ==
    /\ core.alive /\ fg = <<>> /\ core.state.account # NoAccount /\ Input
    /\ EndBatch(<<>>, [core.state EXCEPT !.news = ~@], core.emitted)
    /\ UNCHANGED <<fg, restore, listener, secrets, uiq, uiVars, panicked, left, kept>>

\* recover_core_after_panic: a new core, and the remembered login replayed.
Recover(sent) ==
    \/ /\ restore = NoAccount
       /\ core' = [alive |-> TRUE, emitted |-> FALSE, state |-> Empty]
       /\ shared' = Empty /\ updates' = updates \o sent
    \/ /\ restore # NoAccount
       /\ \E ok \in BOOLEAN :
            LET s == IF ok THEN [Empty EXCEPT !.rev = 1, !.account = restore]
                     ELSE [Empty EXCEPT !.rev = 1, !.toast = TRUE]
            IN  /\ ok => restore # Typo
                /\ ok \/ restore = Typo \/ "start" \in Failures
                /\ core' = [alive |-> TRUE, emitted |-> TRUE, state |-> s]
                /\ shared' = s
                /\ updates' = updates \o sent \o (IF ok THEN <<Bundle(restore)>> ELSE <<>>)
                                      \o <<Full(s)>>
    \/ /\ "open" \in Failures
       /\ core' = [alive |-> FALSE, emitted |-> FALSE, state |-> OpenState(FALSE)]
       /\ shared' = OpenState(FALSE) /\ updates' = updates \o sent \o <<Full(OpenState(FALSE))>>
    \/ /\ "replay" \in Panics /\ restore # NoAccount
       /\ core' = [alive |-> FALSE, emitted |-> FALSE, state |-> Empty]
       /\ shared' = Empty /\ updates' = updates \o sent

\* A batch panics at its first message, and what was drained with it is lost.
\* A login may have queued its bundle before.
CorePanics(k) ==
    LET m == Head(fg)
    IN  /\ "batch" \in Panics /\ ~panicked /\ core.alive /\ k \in 1..Len(fg)
        /\ fg' = SubSeq(fg, k + 1, Len(fg))
        /\ \E sent \in {<<>>} \cup
               (IF m.kind \in Logins /\ m.who # Typo
                THEN {<<Bundle(m.who)>>} ELSE {}) : Recover(sent)
        /\ panicked' = TRUE
        /\ UNCHANGED <<restore, listener, secrets, uiq, uiVars, left, kept, inputs>>

\* The same for a batch of background events.
CorePanicsIdle ==
    /\ "batch" \in Panics /\ ~panicked /\ core.alive
    /\ Recover(<<>>) /\ panicked' = TRUE
    /\ UNCHANGED <<fg, restore, listener, secrets, uiq, uiVars, left, kept, inputs>>

-----------------------------------------------------------------------------
(* The listener: it drains the updates, then delivers them.                *)

Idle == ~listener.busy /\ listener.before = <<>> /\ listener.latest = <<>>

\* Mutants: the first state is kept; the supervisor is not told of a bundle.
ListenerTakesFirst ==
    LET u == Head(updates)
    IN  /\ ~listener.busy /\ updates # <<>> /\ updates' = Tail(updates)
        /\ restore' = IF u.who # NoAccount THEN u.who ELSE restore
        /\ listener' = IF u.who # NoAccount THEN [listener EXCEPT !.before = Append(@, u.who)]
                       ELSE [listener EXCEPT !.latest = IF @ = <<>> THEN <<u.state>> ELSE @]
        /\ UNCHANGED <<core, shared, fg, secrets, uiq, uiVars, panicked, left, kept, inputs>>

ListenerTakesForgetting ==
    LET u == Head(updates)
    IN  /\ ~listener.busy /\ updates # <<>> /\ updates' = Tail(updates)
        /\ listener' = IF u.who # NoAccount THEN [listener EXCEPT !.before = Append(@, u.who)]
                       ELSE [listener EXCEPT !.latest = <<u.state>>]
        /\ UNCHANGED <<core, shared, fg, restore, secrets, uiq, uiVars, panicked, left, kept, inputs>>

\* recv and try_recv: a bundle is remembered for the supervisor; of the states
\* only the latest is kept.
ListenerTakes ==
    LET u == Head(updates)
    IN  /\ ~listener.busy /\ updates # <<>> /\ updates' = Tail(updates)
        /\ restore' = IF u.who # NoAccount THEN u.who ELSE restore
        /\ listener' = IF u.who # NoAccount THEN [listener EXCEPT !.before = Append(@, u.who)]
                       ELSE [listener EXCEPT !.latest = <<u.state>>]
        /\ UNCHANGED <<core, shared, fg, secrets, uiq, uiVars, panicked, left, kept, inputs>>

\* Nothing is left to drain.
ListenerTurns ==
    /\ ~listener.busy /\ updates = <<>> /\ ~Idle
    /\ listener' = [listener EXCEPT !.busy = TRUE]
    /\ UNCHANGED <<coreVars, fg, restore, secrets, uiq, uiVars, panicked, left, kept, inputs>>

\* Reconciler::reconcile for the bundles, each of them, before the state.
ListenerStores ==
    /\ listener.busy /\ listener.before # <<>>
    /\ secrets' = Head(listener.before) /\ kept' = kept \cup {Head(listener.before)}
    /\ listener' = [listener EXCEPT !.before = Tail(@),
                                    !.busy = Tail(listener.before) # <<>> \/ listener.latest # <<>>]
    /\ UNCHANGED <<coreVars, fg, restore, uiq, uiVars, panicked, left, inputs>>

\* Mutant: the state goes first.
ListenerForwardsFirst ==
    /\ listener.busy /\ uiq' = uiq \o listener.latest
    /\ listener' = [listener EXCEPT !.latest = <<>>, !.busy = listener.before # <<>>]
    /\ UNCHANGED <<coreVars, fg, restore, secrets, uiVars, panicked, left, kept, inputs>>

ListenerForwards ==
    /\ listener.busy /\ listener.before = <<>>
    /\ uiq' = uiq \o listener.latest
    /\ listener' = [listener EXCEPT !.latest = <<>>, !.busy = FALSE]
    /\ UNCHANGED <<coreVars, fg, restore, secrets, uiVars, panicked, left, kept, inputs>>

-----------------------------------------------------------------------------
(* The window takes the next state from its queue.                         *)

\* state_by_reconciling_pending_navigation: the shell stays where the user went
\* until the core is there too, nobody is logged in, or the wait is over.
Settled(s, over) == override = "none" \/ s.account = NoAccount \/ s.route = override \/ over

WindowAccepts ==
    LET s == Head(uiq)
    IN  /\ s.rev > local.rev /\ boot' = FALSE
        /\ \E over \in BOOLEAN :
             IF Settled(s, over) THEN local' = s /\ override' = "none"
             ELSE local' = [s EXCEPT !.route = override] /\ UNCHANGED override
        /\ window' = local' /\ pressed' = FALSE

\* apply_update: a state that is not newer is dropped, unless it is the one the
\* shell has just made.
WindowKeeps ==
    LET s == Head(uiq)
    IN  /\ s.rev <= local.rev
        /\ IF s.rev = local.rev /\ s.route = local.route /\ local.rev >= window.rev
           THEN window' = local /\ pressed' = FALSE
           ELSE UNCHANGED <<window, pressed>>
        /\ UNCHANGED <<local, override, boot>>

WindowDraws ==
    /\ uiq # <<>> /\ uiq' = Tail(uiq)
    /\ WindowAccepts \/ WindowKeeps
    /\ UNCHANGED <<coreVars, fg, restore, listener, secrets, panicked, left, kept, inputs>>

-----------------------------------------------------------------------------
User ==
    \/ \E kind \in {"create", "restore"}, a \in Accounts \cup {Typo} : UserLogsIn(kind, a)
    \/ UserLogsOut \/ UserDeletes
    \/ \E r \in Routes : UserNavigates(r)

Listener == ListenerTakes \/ ListenerTurns \/ ListenerStores \/ ListenerForwards

Next ==
    \/ User
    \/ CoreHandles \/ CoreHears
    \/ \E k \in 1..Len(fg) : CorePanics(k)
    \/ CorePanicsIdle
    \/ Listener
    \/ WindowDraws
    \/ \E ok \in BOOLEAN : Relaunch(ok)

Spec == Init /\ [][Next]_vars

\* The three threads run.
Fairness == WF_vars(CoreHandles) /\ WF_vars(Listener) /\ WF_vars(WindowDraws)

FairSpec == Spec /\ Fairness

-----------------------------------------------------------------------------
(* Properties.                                                             *)

\* The window shows an account only when its keys have been written: the
\* listener stores the bundles of a burst before it forwards the state, and the
\* core queues the bundle of a login before the state that has the account.
ShownIsSaved == window.account \in kept \cup {NoAccount}

\* After a logout, with no login on its way at that moment, neither the secret
\* store nor the supervisor brings the account back, whatever is still queued.
LoggedOutStaysOut == left => secrets = NoAccount /\ restore = NoAccount

Quiet == fg = <<>> /\ updates = <<>> /\ Idle /\ uiq = <<>>

\* When the three threads have nothing left to do, the window shows what the
\* core last published: no state was dropped as old, or lost in a burst, and
\* the screen differs only while the shell still waits for the core to follow.
\* A rebuilt core counts from zero again, which the window does not know.
QuietScreenIsTrue ==
    Quiet /\ ~panicked =>
        /\ window = local
        /\ [local EXCEPT !.route = shared.route] = shared
        /\ override = "none" => local.route = shared.route

\* A panic of background work does not log the user out: the core the supervisor
\* builds has the same account, or says that it has not.
SurvivesPanic ==
    [][CorePanicsIdle /\ core.state.account # NoAccount /\ fg = <<>> /\ updates = <<>> /\ Idle =>
        core'.state.account = core.state.account \/ core'.state.toast \/ ~core'.alive]_vars

\* The splash of a launch with stored keys ends, whether the session starts or
\* not, as long as there is a core.
BootEnds == boot ~> ~boot \/ ~core.alive

\* An account the core stays logged in to is shown in the end.
LoginIsShown ==
    \A a \in Accounts :
       <>[](core.alive /\ core.state.account = a /\ ~panicked) => <>[](window.account = a)
=============================================================================
