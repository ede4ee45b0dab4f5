------------------------------ MODULE StartupFlow ------------------------------
(***************************************************************************)
(* From the welcome animation to the main screen, and from one database to *)
(* another: the root model of the Bubble Tea interface.                    *)
(*                                                                         *)
(* Update handles one message at a time; an action is one call of it.  Its *)
(* commands run on goroutines, and their results come back as messages in  *)
(* any order, at any time.  A startup chain is a sequence of four commands *)
(* (connect, permissions, deploy, register), each issued by the handler of *)
(* the result before.  The update check runs beside it and holds a gate    *)
(* before the main screen.  The database settings are an overlay on the    *)
(* loading and on the main screen; a switch starts a new chain.            *)
(***************************************************************************)
EXTENDS Naturals

CONSTANTS
    MaxRetries,  \* bound: the retries the user asks for
    MaxSwitches, \* bound: the successful switches of the database
    MaxAsks      \* bound: the SwitchDatabaseMsg's under way at a time

ASSUME StartupAssumption ==
    MaxRetries \in Nat /\ MaxSwitches \in Nat /\ MaxAsks \in Nat

VARIABLES
    screen,     \* m.screen, or "ended"
    animDone,   \* m.welcome.complete
    ready,      \* the dbReadyMsg: not yet, no settings, some, or an error
    gate,       \* m.update: which of its flags is set, "clear" for none
    updating,   \* the updater command under way
    err,        \* m.loading.err # nil
    started,    \* m.loading.started
    complete,   \* m.loading.complete
    overlay,    \* m.dbSettings.visible
    asks,       \* SwitchDatabaseMsg's on their way
    timers,     \* retryTimerExpiryMsg's to come; live: of the current generation
    timerSet,   \* m.loading.retryTimer # nil
    retries,    \* the number of retries asked for
    results,    \* the results of chain commands to come
    chains,     \* the number of chains begun
    connection, \* the number of switches: which adapter m.dbAdapter is
    adapter,    \* m.dbAdapter # nil
    services,   \* m.tracerService # nil, and the other two
    listening,  \* is the listener of m.tracerService started?
    lost,       \* history: has the overlay swallowed a result?
    raced       \* history: has the overlay been opened after the error was gone?

welcomeVars == <<animDone, ready>>
updateVars  == <<gate, updating>>
loadingVars == <<err, started, complete>>
chainVars   == <<results, chains>>
overlayVars == <<overlay, asks, lost, raced>>
retryVars   == <<timers, timerSet, retries>>
sessionVars == <<connection, adapter, services, listening>>

vars == <<screen, welcomeVars, updateVars, loadingVars, chainVars, overlayVars,
          retryVars, sessionVars>>

Stage   == {"connect", "permissions", "deploy", "register"}
Result  == [no : Nat, stage : Stage, connection : 0..MaxSwitches]
Timer   == [no : 1..MaxRetries, connection : 0..MaxSwitches, live : BOOLEAN]
Screens == {"welcome", "loading", "onboarding", "main", "ended"}
Gates   == {"clear", "checking", "prompting", "applying", "failed"}

Init ==
    /\ screen = "welcome" /\ animDone = FALSE /\ ready = "pending"
    /\ gate = "clear" /\ updating = "none"
    /\ err = FALSE /\ started = FALSE /\ complete = FALSE
    /\ overlay = FALSE /\ asks = 0
    /\ timers = {} /\ timerSet = FALSE /\ retries = 0
    /\ results = {} /\ chains = 0
    /\ connection = 0 /\ adapter = FALSE /\ services = FALSE /\ listening = FALSE
    /\ lost = FALSE /\ raced = FALSE

-----------------------------------------------------------------------------
(* What several handlers do *)

NewChain(c) == [no |-> chains + 1, stage |-> "connect", connection |-> c]

\* connectDBCmd is issued for connection c; rest is what else is under way.
BeginChain(c, rest) ==
    /\ chains' = chains + 1
    /\ results' = rest \cup {NewChain(c)}

EnterStartupLoadingScreen ==
    /\ screen' = "loading"
    /\ gate' = "checking"
    /\ updating' = "check"

ContinueUngated(done, rest) == \* fault: a complete startup does not wait
    IF done
      THEN screen' = "main" /\ results' = rest /\ UNCHANGED <<started, chains>>
    ELSE IF gate' = "clear" /\ ~started
      THEN started' = TRUE /\ BeginChain(connection, rest) /\ UNCHANGED screen
    ELSE results' = rest /\ UNCHANGED <<screen, started, chains>>

ContinueAgain(done, rest) == \* fault: does not ask whether a chain has started
    IF gate' = "clear" /\ done
      THEN screen' = "main" /\ results' = rest /\ UNCHANGED <<started, chains>>
    ELSE IF gate' = "clear"
      THEN started' = TRUE /\ BeginChain(connection, rest) /\ UNCHANGED screen
    ELSE results' = rest /\ UNCHANGED <<screen, started, chains>>

\* continueStartupAfterUpdateGate, with the gate as the handler leaves it.
Continue(done, rest) ==
    IF gate' = "clear" /\ done
      THEN screen' = "main" /\ results' = rest /\ UNCHANGED <<started, chains>>
    ELSE IF gate' = "clear" /\ ~started
      THEN started' = TRUE /\ BeginChain(connection, rest) /\ UNCHANGED screen
    ELSE results' = rest /\ UNCHANGED <<screen, started, chains>>

\* The timers once the generation is raised: none set before is live.
Outdated(ts) == {[t EXCEPT !.live = FALSE] : t \in ts}

\* stopLoadingRetryTimer
StopTimer ==
    /\ timers' = Outdated(timers)
    /\ timerSet' = FALSE

\* updateLoading hands every message to the overlay when it is visible.
OnLoading == screen = "loading" /\ ~overlay
Handled   == screen = "welcome" \/ OnLoading

-----------------------------------------------------------------------------
(* The welcome screen: the animation and initDBCmd end in either order. *)

\* handleWelcomeComplete for the answer r of initDBCmd.
WelcomeComplete(r) ==
    \/ /\ r = "failed"
       /\ err' = TRUE /\ screen' = "loading"
       /\ UNCHANGED <<gate, updating, adapter, services>>
    \/ /\ r # "failed" /\ started
       /\ EnterStartupLoadingScreen
       /\ UNCHANGED <<err, adapter, services>>
    \/ /\ r = "some" /\ ~started
       /\ err' = FALSE /\ adapter' = TRUE /\ services' = TRUE
       /\ EnterStartupLoadingScreen
    \/ /\ r = "some" /\ ~started
       /\ err' = TRUE /\ screen' = "loading"
       /\ UNCHANGED <<gate, updating, adapter, services>>
    \/ /\ r = "none"
       /\ screen' = "onboarding"
       /\ UNCHANGED <<err, gate, updating, adapter, services>>

\* handleWelcomeTick
AnimationEnds ==
    /\ screen = "welcome" /\ ~animDone
    /\ animDone' = TRUE
    /\ IF ready = "pending"
         THEN UNCHANGED <<screen, gate, updating, err, adapter, services>>
         ELSE WelcomeComplete(ready)
    /\ UNCHANGED <<ready, started, complete, chainVars, overlayVars,
                   retryVars, connection, listening>>

\* handleDBReady after the animation
DBReadyLate(r) ==
    /\ screen = "welcome" /\ ready = "pending" /\ animDone
    /\ ready' = r
    /\ WelcomeComplete(r)
    /\ UNCHANGED <<animDone, started, complete, chainVars, overlayVars,
                   retryVars, connection, listening>>

\* handleDBReady during the animation, without settings to start from, or with
\* services that cannot be initialized
DBReadyIdle(r) ==
    /\ screen = "welcome" /\ ready = "pending" /\ ~animDone
    /\ r # "some"
    /\ ready' = r
    /\ UNCHANGED <<screen, animDone, updateVars, loadingVars, chainVars, overlayVars,
                   retryVars, sessionVars>>

\* and with settings: the chain runs beside the animation.
DBReadyStarts ==
    /\ screen = "welcome" /\ ready = "pending" /\ ~animDone
    /\ ready' = "some"
    /\ adapter' = TRUE /\ services' = TRUE
    /\ started' = TRUE
    /\ BeginChain(connection, results)
    /\ UNCHANGED <<screen, animDone, updateVars, err, complete, overlayVars,
                   retryVars, connection, listening>>

\* onboardingCompleteMsg with the settings it has saved
OnboardingComplete(ok) ==
    /\ screen = "onboarding"
    /\ err' = ~ok
    /\ IF ok
         THEN adapter' = TRUE /\ services' = TRUE /\ EnterStartupLoadingScreen
         ELSE screen' = "loading" /\ UNCHANGED <<gate, updating, adapter, services>>
    /\ UNCHANGED <<welcomeVars, started, complete, chainVars, overlayVars,
                   retryVars, connection, listening>>

-----------------------------------------------------------------------------
(* The results of a chain's commands, on the welcome and the loading screen *)

\* A stored verdict replaces the permission check.
Following(stage) ==
    CASE stage = "connect" -> {"permissions", "deploy"}
      [] stage = "permissions" -> {"deploy"}
      [] stage = "deploy" -> {"register"}
      [] stage = "register" -> {}

\* A command looks at the adapter or the service of its connection, which is there
\* from some moment on, and goes with the connection.
CanSucceed(r) ==
    \/ r.connection # connection
    \/ IF r.stage = "connect" THEN adapter ELSE services

StageSucceeds(r, next) ==
    /\ Handled /\ CanSucceed(r)
    /\ next \in Following(r.stage)
    /\ results' = (results \ {r})
           \cup {[no |-> r.no, stage |-> next, connection |-> connection]}
    /\ IF screen = "loading" /\ r.stage = "connect"
         THEN services' = TRUE /\ timerSet' = FALSE
         ELSE UNCHANGED <<services, timerSet>>
    /\ UNCHANGED <<screen, welcomeVars, updateVars, loadingVars, chains, overlayVars,
                   timers, retries, connection, adapter, listening>>

StageFailsSilently(r) == \* fault: tries again at once instead of reporting
    /\ Handled
    /\ results' = (results \ {r}) \cup {[r EXCEPT !.stage = "connect"]}
    /\ UNCHANGED <<screen, welcomeVars, updateVars, loadingVars, chains, overlayVars,
                   retryVars, sessionVars>>

\* An error is shown on the loading screen, at once also from the welcome screen.
StageFails(r) ==
    /\ Handled
    /\ results' = results \ {r}
    /\ err' = TRUE
    /\ animDone' = (animDone \/ screen = "welcome")
    /\ screen' = "loading"
    /\ UNCHANGED <<ready, updateVars, started, complete, chains, overlayVars,
                   retryVars, sessionVars>>

\* subscriberRegisteredMsg: the listener starts.  On the welcome screen the
\* animation is never over at this point, so the rest is left to its end.
Registered(r) ==
    /\ Handled /\ CanSucceed(r)
    /\ r.stage = "register" /\ services
    /\ listening' = TRUE
    /\ complete' = TRUE
    /\ UNCHANGED gate
    /\ IF screen = "welcome"
         THEN results' = results \ {r} /\ UNCHANGED <<screen, started, chains>>
         ELSE Continue(TRUE, results \ {r})
    /\ UNCHANGED <<welcomeVars, updating, err, overlayVars, retryVars,
                   connection, adapter, services>>

\* The overlay takes a result, or the main screen ignores it.
ResultDropped(r) ==
    /\ ~Handled /\ screen # "ended"
    /\ results' = results \ {r}
    /\ lost' = (lost \/ screen = "loading")
    /\ UNCHANGED <<screen, welcomeVars, updateVars, loadingVars, chains, overlay,
                   asks, raced, retryVars, sessionVars>>

-----------------------------------------------------------------------------
(* The update gate *)

UpdateCheckedOnly(found) == \* fault: forgets to go on with the startup
    /\ OnLoading /\ updating = "check"
    /\ updating' = "none"
    /\ gate' = IF found THEN "prompting" ELSE "clear"
    /\ UNCHANGED <<screen, welcomeVars, loadingVars, chainVars, overlayVars,
                   retryVars, sessionVars>>

\* updateCheckResultMsg; an error counts as no update.
UpdateChecked(found) ==
    /\ OnLoading /\ updating = "check"
    /\ updating' = "none"
    /\ gate' = IF found THEN "prompting" ELSE "clear"
    /\ Continue(complete, results)
    /\ UNCHANGED <<welcomeVars, err, complete, overlayVars, retryVars, sessionVars>>

AcceptUpdate ==
    /\ OnLoading /\ gate = "prompting"
    /\ gate' = "applying" /\ updating' = "apply"
    /\ UNCHANGED <<screen, welcomeVars, loadingVars, chainVars, overlayVars,
                   retryVars, sessionVars>>

\* n at the prompt, or y after an update that failed
GoOnWithoutUpdate ==
    /\ OnLoading /\ gate \in {"prompting", "failed"}
    /\ gate' = "clear"
    /\ Continue(complete, results)
    /\ UNCHANGED <<welcomeVars, updating, err, complete, overlayVars,
                   retryVars, sessionVars>>

\* updateErrorMsg
UpdateFails ==
    /\ OnLoading /\ updating = "apply"
    /\ gate' = "failed" /\ updating' = "none"
    /\ UNCHANGED <<screen, welcomeVars, loadingVars, chainVars, overlayVars,
                   retryVars, sessionVars>>

\* The updater replaces the process.
UpdateApplied ==
    /\ updating = "apply" /\ screen # "ended"
    /\ screen' = "ended"
    /\ UNCHANGED <<welcomeVars, updateVars, loadingVars, chainVars, overlayVars,
                   retryVars, sessionVars>>

\* The overlay takes the answer of the updater: m.update stays as it is.
UpdateDropped ==
    /\ screen = "loading" /\ overlay /\ updating # "none"
    /\ updating' = "none"
    /\ lost' = TRUE
    /\ UNCHANGED <<screen, welcomeVars, gate, loadingVars, chainVars,
                   overlay, asks, raced, retryVars, sessionVars>>

-----------------------------------------------------------------------------
(* After an error: retry, or another database *)

\* r waits, longer each time, before it tries again.
Retry ==
    /\ OnLoading /\ err
    /\ retries < MaxRetries
    /\ retries' = retries + 1
    /\ timers' = Outdated(timers)
           \cup {[no |-> retries + 1, connection |-> connection, live |-> TRUE]}
    /\ timerSet' = TRUE
    /\ UNCHANGED <<screen, welcomeVars, updateVars, loadingVars, chainVars,
                   overlayVars, sessionVars>>

\* retryTimerExpiryMsg of the timer that is set
RetryExpires(t) ==
    /\ OnLoading
    /\ t.live /\ timerSet
    /\ timers' = Outdated(timers \ {t})
    /\ timerSet' = FALSE
    /\ err' = FALSE
    /\ BeginChain(connection, results)
    /\ UNCHANGED <<screen, welcomeVars, updateVars, started, complete, overlayVars,
                   retries, sessionVars>>

RetryIgnored(t) ==
    /\ screen # "ended"
    /\ ~(OnLoading /\ t.live /\ timerSet)
    /\ timers' = timers \ {t}
    /\ UNCHANGED <<screen, welcomeVars, updateVars, loadingVars, chainVars,
                   overlayVars, timerSet, retries, sessionVars>>

\* s sends a SwitchDatabaseMsg to the same model.
AskForSwitch ==
    /\ OnLoading /\ err
    /\ asks < MaxAsks
    /\ asks' = asks + 1
    /\ UNCHANGED <<screen, welcomeVars, updateVars, loadingVars, chainVars,
                   overlay, lost, raced, retryVars, sessionVars>>

\* Meanwhile the error may be gone, and a chain be running.
OpenOverlay ==
    /\ OnLoading /\ asks > 0
    /\ asks' = asks - 1
    /\ overlay' = TRUE
    /\ raced' = (raced \/ ~err)
    /\ StopTimer
    /\ UNCHANGED <<screen, welcomeVars, updateVars, loadingVars, chainVars, lost,
                   retries, sessionVars>>

AskIgnored ==
    /\ screen # "ended" /\ ~OnLoading /\ asks > 0
    /\ asks' = asks - 1
    /\ UNCHANGED <<screen, welcomeVars, updateVars, loadingVars, chainVars, overlay,
                   lost, raced, retryVars, sessionVars>>

\* d on the main screen
OpenSettings ==
    /\ screen = "main" /\ ~overlay
    /\ overlay' = TRUE
    /\ UNCHANGED <<screen, welcomeVars, updateVars, loadingVars, chainVars, asks,
                   lost, raced, retryVars, sessionVars>>

CloseOverlay ==
    /\ overlay /\ screen # "ended"
    /\ overlay' = FALSE
    /\ UNCHANGED <<screen, welcomeVars, updateVars, loadingVars, chainVars, asks,
                   lost, raced, retryVars, sessionVars>>

\* showDatabaseSwitchError: the present connection stays.
SwitchFails ==
    /\ overlay /\ screen # "ended"
    /\ err' = TRUE
    /\ UNCHANGED <<screen, welcomeVars, updateVars, started, complete, chainVars,
                   overlayVars, retryVars, sessionVars>>

\* handleSettingsSetAsMain, once the new database has answered the probe
Switch ==
    /\ overlay /\ screen # "ended"
    /\ connection < MaxSwitches
    /\ connection' = connection + 1
    /\ adapter' = TRUE /\ services' = FALSE /\ listening' = FALSE
    /\ overlay' = FALSE
    /\ StopTimer
    /\ screen' = "loading"
    /\ err' = FALSE /\ started' = TRUE /\ complete' = FALSE
    /\ BeginChain(connection + 1, results)
    /\ UNCHANGED <<welcomeVars, updateVars, asks, lost, raced, retries>>

Quit ==
    /\ screen # "ended"
    /\ screen' = "ended"
    /\ UNCHANGED <<welcomeVars, updateVars, loadingVars, chainVars, overlayVars,
                   retryVars, sessionVars>>

-----------------------------------------------------------------------------
ResultArrives(r) ==
    \/ \E next \in Stage : StageSucceeds(r, next)
    \/ StageFails(r)
    \/ Registered(r)
    \/ ResultDropped(r)

UpdaterAnswers ==
    \/ \E found \in BOOLEAN : UpdateChecked(found)
    \/ UpdateFails
    \/ UpdateApplied
    \/ UpdateDropped

DBReady ==
    \/ \E r \in {"none", "some", "failed"} : DBReadyLate(r)
    \/ \E r \in {"none", "failed"} : DBReadyIdle(r)
    \/ DBReadyStarts

Ended == screen = "ended" /\ UNCHANGED vars

Next ==
    \/ AnimationEnds
    \/ DBReady
    \/ \E ok \in BOOLEAN : OnboardingComplete(ok)
    \/ \E r \in results : ResultArrives(r)
    \/ UpdaterAnswers
    \/ AcceptUpdate
    \/ GoOnWithoutUpdate
    \/ Retry
    \/ \E t \in timers : RetryExpires(t) \/ RetryIgnored(t)
    \/ AskForSwitch
    \/ OpenOverlay
    \/ AskIgnored
    \/ OpenSettings
    \/ CloseOverlay
    \/ SwitchFails
    \/ Switch
    \/ Quit
    \/ Ended

(***************************************************************************)
(* The animation ends, BoltDB answers, and every command returns: Oracle   *)
(* and GitHub calls have timeouts.  The user need not press any key.       *)
(***************************************************************************)
Fairness ==
    /\ WF_vars(AnimationEnds)
    /\ WF_vars(DBReady)
    /\ WF_vars(UpdaterAnswers)
    /\ WF_vars(\E r \in results : ResultArrives(r))

Spec     == Init /\ [][Next]_vars
FairSpec == Spec /\ Fairness

-----------------------------------------------------------------------------
(* Properties *)

Flags ==
    /\ animDone \in BOOLEAN /\ err \in BOOLEAN /\ started \in BOOLEAN
    /\ complete \in BOOLEAN /\ overlay \in BOOLEAN /\ timerSet \in BOOLEAN
    /\ adapter \in BOOLEAN /\ services \in BOOLEAN /\ listening \in BOOLEAN
    /\ lost \in BOOLEAN /\ raced \in BOOLEAN

\* The shape of the state; a listener belongs to a service.
TypeOK ==
    /\ Flags
    /\ listening => services
    /\ screen \in Screens /\ ready \in {"pending", "none", "some", "failed"}
    /\ gate \in Gates /\ updating \in {"none", "check", "apply"}
    /\ asks \in 0..MaxAsks /\ retries \in 0..MaxRetries
    /\ timers \subseteq Timer /\ results \subseteq Result /\ chains \in Nat
    /\ connection \in 0..MaxSwitches

\* Whatever order the results come in, the main screen is shown only with the
\* update gate clear, the startup complete and the listener of the present
\* connection started, also after a switch.
MainBehindGate == screen = "main" => gate = "clear" /\ complete /\ listening

\* One command of a chain is under way at a time, and it is of the present
\* connection: no result of the database before is taken for one of the new one.
\* A SwitchDatabaseMsg handled when a retry has already started is the one
\* exception.
OneChain ==
    raced \/ \A r, s \in results : r = s /\ r.connection = connection

\* The loading screen is no dead end: something is under way, or the user is asked,
\* unless the overlay has swallowed a result.
NeverStuck ==
    OnLoading =>
        \/ results # {} \/ updating # "none"
        \/ err \/ gate \in {"prompting", "failed"}
        \/ lost

LastRetryStarts ==
    \A t \in timers : t \notin timers' /\ chains' # chains =>
        t.no = retries /\ t.connection = connection

\* A timer starts a chain only for the last retry the user asked for, and only on
\* the connection it was asked for: later retries and switches disarm it.
OnlyLastRetry == [][LastRetryStarts]_vars

\* A startup comes to an end without the user: the main screen, an error or a
\* question.
Settled ==
    \/ screen \in {"main", "ended"}
    \/ err \/ gate \in {"prompting", "failed"} \/ overlay
    \/ lost

StartupSettles == screen = "loading" ~> Settled
=============================================================================
