--------------------------- MODULE StartupFlowProofs ---------------------------
(***************************************************************************)
(* The startup is safe for every number of retries, switches and pending   *)
(* requests: the main screen is behind the gate, the loading screen is no  *)
(* dead end, one chain runs at a time, and old timers do nothing.          *)
(***************************************************************************)
EXTENDS StartupFlow, TLAPS

-----------------------------------------------------------------------------
(* The steps of the system, one case each. *)
LEMMA StepCases ==
    ASSUME [Next]_vars
    PROVE  \/ AnimationEnds
           \/ \E r \in {"none", "some", "failed"} : DBReadyLate(r)
           \/ \E r \in {"none", "failed"} : DBReadyIdle(r)
           \/ DBReadyStarts
           \/ \E ok \in BOOLEAN : OnboardingComplete(ok)
           \/ \E r \in results, next \in Stage : StageSucceeds(r, next)
           \/ \E r \in results : StageFails(r)
           \/ \E r \in results : Registered(r)
           \/ \E r \in results : ResultDropped(r)
           \/ \E found \in BOOLEAN : UpdateChecked(found)
           \/ UpdateFails
           \/ UpdateApplied
           \/ UpdateDropped
           \/ AcceptUpdate
           \/ GoOnWithoutUpdate
           \/ Retry
           \/ \E t \in timers : RetryExpires(t)
           \/ \E t \in timers : RetryIgnored(t)
           \/ AskForSwitch
           \/ OpenOverlay
           \/ AskIgnored
           \/ OpenSettings
           \/ CloseOverlay
           \/ SwitchFails
           \/ Switch
           \/ Quit
           \/ UNCHANGED vars
  BY DEF Next, ResultArrives, UpdaterAnswers, DBReady, Ended

-----------------------------------------------------------------------------
(* The shape of the state. *)

\* Timers of an old generation are timers, and not live.
LEMMA OutdatedTimers ==
    ASSUME NEW S \in SUBSET Timer
    PROVE  /\ Outdated(S) \in SUBSET Timer
           /\ \A t \in Outdated(S) : ~t.live
           /\ \A t \in S : ~t.live => t \in Outdated(S)
<1> DEFINE old(t) == [t EXCEPT !.live = FALSE]
<1>1. ASSUME NEW t \in Timer
      PROVE  old(t) \in Timer /\ ~old(t).live /\ (~t.live => old(t) = t)
  BY <1>1 DEF Timer
<1>2. Outdated(S) = {old(t) : t \in S}
  BY DEF Outdated
<1> HIDE DEF old
<1> QED
  BY <1>1, <1>2

\* r sets a timer.
LEMMA NewTimer ==
    ASSUME TypeOK, retries < MaxRetries
    PROVE  [no |-> retries + 1, connection |-> connection, live |-> TRUE] \in Timer
  BY StartupAssumption DEF StartupAssumption, TypeOK, Timer

\* The flags are BOOLEAN.
LEMMA FlagsStep ==
    ASSUME Flags, [Next]_vars
    PROVE  Flags'
<1> USE DEF Flags,
        welcomeVars, updateVars, loadingVars, chainVars, overlayVars, retryVars,
        sessionVars
<1>1. CASE AnimationEnds
  BY <1>1, Zenon DEF AnimationEnds, WelcomeComplete, EnterStartupLoadingScreen
<1>2. ASSUME NEW r \in {"none", "some", "failed"}, DBReadyLate(r)
      PROVE  Flags'
  BY <1>2, Zenon DEF DBReadyLate, WelcomeComplete, EnterStartupLoadingScreen
<1>3. ASSUME NEW r \in {"none", "failed"}, DBReadyIdle(r)
      PROVE  Flags'
  BY <1>3, Zenon DEF DBReadyIdle
<1>4. CASE DBReadyStarts
  BY <1>4, Zenon DEF DBReadyStarts, BeginChain, NewChain
<1>5. ASSUME NEW ok \in BOOLEAN, OnboardingComplete(ok)
      PROVE  Flags'
  BY <1>5, Zenon DEF OnboardingComplete, EnterStartupLoadingScreen
<1>6. ASSUME NEW r \in results, NEW next \in Stage, StageSucceeds(r, next)
      PROVE  Flags'
  BY <1>6, Zenon DEF StageSucceeds
<1>7. ASSUME NEW r \in results, StageFails(r)
      PROVE  Flags'
  BY <1>7, Zenon DEF StageFails
<1>8. ASSUME NEW r \in results, Registered(r)
      PROVE  Flags'
  BY <1>8, Zenon DEF Registered, Continue
<1>9. ASSUME NEW r \in results, ResultDropped(r)
      PROVE  Flags'
  BY <1>9, Zenon DEF ResultDropped
<1>10. ASSUME NEW found \in BOOLEAN, UpdateChecked(found)
       PROVE  Flags'
  BY <1>10, Zenon DEF UpdateChecked, Continue, BeginChain, NewChain
<1>11. CASE UpdateFails
  BY <1>11, Zenon DEF UpdateFails
<1>12. CASE UpdateApplied
  BY <1>12, Zenon DEF UpdateApplied
<1>13. CASE UpdateDropped
  BY <1>13, Zenon DEF UpdateDropped
<1>14. CASE AcceptUpdate
  BY <1>14, Zenon DEF AcceptUpdate
<1>15. CASE GoOnWithoutUpdate
  BY <1>15, Zenon DEF GoOnWithoutUpdate, Continue, BeginChain, NewChain
<1>16. CASE Retry
  BY <1>16, Zenon DEF Retry
<1>17. ASSUME NEW t \in timers, RetryExpires(t)
       PROVE  Flags'
  BY <1>17, Zenon DEF RetryExpires, BeginChain, NewChain
<1>18. ASSUME NEW t \in timers, RetryIgnored(t)
       PROVE  Flags'
  BY <1>18, Zenon DEF RetryIgnored
<1>19. CASE AskForSwitch
  BY <1>19, Zenon DEF AskForSwitch
<1>20. CASE OpenOverlay
  BY <1>20, Zenon DEF OpenOverlay, StopTimer
<1>21. CASE AskIgnored
  BY <1>21, Zenon DEF AskIgnored
<1>22. CASE OpenSettings
  BY <1>22, Zenon DEF OpenSettings
<1>23. CASE CloseOverlay
  BY <1>23, Zenon DEF CloseOverlay
<1>24. CASE SwitchFails
  BY <1>24, Zenon DEF SwitchFails
<1>25. CASE Switch
  BY <1>25, Zenon DEF Switch, StopTimer, BeginChain, NewChain
<1>26. CASE Quit
  BY <1>26, Zenon DEF Quit
<1>27. CASE UNCHANGED vars
  BY <1>27, Zenon DEF vars
<1> QED
  BY StepCases, <1>1, <1>2, <1>3, <1>4, <1>5, <1>6, <1>7, <1>8, <1>9, <1>10,
     <1>11, <1>12, <1>13, <1>14, <1>15, <1>16, <1>17, <1>18, <1>19, <1>20, <1>21,
     <1>22, <1>23, <1>24, <1>25, <1>26, <1>27

LEMMA TypeStep ==
    ASSUME TypeOK, [Next]_vars
    PROVE  TypeOK'
<1> USE StartupAssumption
    DEF StartupAssumption, Flags, TypeOK, Screens, Gates,
        welcomeVars, updateVars, loadingVars, chainVars, overlayVars, retryVars,
        sessionVars
<1> Flags'
  BY FlagsStep
<1>1. CASE AnimationEnds
  BY <1>1 DEF AnimationEnds, WelcomeComplete, EnterStartupLoadingScreen
<1>2. ASSUME NEW r \in {"none", "some", "failed"}, DBReadyLate(r)
      PROVE  TypeOK'
  BY <1>2 DEF DBReadyLate, WelcomeComplete, EnterStartupLoadingScreen
<1>3. ASSUME NEW r \in {"none", "failed"}, DBReadyIdle(r)
      PROVE  TypeOK'
  BY <1>3 DEF DBReadyIdle
<1>4. CASE DBReadyStarts
  BY <1>4 DEF DBReadyStarts, BeginChain, NewChain, Result, Stage
<1>5. ASSUME NEW ok \in BOOLEAN, OnboardingComplete(ok)
      PROVE  TypeOK'
  BY <1>5 DEF OnboardingComplete, EnterStartupLoadingScreen
<1>6. ASSUME NEW r \in results, NEW next \in Stage, StageSucceeds(r, next)
      PROVE  TypeOK'
  BY <1>6 DEF StageSucceeds, Result
<1>7. ASSUME NEW r \in results, StageFails(r)
      PROVE  TypeOK'
  BY <1>7 DEF StageFails
<1>8. ASSUME NEW r \in results, Registered(r)
      PROVE  TypeOK'
  BY <1>8 DEF Registered, Continue
<1>9. ASSUME NEW r \in results, ResultDropped(r)
      PROVE  TypeOK'
  BY <1>9 DEF ResultDropped
<1>10. ASSUME NEW found \in BOOLEAN, UpdateChecked(found)
       PROVE  TypeOK'
  BY <1>10 DEF UpdateChecked, Continue, BeginChain, NewChain, Result, Stage
<1>11. CASE UpdateFails
  BY <1>11 DEF UpdateFails
<1>12. CASE UpdateApplied
  BY <1>12 DEF UpdateApplied
<1>13. CASE UpdateDropped
  BY <1>13 DEF UpdateDropped
<1>14. CASE AcceptUpdate
  BY <1>14 DEF AcceptUpdate
<1>15. CASE GoOnWithoutUpdate
  BY <1>15 DEF GoOnWithoutUpdate, Continue, BeginChain, NewChain, Result, Stage
<1>16. CASE Retry
  <2>1. Outdated(timers) \in SUBSET Timer
    BY OutdatedTimers
  <2>2. timers' \in SUBSET Timer
    BY <1>16, <2>1, NewTimer DEF Retry
  <2> QED
    BY <1>16, <2>2 DEF Retry
<1>17. ASSUME NEW t \in timers, RetryExpires(t)
       PROVE  TypeOK'
  BY <1>17, OutdatedTimers DEF RetryExpires, BeginChain, NewChain, Result, Stage
<1>18. ASSUME NEW t \in timers, RetryIgnored(t)
       PROVE  TypeOK'
  BY <1>18 DEF RetryIgnored
<1>19. CASE AskForSwitch
  BY <1>19 DEF AskForSwitch
<1>20. CASE OpenOverlay
  BY <1>20, OutdatedTimers DEF OpenOverlay, StopTimer
<1>21. CASE AskIgnored
  BY <1>21 DEF AskIgnored
<1>22. CASE OpenSettings
  BY <1>22 DEF OpenSettings
<1>23. CASE CloseOverlay
  BY <1>23 DEF CloseOverlay
<1>24. CASE SwitchFails
  BY <1>24 DEF SwitchFails
<1>25. CASE Switch
  BY <1>25, OutdatedTimers DEF Switch, StopTimer, BeginChain, NewChain, Result,
       Stage
<1>26. CASE Quit
  BY <1>26 DEF Quit
<1>27. CASE UNCHANGED vars
  BY <1>27 DEF vars
<1> QED
  BY StepCases, <1>1, <1>2, <1>3, <1>4, <1>5, <1>6, <1>7, <1>8, <1>9, <1>10,
     <1>11, <1>12, <1>13, <1>14, <1>15, <1>16, <1>17, <1>18, <1>19, <1>20, <1>21,
     <1>22, <1>23, <1>24, <1>25, <1>26, <1>27

\* TypeOK holds for every bound on retries, switches and requests.
THEOREM TypeCorrect == Spec => []TypeOK
<1>1. Init => TypeOK
  <2> SUFFICES ASSUME Init PROVE TypeOK
    OBVIOUS
  <2>1. Flags
    BY Zenon DEF Init, Flags
  <2> QED
    BY <2>1, StartupAssumption
       DEF StartupAssumption, Init, Flags, TypeOK, Screens, Gates
<1> QED
  BY <1>1, TypeStep, PTL DEF Spec

-----------------------------------------------------------------------------
(* The main screen behind the gate. *)

\* Complete means that the listener runs; before the loading screen there is
\* neither gate nor overlay.
GateInv ==
    /\ MainBehindGate
    /\ complete => listening
    /\ screen \in {"welcome", "onboarding"} => gate = "clear" /\ ~overlay

LEMMA GateStep ==
    ASSUME TypeOK, TypeOK', GateInv, [Next]_vars
    PROVE  GateInv'
<1> USE DEF Flags, TypeOK, GateInv, MainBehindGate,
        welcomeVars, updateVars, loadingVars, chainVars, overlayVars, retryVars,
        sessionVars
<1>1. CASE AnimationEnds
  BY <1>1 DEF AnimationEnds, WelcomeComplete, EnterStartupLoadingScreen
<1>2. ASSUME NEW r \in {"none", "some", "failed"}, DBReadyLate(r)
      PROVE  GateInv'
  BY <1>2 DEF DBReadyLate, WelcomeComplete, EnterStartupLoadingScreen
<1>3. ASSUME NEW r \in {"none", "failed"}, DBReadyIdle(r)
      PROVE  GateInv'
  BY <1>3 DEF DBReadyIdle
<1>4. CASE DBReadyStarts
  BY <1>4 DEF DBReadyStarts, BeginChain, NewChain
<1>5. ASSUME NEW ok \in BOOLEAN, OnboardingComplete(ok)
      PROVE  GateInv'
  BY <1>5 DEF OnboardingComplete, EnterStartupLoadingScreen
<1>6. ASSUME NEW r \in results, NEW next \in Stage, StageSucceeds(r, next)
      PROVE  GateInv'
  BY <1>6 DEF StageSucceeds, Handled, OnLoading
<1>7. ASSUME NEW r \in results, StageFails(r)
      PROVE  GateInv'
  BY <1>7 DEF StageFails, Handled, OnLoading
<1>8. ASSUME NEW r \in results, Registered(r)
      PROVE  GateInv'
  BY <1>8 DEF Registered, Continue, Handled, OnLoading
<1>9. ASSUME NEW r \in results, ResultDropped(r)
      PROVE  GateInv'
  BY <1>9 DEF ResultDropped, Handled, OnLoading
<1>10. ASSUME NEW found \in BOOLEAN, UpdateChecked(found)
       PROVE  GateInv'
  BY <1>10 DEF UpdateChecked, Continue, BeginChain, NewChain, OnLoading
<1>11. CASE UpdateFails
  BY <1>11 DEF UpdateFails, OnLoading
<1>12. CASE UpdateApplied
  BY <1>12 DEF UpdateApplied
<1>13. CASE UpdateDropped
  BY <1>13 DEF UpdateDropped
<1>14. CASE AcceptUpdate
  BY <1>14 DEF AcceptUpdate, OnLoading
<1>15. CASE GoOnWithoutUpdate
  BY <1>15 DEF GoOnWithoutUpdate, Continue, BeginChain, NewChain, OnLoading
<1>16. CASE Retry
  BY <1>16 DEF Retry, OnLoading
<1>17. ASSUME NEW t \in timers, RetryExpires(t)
       PROVE  GateInv'
  BY <1>17 DEF RetryExpires, BeginChain, NewChain, OnLoading
<1>18. ASSUME NEW t \in timers, RetryIgnored(t)
       PROVE  GateInv'
  BY <1>18 DEF RetryIgnored
<1>19. CASE AskForSwitch
  BY <1>19 DEF AskForSwitch, OnLoading
<1>20. CASE OpenOverlay
  BY <1>20 DEF OpenOverlay, StopTimer, OnLoading
<1>21. CASE AskIgnored
  BY <1>21 DEF AskIgnored
<1>22. CASE OpenSettings
  BY <1>22 DEF OpenSettings
<1>23. CASE CloseOverlay
  BY <1>23 DEF CloseOverlay
<1>24. CASE SwitchFails
  BY <1>24 DEF SwitchFails
<1>25. CASE Switch
  BY <1>25 DEF Switch, StopTimer, BeginChain, NewChain
<1>26. CASE Quit
  BY <1>26 DEF Quit
<1>27. CASE UNCHANGED vars
  BY <1>27 DEF vars
<1> QED
  BY StepCases, <1>1, <1>2, <1>3, <1>4, <1>5, <1>6, <1>7, <1>8, <1>9, <1>10,
     <1>11, <1>12, <1>13, <1>14, <1>15, <1>16, <1>17, <1>18, <1>19, <1>20, <1>21,
     <1>22, <1>23, <1>24, <1>25, <1>26, <1>27

\* The main screen is shown only with the gate clear and the listener started.
THEOREM MainBehindItsGate == Spec => []MainBehindGate
<1>1. Init => GateInv
  BY DEF Init, GateInv, MainBehindGate
<1>2. TypeOK /\ TypeOK' /\ GateInv /\ [Next]_vars => GateInv'
  BY GateStep
<1>3. GateInv => MainBehindGate
  BY DEF GateInv
<1> QED
  BY <1>1, <1>2, <1>3, TypeCorrect, PTL DEF Spec

-----------------------------------------------------------------------------
(* The loading screen is no dead end. *)

\* The gate is set while the updater works, and a chain that has begun and is
\* neither complete nor under way has failed.
PendingInv ==
    /\ screen = "welcome" => (started <=> ready = "some")
    /\ screen = "onboarding" => ~started
    /\ screen = "loading" /\ gate = "checking" => updating = "check" \/ lost
    /\ screen = "loading" /\ gate = "applying" => updating = "apply" \/ lost
    /\ screen \in {"welcome", "loading"} /\ started /\ ~complete =>
           results # {} \/ err \/ lost
    /\ screen = "loading" /\ gate = "clear" => results # {} \/ err \/ lost

LEMMA PendingStep ==
    ASSUME TypeOK, TypeOK', GateInv, PendingInv, [Next]_vars
    PROVE  PendingInv'
<1> USE DEF Flags, TypeOK, GateInv, MainBehindGate, PendingInv, Screens,
        welcomeVars, updateVars, loadingVars, chainVars, overlayVars, retryVars,
        sessionVars
<1>1. CASE AnimationEnds
  BY <1>1 DEF AnimationEnds, WelcomeComplete, EnterStartupLoadingScreen
<1>2. ASSUME NEW r \in {"none", "some", "failed"}, DBReadyLate(r)
      PROVE  PendingInv'
  BY <1>2 DEF DBReadyLate, WelcomeComplete, EnterStartupLoadingScreen
<1>3. ASSUME NEW r \in {"none", "failed"}, DBReadyIdle(r)
      PROVE  PendingInv'
  BY <1>3 DEF DBReadyIdle
<1>4. CASE DBReadyStarts
  BY <1>4 DEF DBReadyStarts, BeginChain, NewChain
<1>5. ASSUME NEW ok \in BOOLEAN, OnboardingComplete(ok)
      PROVE  PendingInv'
  BY <1>5 DEF OnboardingComplete, EnterStartupLoadingScreen
<1>6. ASSUME NEW r \in results, NEW next \in Stage, StageSucceeds(r, next)
      PROVE  PendingInv'
  BY <1>6 DEF StageSucceeds, Handled, OnLoading
<1>7. ASSUME NEW r \in results, StageFails(r)
      PROVE  PendingInv'
  BY <1>7 DEF StageFails, Handled, OnLoading
<1>8. ASSUME NEW r \in results, Registered(r)
      PROVE  PendingInv'
  BY <1>8 DEF Registered, Continue, Handled, OnLoading
<1>9. ASSUME NEW r \in results, ResultDropped(r)
      PROVE  PendingInv'
  BY <1>9 DEF ResultDropped, Handled, OnLoading
<1>10. ASSUME NEW found \in BOOLEAN, UpdateChecked(found)
       PROVE  PendingInv'
  BY <1>10 DEF UpdateChecked, Continue, BeginChain, NewChain, OnLoading
<1>11. CASE UpdateFails
  BY <1>11 DEF UpdateFails, OnLoading
<1>12. CASE UpdateApplied
  BY <1>12 DEF UpdateApplied
<1>13. CASE UpdateDropped
  BY <1>13 DEF UpdateDropped
<1>14. CASE AcceptUpdate
  BY <1>14 DEF AcceptUpdate, OnLoading
<1>15. CASE GoOnWithoutUpdate
  BY <1>15 DEF GoOnWithoutUpdate, Continue, BeginChain, NewChain, OnLoading
<1>16. CASE Retry
  BY <1>16 DEF Retry, OnLoading
<1>17. ASSUME NEW t \in timers, RetryExpires(t)
       PROVE  PendingInv'
  BY <1>17 DEF RetryExpires, BeginChain, NewChain, OnLoading
<1>18. ASSUME NEW t \in timers, RetryIgnored(t)
       PROVE  PendingInv'
  BY <1>18 DEF RetryIgnored
<1>19. CASE AskForSwitch
  BY <1>19 DEF AskForSwitch, OnLoading
<1>20. CASE OpenOverlay
  BY <1>20 DEF OpenOverlay, StopTimer, OnLoading
<1>21. CASE AskIgnored
  BY <1>21 DEF AskIgnored
<1>22. CASE OpenSettings
  BY <1>22 DEF OpenSettings
<1>23. CASE CloseOverlay
  BY <1>23 DEF CloseOverlay
<1>24. CASE SwitchFails
  BY <1>24 DEF SwitchFails
<1>25. CASE Switch
  BY <1>25 DEF Switch, StopTimer, BeginChain, NewChain
<1>26. CASE Quit
  BY <1>26 DEF Quit
<1>27. CASE UNCHANGED vars
  BY <1>27 DEF vars
<1> QED
  BY StepCases, <1>1, <1>2, <1>3, <1>4, <1>5, <1>6, <1>7, <1>8, <1>9, <1>10,
     <1>11, <1>12, <1>13, <1>14, <1>15, <1>16, <1>17, <1>18, <1>19, <1>20, <1>21,
     <1>22, <1>23, <1>24, <1>25, <1>26, <1>27

\* The loading screen always has something under way, or asks the user, unless a
\* result was lost in the overlay.
THEOREM NoDeadEnd == Spec => []NeverStuck
<1>1. Init => GateInv /\ PendingInv
  BY DEF Init, GateInv, MainBehindGate, PendingInv
<1>2. TypeOK /\ TypeOK' /\ GateInv /\ [Next]_vars => GateInv'
  BY GateStep
<1>3. TypeOK /\ TypeOK' /\ GateInv /\ PendingInv /\ [Next]_vars => PendingInv'
  BY PendingStep
<1>4. TypeOK /\ PendingInv => NeverStuck
  BY DEF TypeOK, Gates, PendingInv, NeverStuck, OnLoading
<1> QED
  BY <1>1, <1>2, <1>3, <1>4, TypeCorrect, PTL DEF Spec

-----------------------------------------------------------------------------
(* Timers. *)

\* A timer of the current generation is that of the last retry, on this connection.
TimerInv == \A t \in timers : t.live => t.no = retries /\ t.connection = connection

LEMMA TimerStep ==
    ASSUME TypeOK, TypeOK', TimerInv, [Next]_vars
    PROVE  TimerInv'
<1> timers \in SUBSET Timer
  BY DEF TypeOK
<1> USE DEF TimerInv,
        welcomeVars, updateVars, loadingVars, chainVars, overlayVars, retryVars,
        sessionVars
<1>1. CASE AnimationEnds
  BY <1>1 DEF AnimationEnds, WelcomeComplete, EnterStartupLoadingScreen
<1>2. ASSUME NEW r \in {"none", "some", "failed"}, DBReadyLate(r)
      PROVE  TimerInv'
  BY <1>2 DEF DBReadyLate, WelcomeComplete, EnterStartupLoadingScreen
<1>3. ASSUME NEW r \in {"none", "failed"}, DBReadyIdle(r)
      PROVE  TimerInv'
  BY <1>3 DEF DBReadyIdle
<1>4. CASE DBReadyStarts
  BY <1>4 DEF DBReadyStarts, BeginChain, NewChain
<1>5. ASSUME NEW ok \in BOOLEAN, OnboardingComplete(ok)
      PROVE  TimerInv'
  BY <1>5 DEF OnboardingComplete, EnterStartupLoadingScreen
<1>6. ASSUME NEW r \in results, NEW next \in Stage, StageSucceeds(r, next)
      PROVE  TimerInv'
  BY <1>6 DEF StageSucceeds
<1>7. ASSUME NEW r \in results, StageFails(r)
      PROVE  TimerInv'
  BY <1>7 DEF StageFails
<1>8. ASSUME NEW r \in results, Registered(r)
      PROVE  TimerInv'
  BY <1>8 DEF Registered, Continue
<1>9. ASSUME NEW r \in results, ResultDropped(r)
      PROVE  TimerInv'
  BY <1>9 DEF ResultDropped
<1>10. ASSUME NEW found \in BOOLEAN, UpdateChecked(found)
       PROVE  TimerInv'
  BY <1>10 DEF UpdateChecked, Continue, BeginChain, NewChain
<1>11. CASE UpdateFails
  BY <1>11 DEF UpdateFails
<1>12. CASE UpdateApplied
  BY <1>12 DEF UpdateApplied
<1>13. CASE UpdateDropped
  BY <1>13 DEF UpdateDropped
<1>14. CASE AcceptUpdate
  BY <1>14 DEF AcceptUpdate
<1>15. CASE GoOnWithoutUpdate
  BY <1>15 DEF GoOnWithoutUpdate, Continue, BeginChain, NewChain
<1>16. CASE Retry
  BY <1>16, OutdatedTimers DEF Retry
<1>17. ASSUME NEW t \in timers, RetryExpires(t)
       PROVE  TimerInv'
  BY <1>17, OutdatedTimers DEF RetryExpires, BeginChain, NewChain
<1>18. ASSUME NEW t \in timers, RetryIgnored(t)
       PROVE  TimerInv'
  BY <1>18 DEF RetryIgnored
<1>19. CASE AskForSwitch
  BY <1>19 DEF AskForSwitch
<1>20. CASE OpenOverlay
  BY <1>20, OutdatedTimers DEF OpenOverlay, StopTimer
<1>21. CASE AskIgnored
  BY <1>21 DEF AskIgnored
<1>22. CASE OpenSettings
  BY <1>22 DEF OpenSettings
<1>23. CASE CloseOverlay
  BY <1>23 DEF CloseOverlay
<1>24. CASE SwitchFails
  BY <1>24 DEF SwitchFails
<1>25. CASE Switch
  BY <1>25, OutdatedTimers DEF Switch, StopTimer, BeginChain, NewChain
<1>26. CASE Quit
  BY <1>26 DEF Quit
<1>27. CASE UNCHANGED vars
  BY <1>27 DEF vars
<1> QED
  BY StepCases, <1>1, <1>2, <1>3, <1>4, <1>5, <1>6, <1>7, <1>8, <1>9, <1>10,
     <1>11, <1>12, <1>13, <1>14, <1>15, <1>16, <1>17, <1>18, <1>19, <1>20, <1>21,
     <1>22, <1>23, <1>24, <1>25, <1>26, <1>27

LEMMA TimerUse ==
    ASSUME TypeOK, TimerInv, [Next]_vars
    PROVE  LastRetryStarts
<1> timers \in SUBSET Timer
  BY DEF TypeOK
<1> USE DEF TimerInv, LastRetryStarts,
        welcomeVars, updateVars, loadingVars, chainVars, overlayVars, retryVars,
        sessionVars
<1>1. CASE AnimationEnds
  BY <1>1 DEF AnimationEnds, WelcomeComplete, EnterStartupLoadingScreen
<1>2. ASSUME NEW r \in {"none", "some", "failed"}, DBReadyLate(r)
      PROVE  LastRetryStarts
  BY <1>2 DEF DBReadyLate, WelcomeComplete, EnterStartupLoadingScreen
<1>3. ASSUME NEW r \in {"none", "failed"}, DBReadyIdle(r)
      PROVE  LastRetryStarts
  BY <1>3 DEF DBReadyIdle
<1>4. CASE DBReadyStarts
  BY <1>4 DEF DBReadyStarts, BeginChain, NewChain
<1>5. ASSUME NEW ok \in BOOLEAN, OnboardingComplete(ok)
      PROVE  LastRetryStarts
  BY <1>5 DEF OnboardingComplete, EnterStartupLoadingScreen
<1>6. ASSUME NEW r \in results, NEW next \in Stage, StageSucceeds(r, next)
      PROVE  LastRetryStarts
  BY <1>6 DEF StageSucceeds
<1>7. ASSUME NEW r \in results, StageFails(r)
      PROVE  LastRetryStarts
  BY <1>7 DEF StageFails
<1>8. ASSUME NEW r \in results, Registered(r)
      PROVE  LastRetryStarts
  BY <1>8 DEF Registered, Continue
<1>9. ASSUME NEW r \in results, ResultDropped(r)
      PROVE  LastRetryStarts
  BY <1>9 DEF ResultDropped
<1>10. ASSUME NEW found \in BOOLEAN, UpdateChecked(found)
       PROVE  LastRetryStarts
  BY <1>10 DEF UpdateChecked, Continue, BeginChain, NewChain
<1>11. CASE UpdateFails
  BY <1>11 DEF UpdateFails
<1>12. CASE UpdateApplied
  BY <1>12 DEF UpdateApplied
<1>13. CASE UpdateDropped
  BY <1>13 DEF UpdateDropped
<1>14. CASE AcceptUpdate
  BY <1>14 DEF AcceptUpdate
<1>15. CASE GoOnWithoutUpdate
  BY <1>15 DEF GoOnWithoutUpdate, Continue, BeginChain, NewChain
<1>16. CASE Retry
  BY <1>16, OutdatedTimers DEF Retry
<1>17. ASSUME NEW t \in timers, RetryExpires(t)
       PROVE  LastRetryStarts
  BY <1>17, OutdatedTimers DEF RetryExpires, BeginChain, NewChain
<1>18. ASSUME NEW t \in timers, RetryIgnored(t)
       PROVE  LastRetryStarts
  BY <1>18 DEF RetryIgnored
<1>19. CASE AskForSwitch
  BY <1>19 DEF AskForSwitch
<1>20. CASE OpenOverlay
  BY <1>20, OutdatedTimers DEF OpenOverlay, StopTimer
<1>21. CASE AskIgnored
  BY <1>21 DEF AskIgnored
<1>22. CASE OpenSettings
  BY <1>22 DEF OpenSettings
<1>23. CASE CloseOverlay
  BY <1>23 DEF CloseOverlay
<1>24. CASE SwitchFails
  BY <1>24 DEF SwitchFails
<1>25. CASE Switch
  BY <1>25, OutdatedTimers DEF Switch, StopTimer, BeginChain, NewChain
<1>26. CASE Quit
  BY <1>26 DEF Quit
<1>27. CASE UNCHANGED vars
  BY <1>27 DEF vars
<1> QED
  BY StepCases, <1>1, <1>2, <1>3, <1>4, <1>5, <1>6, <1>7, <1>8, <1>9, <1>10,
     <1>11, <1>12, <1>13, <1>14, <1>15, <1>16, <1>17, <1>18, <1>19, <1>20, <1>21,
     <1>22, <1>23, <1>24, <1>25, <1>26, <1>27

\* A timer starts a chain only for the last retry, on the connection of that retry.
THEOREM TimersAreCurrent == Spec => OnlyLastRetry
<1>1. Init => TimerInv
  BY DEF Init, TimerInv
<1>2. TypeOK /\ TypeOK' /\ TimerInv /\ [Next]_vars => TimerInv'
  BY TimerStep
<1>3. TypeOK /\ TimerInv /\ [Next]_vars => [LastRetryStarts]_vars
  BY TimerUse
<1> QED
  BY <1>1, <1>2, <1>3, TypeCorrect, PTL DEF Spec, OnlyLastRetry

-----------------------------------------------------------------------------
(* One chain at a time. *)

(***************************************************************************)
(* While no SwitchDatabaseMsg has come late: at most one command of a      *)
(* chain is under way, and none where a new chain may begin, that is after *)
(* an error, when the startup is complete, in the overlay and on the       *)
(* screens without a chain.  A chain not begun by the update gate, with    *)
(* started still FALSE, exists only where no update check is under way.    *)
(***************************************************************************)
Alone ==
    /\ \A r, s \in results : r = s /\ r.connection = connection
    /\ err \/ complete \/ overlay \/ screen \in {"main", "onboarding"} => results = {}
    /\ screen = "loading" /\ err => ~complete
    /\ screen = "loading" /\ overlay => err
    /\ (\E t \in timers : t.live /\ timerSet) => err
    /\ ~started /\ screen = "loading" /\ (err \/ results # {}) =>
           gate = "clear" /\ updating = "none"
    /\ screen = "welcome" => (started <=> ready = "some")
    /\ screen = "onboarding" => ~started
    /\ screen \in {"welcome", "onboarding"} => ~err /\ timers = {} /\ updating = "none"
    /\ ~started /\ screen \in {"welcome", "onboarding"} => results = {} /\ ~complete

ChainInv == raced \/ Alone

LEMMA ChainStep ==
    ASSUME TypeOK, TypeOK', GateInv, ChainInv, [Next]_vars
    PROVE  ChainInv'
<1> timers \in SUBSET Timer
  BY DEF TypeOK
<1> USE DEF Flags, TypeOK, GateInv, MainBehindGate, ChainInv, Alone, Screens,
        welcomeVars, updateVars, loadingVars, chainVars, overlayVars, retryVars,
        sessionVars
<1>1. CASE AnimationEnds
  BY <1>1 DEF AnimationEnds, WelcomeComplete, EnterStartupLoadingScreen
<1>2. ASSUME NEW r \in {"none", "some", "failed"}, DBReadyLate(r)
      PROVE  ChainInv'
  BY <1>2 DEF DBReadyLate, WelcomeComplete, EnterStartupLoadingScreen
<1>3. ASSUME NEW r \in {"none", "failed"}, DBReadyIdle(r)
      PROVE  ChainInv'
  BY <1>3 DEF DBReadyIdle
<1>4. CASE DBReadyStarts
  BY <1>4 DEF DBReadyStarts, BeginChain, NewChain
<1>5. ASSUME NEW ok \in BOOLEAN, OnboardingComplete(ok)
      PROVE  ChainInv'
  BY <1>5 DEF OnboardingComplete, EnterStartupLoadingScreen
<1>6. ASSUME NEW r \in results, NEW next \in Stage, StageSucceeds(r, next)
      PROVE  ChainInv'
  BY <1>6 DEF StageSucceeds, Handled, OnLoading
<1>7. ASSUME NEW r \in results, StageFails(r)
      PROVE  ChainInv'
  BY <1>7 DEF StageFails, Handled, OnLoading
<1>8. ASSUME NEW r \in results, Registered(r)
      PROVE  ChainInv'
  BY <1>8 DEF Registered, Continue, Handled, OnLoading
<1>9. ASSUME NEW r \in results, ResultDropped(r)
      PROVE  ChainInv'
  BY <1>9 DEF ResultDropped, Handled, OnLoading
<1>10. ASSUME NEW found \in BOOLEAN, UpdateChecked(found)
       PROVE  ChainInv'
  BY <1>10 DEF UpdateChecked, Continue, BeginChain, NewChain, OnLoading
<1>11. CASE UpdateFails
  BY <1>11 DEF UpdateFails, OnLoading
<1>12. CASE UpdateApplied
  BY <1>12 DEF UpdateApplied
<1>13. CASE UpdateDropped
  BY <1>13 DEF UpdateDropped
<1>14. CASE AcceptUpdate
  BY <1>14 DEF AcceptUpdate, OnLoading
<1>15. CASE GoOnWithoutUpdate
  BY <1>15 DEF GoOnWithoutUpdate, Continue, BeginChain, NewChain, OnLoading
<1>16. CASE Retry
  BY <1>16, OutdatedTimers DEF Retry, OnLoading
<1>17. ASSUME NEW t \in timers, RetryExpires(t)
       PROVE  ChainInv'
  BY <1>17, OutdatedTimers DEF RetryExpires, BeginChain, NewChain, OnLoading
<1>18. ASSUME NEW t \in timers, RetryIgnored(t)
       PROVE  ChainInv'
  BY <1>18 DEF RetryIgnored
<1>19. CASE AskForSwitch
  BY <1>19 DEF AskForSwitch, OnLoading
<1>20. CASE OpenOverlay
  BY <1>20, OutdatedTimers DEF OpenOverlay, StopTimer, OnLoading
<1>21. CASE AskIgnored
  BY <1>21 DEF AskIgnored
<1>22. CASE OpenSettings
  BY <1>22 DEF OpenSettings
<1>23. CASE CloseOverlay
  BY <1>23 DEF CloseOverlay
<1>24. CASE SwitchFails
  BY <1>24 DEF SwitchFails
<1>25. CASE Switch
  BY <1>25, OutdatedTimers DEF Switch, StopTimer, BeginChain, NewChain
<1>26. CASE Quit
  BY <1>26 DEF Quit
<1>27. CASE UNCHANGED vars
  BY <1>27 DEF vars
<1> QED
  BY StepCases, <1>1, <1>2, <1>3, <1>4, <1>5, <1>6, <1>7, <1>8, <1>9, <1>10,
     <1>11, <1>12, <1>13, <1>14, <1>15, <1>16, <1>17, <1>18, <1>19, <1>20, <1>21,
     <1>22, <1>23, <1>24, <1>25, <1>26, <1>27

\* One command is under way, and of the present connection.
THEOREM OneChainAtATime == Spec => []OneChain
<1>1. Init => GateInv /\ ChainInv
  BY DEF Init, GateInv, MainBehindGate, ChainInv, Alone
<1>2. TypeOK /\ TypeOK' /\ GateInv /\ [Next]_vars => GateInv'
  BY GateStep
<1>3. TypeOK /\ TypeOK' /\ GateInv /\ ChainInv /\ [Next]_vars => ChainInv'
  BY ChainStep
<1>4. ChainInv => OneChain
  BY DEF ChainInv, Alone, OneChain
<1> QED
  BY <1>1, <1>2, <1>3, <1>4, TypeCorrect, PTL DEF Spec
=============================================================================
