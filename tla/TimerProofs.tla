---------------------------- MODULE TimerProofs ----------------------------
(***************************************************************************)
(* Proofs about Timer for every set of callers and every period.           *)
(***************************************************************************)
EXTENDS Timer, TLAPS

\* Every step of the specification, one disjunct for each action.
LEMMA StepCases ==
  ASSUME [Next]_timerVars
  PROVE  \/ \E c \in Callers : RunCall(c) \/ ShutdownCall(c)
         \/ \E c \in Callers : Spawn(c) \/ RunReturns(c) \/ RunWaited(c)
         \/ \E c \in Callers : Stop(c) \/ Join(c) \/ ShutdownWaited(c)
         \/ Destroy
         \/ ThreadStart \/ LoopCheck \/ WakeUp \/ LoopRecheck \/ CallbackReturns
         \/ Tick
         \/ UNCHANGED timerVars
BY DEF Next, CallerCalls, CallerInside, TimerWorks, Finished

LEMMA TypeStep == TypeOK /\ [Next]_timerVars => TypeOK'
<1> SUFFICES ASSUME TypeOK, [Next]_timerVars
             PROVE  TypeOK'
  OBVIOUS
<1> USE DEF TypeOK, CallerStep, CallerPositions, InRun, InShutdown, OnceStates,
            TimerPositions, onces, clocks
<1>1. ASSUME NEW c \in Callers, RunCall(c) \/ ShutdownCall(c)
      PROVE  TypeOK'
  BY <1>1 DEF RunCall, ShutdownCall
<1>2. ASSUME NEW c \in Callers, Spawn(c) \/ RunReturns(c) \/ RunWaited(c)
      PROVE  TypeOK'
  BY <1>2, ZenonT(60) DEF Spawn, RunReturns, RunWaited
<1>3. ASSUME NEW c \in Callers, Stop(c) \/ Join(c) \/ ShutdownWaited(c)
      PROVE  TypeOK'
  BY <1>3, ZenonT(60) DEF Stop, Join, ShutdownWaited, Back
<1>4. CASE Destroy
  BY <1>4 DEF Destroy
<1>5. CASE ThreadStart \/ LoopCheck \/ WakeUp \/ LoopRecheck \/ CallbackReturns
  <2>1. 0 \in 0..Period
    BY PeriodIsPositive
  <2>2. /\ asleep' \in 0..Period /\ sinceCall' \in 0..Period
        /\ m_running' \in BOOLEAN /\ timer' \in TimerPositions
    BY <1>5, <2>1
    DEF TimerStep, ThreadStart, LoopCheck, WakeUp, LoopRecheck, CallbackReturns
  <2>3. UNCHANGED <<onces, joinable, caller, dying, told>>
    BY <1>5 DEF TimerStep, ThreadStart, LoopCheck, WakeUp, LoopRecheck, CallbackReturns
  <2>4. QED BY <2>2, <2>3
<1>6. CASE Tick
  <2>1. asleep' \in 0..Period /\ sinceCall' \in 0..Period
    BY <1>6, PeriodIsPositive DEF Tick
  <2>2. QED BY <1>6, <2>1 DEF Tick
<1>7. CASE UNCHANGED timerVars
  BY <1>7 DEF timerVars
<1>8. QED BY <1>1, <1>2, <1>3, <1>4, <1>5, <1>6, <1>7, StepCases

-----------------------------------------------------------------------------
(* The once_flags *)

LEMMA OnceStep == IInv /\ [Next]_timerVars => OnceFlags'
<1> SUFFICES ASSUME IInv, [Next]_timerVars
             PROVE  OnceFlags'
  OBVIOUS
<1> USE DEF IInv, TypeOK, OnceFlags, CallerStep, Spawning, Stopping, InRun, InShutdown, onces
<1>1. ASSUME NEW c \in Callers, RunCall(c)
      PROVE  OnceFlags'
  BY <1>1 DEF RunCall
<1>2. ASSUME NEW c \in Callers, ShutdownCall(c)
      PROVE  OnceFlags'
  BY <1>2 DEF ShutdownCall
<1>3. ASSUME NEW c \in Callers, Spawn(c)
      PROVE  OnceFlags'
  BY <1>3 DEF Spawn
<1>4. ASSUME NEW c \in Callers, RunReturns(c)
      PROVE  OnceFlags'
  BY <1>4 DEF RunReturns
<1>5. ASSUME NEW c \in Callers, RunWaited(c)
      PROVE  OnceFlags'
  BY <1>5 DEF RunWaited
<1>6. ASSUME NEW c \in Callers, Stop(c)
      PROVE  OnceFlags'
  BY <1>6 DEF Stop
<1>7. ASSUME NEW c \in Callers, Join(c)
      PROVE  OnceFlags'
  BY <1>7 DEF Join, Back
<1>8. ASSUME NEW c \in Callers, ShutdownWaited(c)
      PROVE  OnceFlags'
  BY <1>8 DEF ShutdownWaited, Back
<1>9. CASE Destroy
  BY <1>9 DEF Destroy
<1>10. CASE ThreadStart \/ LoopCheck \/ WakeUp \/ LoopRecheck \/ CallbackReturns
  BY <1>10 DEF TimerStep, ThreadStart, LoopCheck, WakeUp, LoopRecheck, CallbackReturns
<1>11. CASE Tick
  BY <1>11 DEF Tick
<1>12. CASE UNCHANGED timerVars
  BY <1>12 DEF timerVars
<1>13. QED
  BY <1>1, <1>2, <1>3, <1>4, <1>5, <1>6, <1>7, <1>8, <1>9, <1>10, <1>11, <1>12, StepCases

-----------------------------------------------------------------------------
(* The life of the timer thread *)

LEMMA LifeStep == IInv /\ [Next]_timerVars => ThreadLife'
<1> SUFFICES ASSUME IInv, [Next]_timerVars
             PROVE  ThreadLife'
  OBVIOUS
<1> USE DEF IInv, TypeOK, OnceFlags, ThreadLife, CallerStep, Spawning, Stopping,
            InRun, InShutdown, onces, clocks, ShutdownLast
<1>1. ASSUME NEW c \in Callers, RunCall(c)
      PROVE  ThreadLife'
  BY <1>1 DEF RunCall
<1>2. ASSUME NEW c \in Callers, ShutdownCall(c)
      PROVE  ThreadLife'
  BY <1>2 DEF ShutdownCall, RunFirst
<1>3. ASSUME NEW c \in Callers, Spawn(c)
      PROVE  ThreadLife'
  BY <1>3 DEF Spawn
<1>4. ASSUME NEW c \in Callers, RunReturns(c)
      PROVE  ThreadLife'
  BY <1>4 DEF RunReturns
<1>5. ASSUME NEW c \in Callers, RunWaited(c)
      PROVE  ThreadLife'
  BY <1>5 DEF RunWaited
<1>6. ASSUME NEW c \in Callers, Stop(c)
      PROVE  ThreadLife'
  BY <1>6 DEF Stop
<1>7. ASSUME NEW c \in Callers, Join(c)
      PROVE  ThreadLife'
  BY <1>7 DEF Join, Back
<1>8. ASSUME NEW c \in Callers, ShutdownWaited(c)
      PROVE  ThreadLife'
  BY <1>8 DEF ShutdownWaited, Back
<1>9. CASE Destroy
  BY <1>9 DEF Destroy
<1>10. CASE ThreadStart \/ LoopCheck \/ WakeUp \/ LoopRecheck \/ CallbackReturns
  BY <1>10 DEF TimerStep, ThreadStart, LoopCheck, WakeUp, LoopRecheck, CallbackReturns
<1>11. CASE Tick
  BY <1>11 DEF Tick
<1>12. CASE UNCHANGED timerVars
  BY <1>12 DEF timerVars
<1>13. QED
  BY <1>1, <1>2, <1>3, <1>4, <1>5, <1>6, <1>7, <1>8, <1>9, <1>10, <1>11, <1>12, StepCases

LEMMA LastStep == IInv /\ [Next]_timerVars => ShutdownLast'
<1> SUFFICES ASSUME IInv, [Next]_timerVars
             PROVE  ShutdownLast'
  OBVIOUS
<1> USE DEF IInv, TypeOK, OnceFlags, ThreadLife, CallerStep, Spawning, Stopping,
            InRun, InShutdown, onces, clocks, ShutdownLast, CallerPositions
<1>1. ASSUME NEW c \in Callers, RunCall(c)
      PROVE  ShutdownLast'
  <2>1. ~dying /\ caller[c] = "outside" /\ UNCHANGED <<shutdown_once, joinable, dying, told>>
    BY <1>1 DEF RunCall
  <2>2. shutdown_once # "idle" => run_once' = "done"
    BY <1>1, <2>1 DEF RunCall
  <2>3. \A d \in Callers : caller'[d] = "destroyed" => caller[d] = "destroyed"
    BY <1>1 DEF RunCall
  <2>4. \A d \in Callers : caller[d] # "destroyed"
    BY <2>1
  <2>5. QED
    <3>1. shutdown_once' # "idle" => run_once' = "done" \/ (run_once' = "idle" /\ dying')
      BY <2>1, <2>2
    <3>2. shutdown_once' = "done" => ~joinable'
      BY <2>1
    <3>3. told' => shutdown_once' = "done"
      BY <2>1
    <3>4. ~dying'
      BY <2>1
    <3>5. QED BY <2>3, <2>4, <3>1, <3>2, <3>3, <3>4
<1>2. ASSUME NEW c \in Callers, ShutdownCall(c)
      PROVE  ShutdownLast'
  <2>1. /\ caller[c] = "outside" /\ UNCHANGED <<run_once, joinable, dying, told>>
        /\ shutdown_once' = IF shutdown_once = "idle" THEN "busy" ELSE shutdown_once
        /\ \A d \in Callers : d # c => caller'[d] = caller[d]
        /\ caller'[c] \in InShutdown
    BY <1>2 DEF ShutdownCall
  <2>2. dying => c = Owner
    BY <1>2 DEF ShutdownCall, RunFirst
  <2>3. run_once = "done" \/ (run_once = "idle" /\ dying)
    <3>1. CASE dying
      <4>1. \A d \in Callers : caller[d] \notin Spawning
        BY <2>1, <2>2, <3>1
      <4>2. run_once # "busy"
        BY <4>1
      <4>3. QED BY <3>1, <4>2 DEF OnceStates
    <3>2. CASE ~dying
      BY <1>2, <3>2 DEF ShutdownCall, RunFirst
    <3>3. QED BY <3>1, <3>2
  <2>4. dying' => \A d \in Callers : caller'[d] = "outside" \/
                   (d = Owner /\ caller'[d] \in InShutdown \cup {"destroyed"})
    BY <2>1, <2>2
  <2>5. \A d \in Callers : caller'[d] = "destroyed" => dying' /\ told'
    BY <2>1
  <2>6. shutdown_once' = "done" => ~joinable'
    BY <2>1
  <2>7. told' => shutdown_once' = "done"
    BY <2>1
  <2>8. QED BY <2>1, <2>3, <2>4, <2>5, <2>6, <2>7
<1>3. ASSUME NEW c \in Callers, Spawn(c)
      PROVE  ShutdownLast'
  BY <1>3 DEF Spawn
<1>4. ASSUME NEW c \in Callers, RunReturns(c)
      PROVE  ShutdownLast'
  BY <1>4 DEF RunReturns
<1>5. ASSUME NEW c \in Callers, RunWaited(c)
      PROVE  ShutdownLast'
  BY <1>5 DEF RunWaited
<1>6. ASSUME NEW c \in Callers, Stop(c)
      PROVE  ShutdownLast'
  BY <1>6 DEF Stop
<1>7. ASSUME NEW c \in Callers, Join(c)
      PROVE  ShutdownLast'
  BY <1>7 DEF Join, Back
<1>8. ASSUME NEW c \in Callers, ShutdownWaited(c)
      PROVE  ShutdownLast'
  BY <1>8 DEF ShutdownWaited, Back
<1>9. CASE Destroy
  BY <1>9 DEF Destroy
<1>10. CASE ThreadStart \/ LoopCheck \/ WakeUp \/ LoopRecheck \/ CallbackReturns
  BY <1>10 DEF TimerStep, ThreadStart, LoopCheck, WakeUp, LoopRecheck, CallbackReturns
<1>11. CASE Tick
  BY <1>11 DEF Tick
<1>12. CASE UNCHANGED timerVars
  BY <1>12 DEF timerVars
<1>13. QED
  BY <1>1, <1>2, <1>3, <1>4, <1>5, <1>6, <1>7, <1>8, <1>9, <1>10, <1>11, <1>12, StepCases

-----------------------------------------------------------------------------
(* The clocks *)

LEMMA SleepStep == IInv /\ [Next]_timerVars => SleepCovered'
<1> SUFFICES ASSUME IInv, [Next]_timerVars
             PROVE  SleepCovered'
  OBVIOUS
<1> USE DEF IInv, TypeOK, SleepCovered, onces, clocks
<1>1. ASSUME NEW c \in Callers, RunCall(c)
      PROVE  SleepCovered'
  BY <1>1 DEF RunCall
<1>2. ASSUME NEW c \in Callers, ShutdownCall(c)
      PROVE  SleepCovered'
  BY <1>2 DEF ShutdownCall, RunFirst
<1>3. ASSUME NEW c \in Callers, Spawn(c)
      PROVE  SleepCovered'
  BY <1>3 DEF Spawn
<1>4. ASSUME NEW c \in Callers, RunReturns(c)
      PROVE  SleepCovered'
  BY <1>4 DEF RunReturns
<1>5. ASSUME NEW c \in Callers, RunWaited(c)
      PROVE  SleepCovered'
  BY <1>5 DEF RunWaited
<1>6. ASSUME NEW c \in Callers, Stop(c)
      PROVE  SleepCovered'
  BY <1>6 DEF Stop
<1>7. ASSUME NEW c \in Callers, Join(c)
      PROVE  SleepCovered'
  BY <1>7 DEF Join, Back
<1>8. ASSUME NEW c \in Callers, ShutdownWaited(c)
      PROVE  SleepCovered'
  BY <1>8 DEF ShutdownWaited, Back
<1>9. CASE Destroy
  BY <1>9 DEF Destroy
<1>10. CASE ThreadStart \/ LoopCheck \/ WakeUp \/ LoopRecheck \/ CallbackReturns
  BY <1>10 DEF TimerStep, ThreadStart, LoopCheck, WakeUp, LoopRecheck, CallbackReturns
<1>11. CASE Tick
  BY <1>11 DEF Tick
<1>12. CASE UNCHANGED timerVars
  BY <1>12 DEF timerVars
<1>13. QED
  BY <1>1, <1>2, <1>3, <1>4, <1>5, <1>6, <1>7, <1>8, <1>9, <1>10, <1>11, <1>12, StepCases

-----------------------------------------------------------------------------
(* The inductive invariant and what follows from it *)

LEMMA IInvInit == Init => IInv
<1> SUFFICES ASSUME Init PROVE IInv
  OBVIOUS
<1>1. TypeOK
  <2>1. 0 \in 0..Period
    BY PeriodIsPositive
  <2>2. QED BY <2>1 DEF Init, TypeOK, OnceStates, TimerPositions, CallerPositions
<1>2. OnceFlags
  BY DEF Init, OnceFlags, InRun, InShutdown, Spawning, Stopping
<1>3. ThreadLife /\ ShutdownLast /\ SleepCovered
  BY DEF Init, ThreadLife, ShutdownLast, SleepCovered
<1>4. QED BY <1>1, <1>2, <1>3 DEF IInv

LEMMA IInvStep == IInv /\ [Next]_timerVars => IInv'
BY TypeStep, OnceStep, LifeStep, LastStep, SleepStep DEF IInv

\* Whatever the callers, within their rule, and whatever the period: the
\* once_flags, the life of the thread, the order of run() and shutdown() and the
\* clocks are as IInv says.
THEOREM InductiveInvariant == SafeSpec => []IInv
BY IInvInit, IInvStep, PTL DEF SafeSpec

\* The flags, the thread and the callers keep their types.
THEOREM TypeCorrect == SafeSpec => []TypeOK
<1>1. IInv => TypeOK
  BY DEF IInv
<1>2. QED BY InductiveInvariant, <1>1, PTL

\* No callback runs or begins once timer_t::shutdown() has returned to any of
\* its callers, the first or a later one.
THEOREM SilentAfterShutdown == SafeSpec => []SilentOnceShutdown
<1>1. IInv => SilentOnceShutdown
  BY DEF IInv, ThreadLife, ShutdownLast, SilentOnceShutdown
<1>2. QED BY InductiveInvariant, <1>1, PTL

\* ~timer_t() never destroys a joinable std::thread.
THEOREM NeverTerminates == SafeSpec => []NothingToTerminate
<1>1. IInv => NothingToTerminate
  BY OwnerIsACaller DEF IInv, ShutdownLast, NothingToTerminate
<1>2. QED BY InductiveInvariant, <1>1, PTL

\* timer_t::run() starts one thread, however many threads call it.
THEOREM RunStartsOneThread == SafeSpec => OneThread
<1> DEFINE A == timer' = "spawned" /\ timer # "spawned" => timer = "none" /\ ~joinable
<1>1. IInv /\ [Next]_timerVars => A
  <2> SUFFICES ASSUME IInv, [Next]_timerVars, timer' = "spawned", timer # "spawned"
               PROVE  timer = "none" /\ ~joinable
    OBVIOUS
  <2>1. PICK c \in Callers : Spawn(c)
    BY StepCases
    DEF RunCall, ShutdownCall, RunReturns, RunWaited, Stop, Join, ShutdownWaited, Destroy,
        TimerStep, ThreadStart, LoopCheck, WakeUp, LoopRecheck, CallbackReturns, Tick, timerVars
  <2>2. QED BY <2>1 DEF IInv, ThreadLife, Spawn, CallerStep
<1>2. QED BY InductiveInvariant, <1>1, PTL DEF SafeSpec, OneThread

\* A thread that starts late never sets m_running again after shutdown() reset it.
THEOREM ShutdownIsFinal == SafeSpec => NoRevival
<1> DEFINE A == m_running' /\ ~m_running => shutdown_once = "idle"
<1>1. IInv /\ [Next]_timerVars => A
  <2> SUFFICES ASSUME IInv, [Next]_timerVars, m_running', ~m_running
               PROVE  shutdown_once = "idle"
    OBVIOUS
  <2>1. ThreadStart
    BY StepCases
    DEF RunCall, ShutdownCall, Spawn, RunReturns, RunWaited, Stop, Join, ShutdownWaited,
        Destroy, LoopCheck, WakeUp, LoopRecheck, CallbackReturns, Tick, timerVars, clocks
  <2>2. QED BY <2>1 DEF IInv, ThreadLife, ShutdownLast, ThreadStart, TimerStep
<1>2. QED BY InductiveInvariant, <1>1, PTL DEF SafeSpec, NoRevival

\* The callback is never called before a period has passed since the thread
\* started or called it last.
THEOREM CallbacksAPeriodApart == SafeSpec => NeverTooSoon
<1> DEFINE A == timer = "recheck" /\ timer' = "calling" => sinceCall = Period
<1>1. IInv /\ [Next]_timerVars => A
  BY DEF IInv, SleepCovered
<1>2. QED BY InductiveInvariant, <1>1, PTL DEF SafeSpec, NeverTooSoon
=============================================================================
