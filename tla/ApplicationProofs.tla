------------------------- MODULE ApplicationProofs -------------------------
(***************************************************************************)
(* Proofs about Application.                                               *)
(***************************************************************************)
EXTENDS Application, TLAPS

\* Every step of the specification, one disjunct for each action.
LEMMA StepCases ==
  ASSUME [Next]_vars
  PROVE  \/ Kill \/ SpuriousWakeup
         \/ ConstructHandler \/ AddObserver \/ BuildComponents \/ BuildThrows \/ Unwind
         \/ RunHandler \/ RunReturns
         \/ AwaitLock \/ AwaitAssert \/ AwaitPredicate \/ AwaitBlocks \/ AwaitRelock
         \/ DestroyComponents \/ DestroyApplication \/ Exit
         \/ SignalStart \/ Sigwait \/ ShutdownLock \/ ShutdownAssign \/ ShutdownUnlock
         \/ ShutdownNotify \/ ShutdownNotifyDangling
         \/ UNCHANGED vars
BY DEF Next, MainThread, SignalThread, Ended

\* The steps before await() leave the handler's progress alone.
LEMMA ConstructionStep ==
  ASSUME IInv,
         ConstructHandler \/ AddObserver \/ BuildComponents \/ BuildThrows \/ Unwind
  PROVE  IInv'
<1> USE DEF IInv, TypeOK, HandlerLife, SignalProgress, MutexHolders, AwaitSaw, Masked,
            NoLostShutdown, BeforeRun, AfterAwait, MainPositions, SignalPositions, Outcomes,
            Threads, Workers, MainStep, Inherit
<1>1. CASE ConstructHandler
  BY <1>1 DEF ConstructHandler
<1>2. CASE AddObserver
  BY <1>2 DEF AddObserver
<1>3. CASE BuildComponents
  BY <1>3 DEF BuildComponents
<1>4. CASE BuildThrows
  BY <1>4 DEF BuildThrows
<1>5. CASE Unwind
  BY <1>5 DEF Unwind
<1>6. QED BY <1>1, <1>2, <1>3, <1>4, <1>5

\* await() from the start of the signal thread to its return.
LEMMA AwaitStep ==
  ASSUME IInv,
         \/ RunHandler \/ RunReturns \/ SpuriousWakeup
         \/ AwaitLock \/ AwaitAssert \/ AwaitPredicate \/ AwaitBlocks \/ AwaitRelock
  PROVE  IInv'
<1> USE DEF IInv, TypeOK, HandlerLife, SignalProgress, MutexHolders, AwaitSaw, Masked,
            NoLostShutdown, BeforeRun, AfterAwait, MainPositions, SignalPositions, Outcomes,
            Threads, Workers, MainStep, Inherit
<1>1. CASE RunHandler
  BY <1>1 DEF RunHandler
<1>2. CASE RunReturns
  BY <1>2 DEF RunReturns
<1>3. CASE SpuriousWakeup
  BY <1>3 DEF SpuriousWakeup
<1>4. CASE AwaitLock
  BY <1>4 DEF AwaitLock
<1>5. CASE AwaitAssert
  BY <1>5 DEF AwaitAssert
<1>6. CASE AwaitPredicate
  BY <1>6 DEF AwaitPredicate
<1>7. CASE AwaitBlocks
  BY <1>7 DEF AwaitBlocks
<1>8. CASE AwaitRelock
  BY <1>8 DEF AwaitRelock
<1>9. QED BY <1>1, <1>2, <1>3, <1>4, <1>5, <1>6, <1>7, <1>8

\* The end of main(), and a signal from outside.
LEMMA EndStep ==
  ASSUME IInv, DestroyComponents \/ DestroyApplication \/ Exit \/ Kill
  PROVE  IInv'
<1> USE DEF IInv, TypeOK, HandlerLife, SignalProgress, MutexHolders, AwaitSaw, Masked,
            NoLostShutdown, BeforeRun, AfterAwait, MainPositions, SignalPositions, Outcomes,
            Threads, Workers, MainStep
<1>1. CASE DestroyComponents
  BY <1>1 DEF DestroyComponents
<1>2. CASE DestroyApplication
  BY <1>2 DEF DestroyApplication
<1>3. CASE Exit
  BY <1>3 DEF Exit
<1>4. CASE Kill
  BY <1>4, ZenonT(60) DEF Kill
<1>5. QED BY <1>1, <1>2, <1>3, <1>4

\* The signal thread.
LEMMA SignalThreadStep ==
  ASSUME IInv,
         \/ SignalStart \/ Sigwait \/ ShutdownLock \/ ShutdownAssign \/ ShutdownUnlock
         \/ ShutdownNotify \/ ShutdownNotifyDangling
  PROVE  IInv'
<1> USE DEF IInv, TypeOK, HandlerLife, SignalProgress, MutexHolders, AwaitSaw, Masked,
            NoLostShutdown, BeforeRun, AfterAwait, MainPositions, SignalPositions, Outcomes,
            Threads, Workers, SignalStep, AppAlive
<1>1. CASE SignalStart
  BY <1>1 DEF SignalStart
<1>2. CASE Sigwait
  BY <1>2 DEF Sigwait
<1>3. CASE ShutdownLock
  BY <1>3 DEF ShutdownLock
<1>4. CASE ShutdownAssign
  BY <1>4 DEF ShutdownAssign
<1>5. CASE ShutdownUnlock
  BY <1>5 DEF ShutdownUnlock
<1>6. CASE ShutdownNotify
  BY <1>6 DEF ShutdownNotify
<1>7. CASE ShutdownNotifyDangling
  BY <1>7 DEF ShutdownNotifyDangling
<1>8. QED BY <1>1, <1>2, <1>3, <1>4, <1>5, <1>6, <1>7

-----------------------------------------------------------------------------
\* The invariant holds whatever the signals, the wakeups and the scheduler do, in
\* both builds of the code.
THEOREM InductiveInvariant == SafeSpec => []IInv
<1>1. Init => IInv
  BY DEF Init, IInv, TypeOK, HandlerLife, SignalProgress, MutexHolders, AwaitSaw,
         Masked, NoLostShutdown, BeforeRun, AfterAwait, MainPositions, SignalPositions, Outcomes,
         Threads, Workers
<1>2. IInv /\ [Next]_vars => IInv'
  <2> SUFFICES ASSUME IInv, [Next]_vars
               PROVE  IInv'
    OBVIOUS
  <2>1. CASE UNCHANGED vars
    BY <2>1 DEF vars, IInv, TypeOK, HandlerLife, SignalProgress, MutexHolders, AwaitSaw,
                Masked, NoLostShutdown
  <2>2. QED
    BY <2>1, StepCases, ConstructionStep, AwaitStep, EndStep, SignalThreadStep
<1>3. QED BY <1>1, <1>2, PTL DEF SafeSpec

\* The variables of the application and of the handler keep to their types.
THEOREM TypeCorrect == SafeSpec => []TypeOK
<1>1. IInv => TypeOK
  BY DEF IInv
<1>2. QED BY <1>1, InductiveInvariant, PTL

\* await() never sleeps through a shutdown that nobody will notify.
THEOREM ShutdownIsNotLost == SafeSpec => []NoLostShutdown
<1>1. IInv => NoLostShutdown
  BY DEF IInv
<1>2. QED BY <1>1, InductiveInvariant, PTL

\* However many signals come, the assertion in application_t::shutdown() holds.
THEOREM ShutdownHappensOnce == SafeSpec => []ShutdownOnce
<1>1. IInv => ShutdownOnce
  BY DEF IInv, SignalProgress, ShutdownOnce
<1>2. QED BY <1>1, InductiveInvariant, PTL

\* The critical section of application_t::shutdown() runs on an application that
\* main() has not destroyed, though nobody waits for the signal thread.
THEOREM ObserverMeetsLiveApplication == SafeSpec => []ObserverOnLiveApp
<1>1. IInv => ObserverOnLiveApp
  BY DEF IInv, TypeOK, MainPositions, HandlerLife, SignalProgress, MutexHolders, AwaitSaw,
         BeforeRun, AfterAwait, ObserverOnLiveApp, AppAlive
<1>2. QED BY <1>1, InductiveInvariant, PTL

\* main() returns EXIT_SUCCESS only after SIGUSR2 was taken.
THEOREM SuccessOnlyIfSignalled == SafeSpec => []SuccessMeansSignalled
<1>1. IInv => SuccessMeansSignalled
  BY DEF IInv, AwaitSaw, AfterAwait, SignalProgress, SuccessMeansSignalled
<1>2. QED BY <1>1, InductiveInvariant, PTL

\* Once SIGUSR2 is blocked in the main thread it never kills the process: every
\* other thread inherits the mask.
THEOREM MaskedIsNeverKilled == SafeSpec => NeverKilledOnceMasked
<1>1. IInv /\ [Next]_vars => [process' = "killed" => main = "enter"]_vars
  <2> SUFFICES ASSUME IInv, [Next]_vars, process' = "killed", main # "enter"
               PROVE  UNCHANGED vars
    OBVIOUS
  <2> USE DEF IInv, Masked, MainStep, SignalStep
  <2>1. CASE Kill
    BY <2>1 DEF Kill
  <2>2. CASE \/ SpuriousWakeup
             \/ ConstructHandler \/ AddObserver \/ BuildComponents \/ BuildThrows \/ Unwind
             \/ RunHandler \/ RunReturns
    BY <2>2 DEF SpuriousWakeup, ConstructHandler, AddObserver, BuildComponents, BuildThrows,
                Unwind, RunHandler, RunReturns
  <2>3. CASE \/ AwaitLock \/ AwaitAssert \/ AwaitPredicate \/ AwaitBlocks \/ AwaitRelock
             \/ DestroyComponents \/ DestroyApplication \/ Exit
    BY <2>3 DEF AwaitLock, AwaitAssert, AwaitPredicate, AwaitBlocks, AwaitRelock,
                DestroyComponents, DestroyApplication, Exit
  <2>4. CASE \/ SignalStart \/ Sigwait \/ ShutdownLock \/ ShutdownAssign \/ ShutdownUnlock
             \/ ShutdownNotify \/ ShutdownNotifyDangling
    BY <2>4 DEF SignalStart, Sigwait, ShutdownLock, ShutdownAssign, ShutdownUnlock,
                ShutdownNotify, ShutdownNotifyDangling
  <2>5. QED BY <2>1, <2>2, <2>3, <2>4, StepCases
<1>2. QED BY <1>1, InductiveInvariant, PTL DEF SafeSpec, NeverKilledOnceMasked
=============================================================================
