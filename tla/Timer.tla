------------------------------- MODULE Timer -------------------------------
(***************************************************************************)
(* core::timer_t (src/core/timer.cpp): a thread that sleeps for a period,  *)
(* calls back, and starts over until it is shut down.                      *)
(*                                                                         *)
(* run() and shutdown() are guarded by a std::once_flag each: the first    *)
(* call does the work, a call that comes while it is being done waits for  *)
(* it, a later one returns at once.  m_running is an atomic that the       *)
(* callers and the timer thread share with no lock.                        *)
(*                                                                         *)
(* The callers keep to one rule, RunFirst: nobody calls shutdown() before  *)
(* run() has returned, except the destructor of a timer nobody ran.  The   *)
(* server keeps to it (src/server/main.cpp); the README of this project    *)
(* says what happens to a program that does not.                           *)
(***************************************************************************)
EXTENDS Naturals

CONSTANTS
  Callers,   \* the threads that call run() and shutdown()
  Owner,     \* the one of them that destroys the timer
  Period     \* m_duration, in ticks of the clock

\* The assertion of the constructor.
ASSUME PeriodIsPositive == Period \in Nat \ {0}

ASSUME OwnerIsACaller == Owner \in Callers

VARIABLES
  m_running,       \* the atomic flag
  run_once,        \* m_run_once: "idle", "busy" while the first call works, "done"
  shutdown_once,   \* m_shutdown_once, likewise
  joinable,        \* m_thread holds a thread that was not joined
  timer,           \* where the timer thread is
  caller,          \* where each caller is
  dying,           \* the owner is in, or has left, the destructor
  asleep,          \* for how many ticks the thread sleeps, at most Period
  sinceCall,       \* ticks since the thread started or last called back, at most Period
  told             \* history: some call of shutdown() returned

onces == <<run_once, shutdown_once>>
clocks == <<asleep, sinceCall>>
timerVars == <<m_running, run_once, shutdown_once, joinable, timer, caller, dying,
               asleep, sinceCall, told>>

OnceStates == {"idle", "busy", "done"}

TimerPositions == {"none", "spawned", "check", "sleeping", "recheck", "calling", "done"}

InRun == {"spawn", "spin", "run_wait"}
InShutdown == {"stop", "join", "shutdown_wait"}
CallerPositions == {"outside", "destroyed"} \cup InRun \cup InShutdown

Init ==
  /\ m_running = FALSE
  /\ run_once = "idle"
  /\ shutdown_once = "idle"
  /\ joinable = FALSE
  /\ timer = "none"
  /\ caller = [c \in Callers |-> "outside"]
  /\ dying = FALSE
  /\ asleep = 0
  /\ sinceCall = 0
  /\ told = FALSE

CallerStep(c, from, to) ==
  /\ caller[c] = from
  /\ caller' = [caller EXCEPT ![c] = to]

-----------------------------------------------------------------------------
(* run() *)

\* The first call does the work; any other waits in call_once until it is done.
RunCall(c) ==
  /\ ~dying
  /\ CallerStep(c, "outside", IF run_once = "idle" THEN "spawn" ELSE "run_wait")
  /\ run_once' = IF run_once = "idle" THEN "busy" ELSE run_once
  /\ UNCHANGED <<m_running, shutdown_once, joinable, timer, dying, clocks, told>>

\* Slip: run() does not wait until the thread has set m_running.
SpawnReturns(c) ==
  /\ CallerStep(c, "spawn", "outside")
  /\ timer' = "spawned"
  /\ joinable' = TRUE
  /\ run_once' = "done"
  /\ UNCHANGED <<m_running, shutdown_once, dying, clocks, told>>

Spawn(c) ==
  /\ CallerStep(c, "spawn", "spin")
  /\ timer' = "spawned"
  /\ joinable' = TRUE
  /\ UNCHANGED <<m_running, onces, dying, clocks, told>>

\* while( !m_running ) yield()
RunReturns(c) ==
  /\ m_running
  /\ CallerStep(c, "spin", "outside")
  /\ run_once' = "done"
  /\ UNCHANGED <<m_running, shutdown_once, joinable, timer, dying, clocks, told>>

RunWaited(c) ==
  /\ run_once = "done"
  /\ CallerStep(c, "run_wait", "outside")
  /\ UNCHANGED <<m_running, onces, joinable, timer, dying, clocks, told>>

-----------------------------------------------------------------------------
(* shutdown() and the destructor, which calls it *)

\* The owner destroys a timer that no other thread is inside of.
Destroy ==
  /\ ~dying
  /\ \A c \in Callers : caller[c] = "outside"
  /\ dying' = TRUE
  /\ UNCHANGED <<m_running, onces, joinable, timer, caller, clocks, told>>

\* The rule the callers keep to.
RunFirst(c) == IF dying THEN c = Owner ELSE run_once = "done"

ShutdownCall(c) ==
  /\ RunFirst(c)
  /\ CallerStep(c, "outside", IF shutdown_once = "idle" THEN "stop" ELSE "shutdown_wait")
  /\ shutdown_once' = IF shutdown_once = "idle" THEN "busy" ELSE shutdown_once
  /\ UNCHANGED <<m_running, run_once, joinable, timer, dying, clocks, told>>

\* Slip: m_running is not reset.
StopForgotten(c) ==
  /\ CallerStep(c, "stop", "join")
  /\ UNCHANGED <<m_running, onces, joinable, timer, dying, clocks, told>>

Stop(c) ==
  /\ CallerStep(c, "stop", "join")
  /\ m_running' = FALSE
  /\ UNCHANGED <<onces, joinable, timer, dying, clocks, told>>

\* Where a call of shutdown() returns to.
Back == IF dying THEN "destroyed" ELSE "outside"

\* Slip: m_thread is left alone.
JoinForgotten(c) ==
  /\ CallerStep(c, "join", Back)
  /\ shutdown_once' = "done"
  /\ told' = TRUE
  /\ UNCHANGED <<m_running, run_once, joinable, timer, dying, clocks>>

\* ~thread_join_guard: join the timer thread if there is one to join.
Join(c) ==
  /\ joinable => timer = "done"
  /\ CallerStep(c, "join", Back)
  /\ joinable' = FALSE
  /\ shutdown_once' = "done"
  /\ told' = TRUE
  /\ UNCHANGED <<m_running, run_once, timer, dying, clocks>>

\* Slip: a call that is not the first one does not wait for it.
ShutdownSkipped(c) ==
  /\ CallerStep(c, "shutdown_wait", Back)
  /\ told' = TRUE
  /\ UNCHANGED <<m_running, onces, joinable, timer, dying, clocks>>

ShutdownWaited(c) ==
  /\ shutdown_once = "done"
  /\ CallerStep(c, "shutdown_wait", Back)
  /\ told' = TRUE
  /\ UNCHANGED <<m_running, onces, joinable, timer, dying, clocks>>

-----------------------------------------------------------------------------
(* The timer thread *)

TimerStep(from, to) ==
  /\ timer = from
  /\ timer' = to
  /\ UNCHANGED <<onces, joinable, caller, dying, told>>

ThreadStart ==
  /\ TimerStep("spawned", "check")
  /\ m_running' = TRUE
  /\ sinceCall' = 0
  /\ UNCHANGED asleep

\* Slip: the next sleep is reckoned from the beginning of the first one.
LoopCheckStaleDeadline ==
  /\ TimerStep("check", IF m_running THEN "sleeping" ELSE "done")
  /\ UNCHANGED <<m_running, clocks>>

\* while( m_running ), then sleep_for( m_duration ).
LoopCheck ==
  /\ TimerStep("check", IF m_running THEN "sleeping" ELSE "done")
  /\ asleep' = 0
  /\ UNCHANGED <<m_running, sinceCall>>

WakeUp ==
  /\ asleep = Period
  /\ TimerStep("sleeping", "recheck")
  /\ UNCHANGED <<m_running, clocks>>

\* m_running is read again after the sleep; the callback is being called from
\* then on, and shutdown() may come between the two.
LoopRecheck ==
  /\ TimerStep("recheck", IF m_running THEN "calling" ELSE "done")
  /\ sinceCall' = IF m_running THEN 0 ELSE sinceCall
  /\ UNCHANGED <<m_running, asleep>>

\* Slip: the loop is left after the callback.
CallbackEndsLoop ==
  /\ TimerStep("calling", "done")
  /\ UNCHANGED <<m_running, clocks>>

CallbackReturns ==
  /\ TimerStep("calling", "check")
  /\ UNCHANGED <<m_running, clocks>>

\* Time passes; both clocks stop at Period, past which nothing tells them apart.
Tick ==
  /\ \/ timer = "sleeping" /\ asleep < Period
     \/ timer \in {"check", "sleeping", "recheck", "calling"} /\ sinceCall < Period
  /\ asleep' = IF timer = "sleeping" /\ asleep < Period THEN asleep + 1 ELSE asleep
  /\ sinceCall' = IF sinceCall < Period THEN sinceCall + 1 ELSE sinceCall
  /\ UNCHANGED <<m_running, onces, joinable, timer, caller, dying, told>>

-----------------------------------------------------------------------------
CallerCalls(c) == RunCall(c) \/ ShutdownCall(c)

CallerInside(c) ==
  \/ Spawn(c) \/ RunReturns(c) \/ RunWaited(c)
  \/ Stop(c) \/ Join(c) \/ ShutdownWaited(c)
  \/ dying /\ ShutdownCall(c)

TimerWorks == ThreadStart \/ LoopCheck \/ WakeUp \/ LoopRecheck \/ CallbackReturns

Finished ==
  /\ caller[Owner] = "destroyed"
  /\ UNCHANGED timerVars

Next ==
  \/ \E c \in Callers : CallerCalls(c) \/ CallerInside(c)
  \/ Destroy
  \/ TimerWorks
  \/ Tick
  \/ Finished

SafeSpec == Init /\ [][Next]_timerVars

\* Every thread that can run does, the callback returns, a sleep ends when its
\* time is over and time passes.  Whether and when to call is the callers' choice.
Fairness ==
  /\ \A c \in Callers : WF_timerVars(CallerInside(c))
  /\ WF_timerVars(TimerWorks)
  /\ WF_timerVars(Tick)

Spec == SafeSpec /\ Fairness

-----------------------------------------------------------------------------
(* Safety *)

\* The variables hold what the code's types allow.
TypeOK ==
  /\ m_running \in BOOLEAN
  /\ run_once \in OnceStates
  /\ shutdown_once \in OnceStates
  /\ joinable \in BOOLEAN
  /\ timer \in TimerPositions
  /\ caller \in [Callers -> CallerPositions]
  /\ dying \in BOOLEAN
  /\ asleep \in 0..Period
  /\ sinceCall \in 0..Period
  /\ told \in BOOLEAN

\* Once any call of shutdown() returned, the one that did the work or another,
\* the callback is not running and never runs again: task_generator_t may go.
SilentOnceShutdown == told => timer \in {"none", "done"}

\* The destructor leaves no joinable std::thread behind, which would end the
\* process with std::terminate().
NothingToTerminate == caller[Owner] = "destroyed" => ~joinable

\* However many threads call run(), and however often, one thread is started.
OneThread == [][timer' = "spawned" /\ timer # "spawned" => timer = "none" /\ ~joinable]_timerVars

\* The assignment m_running = true of a starting thread never undoes the
\* m_running = false of a shutdown().
NoRevival == [][m_running' /\ ~m_running => shutdown_once = "idle"]_timerVars

\* A period at least lies between the start of the thread and the first
\* callback and between two callbacks, however long a callback takes.
NeverTooSoon ==
  [][timer = "recheck" /\ timer' = "calling" => sinceCall = Period]_timerVars

-----------------------------------------------------------------------------
(* The inductive invariant behind the properties above *)

Spawning == {"spawn", "spin"}
Stopping == {"stop", "join"}

\* One caller at a time does the work of a once_flag, while the flag is busy.
OnceFlags ==
  /\ run_once = "busy" <=> \E c \in Callers : caller[c] \in Spawning
  /\ shutdown_once = "busy" <=> \E c \in Callers : caller[c] \in Stopping
  /\ \A c, d \in Callers : c # d =>
       /\ caller[c] \in Spawning => caller[d] \notin Spawning
       /\ caller[c] \in Stopping => caller[d] \notin Stopping
  /\ run_once = "idle" => \A c \in Callers : caller[c] \notin InRun
  /\ shutdown_once = "idle" => \A c \in Callers : caller[c] \notin InShutdown

\* Which part of its life the thread is in, by the flags.
ThreadLife ==
  /\ timer = "none" <=> run_once = "idle" \/ \E c \in Callers : caller[c] = "spawn"
  /\ run_once = "done" => timer \notin {"none", "spawned"}
  /\ timer \in {"none", "spawned"} => ~m_running
  /\ joinable => timer # "none"
  /\ ~joinable => timer \in {"none", "done"}

\* A shutdown comes after run(), or to a timer that never runs.
ShutdownLast ==
  /\ shutdown_once # "idle" => run_once = "done" \/ (run_once = "idle" /\ dying)
  /\ shutdown_once = "done" => ~joinable
  /\ told => shutdown_once = "done"
  /\ dying => \A c \in Callers : caller[c] = "outside" \/
               (c = Owner /\ caller[c] \in InShutdown \cup {"destroyed"})
  /\ \A c \in Callers : caller[c] = "destroyed" => dying /\ told

\* The time since the last callback covers the sleep.
SleepCovered ==
  /\ timer = "sleeping" => asleep <= sinceCall
  /\ timer = "recheck" => sinceCall = Period

IInv == TypeOK /\ OnceFlags /\ ThreadLife /\ ShutdownLast /\ SleepCovered

-----------------------------------------------------------------------------
(* Liveness *)

\* Each call comes back: run() from its spinning or its waiting, shutdown()
\* from the join of a thread that sleeps for a whole period.
CallsReturn ==
  \A c \in Callers :
    caller[c] \in InRun \cup InShutdown ~> caller[c] \in {"outside", "destroyed"}

\* Once run() returned, the callback is called again and again until the timer
\* is shut down.
CalledUntilShutdown == run_once = "done" ~> timer = "calling" \/ shutdown_once # "idle"
=============================================================================
