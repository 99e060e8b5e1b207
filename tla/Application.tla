----------------------------- MODULE Application -----------------------------
(***************************************************************************)
(* The life of one process, server or endpoint: main(), the application_t  *)
(* that blocks it (src/core/application.cpp), the signal_handler_t         *)
(* singleton with its detached thread (src/core/signal_handler.cpp), and   *)
(* the kernel that delivers SIGUSR2.                                       *)
(*                                                                         *)
(* main() builds the application first, then the components with their     *)
(* threads, then waits in await(); the signal thread takes the signal with *)
(* sigwait() and calls application_t::shutdown() through the observer.     *)
(* The handler's own mutex is only ever taken by the main thread and is    *)
(* left out; application_t::m_mutex is a variable.                         *)
(***************************************************************************)

VARIABLES
  ndebug,     \* the build: TRUE when assert() is compiled out; never changes
  process,    \* "running", or how the process ended
  main,       \* where the main thread is
  signal,     \* where the signal-handler thread is
  unblocked,  \* the live threads that do not block SIGUSR2
  pending,    \* SIGUSR2 is pending for the process (it does not queue)
  observing,  \* m_observers holds the application's callback
  m_running,  \* signal_handler_t::m_running
  g_signal,   \* signal_handler_t::g_signal
  m_state,    \* application_t::m_state
  m_mutex     \* the holder of application_t::m_mutex, or "nobody"

vars == <<ndebug, process, main, signal, unblocked, pending, observing,
          m_running, g_signal, m_state, m_mutex>>

\* The threads the components start, which inherit the main thread's mask.
Workers == {"worker"}

Threads == {"main", "signal"} \cup Workers

MainPositions ==
  {"enter", "masked", "built", "unwinding", "failed",
   "ready", "spin", "lock", "asserting", "predicate", "blocking", "waiting", "relock",
   "teardown", "app_dtor", "returning"}

SignalPositions ==
  {"none", "spawned", "sigwait", "lock", "asserting", "unlock", "notify", "finished"}

Outcomes == {"killed", "aborted", "crashed", "EXIT_SUCCESS", "EXIT_FAILURE"}

\* application_t is a local of main(): it lives from its constructor to the
\* end of main()'s block.
AppAlive == main \notin {"enter", "masked", "failed", "returning"}

Init ==
  /\ ndebug \in BOOLEAN
  /\ process = "running"
  /\ main = "enter"
  /\ signal = "none"
  /\ unblocked = {"main"}
  /\ pending = FALSE
  /\ observing = FALSE
  /\ m_running = FALSE      \* never initialised; the singleton's storage is zeroed
  /\ g_signal = "none"
  /\ m_state = "standby"
  /\ m_mutex = "nobody"

-----------------------------------------------------------------------------
(* The kernel *)

\* kill -USR2: the default action ends the process if some thread does not
\* block the signal; otherwise it stays pending until sigwait() takes it.
Kill ==
  /\ process = "running"
  /\ IF unblocked # {}
     THEN process' = "killed" /\ UNCHANGED pending
     ELSE pending' = TRUE /\ UNCHANGED process
  /\ UNCHANGED <<ndebug, main, signal, unblocked, observing,
                 m_running, g_signal, m_state, m_mutex>>

-----------------------------------------------------------------------------
(* main(): construction *)

\* The main thread moves and nothing else does but what the action says.
MainStep(from, to) ==
  /\ process = "running"
  /\ main = from
  /\ main' = to
  /\ UNCHANGED <<ndebug, g_signal>>

\* A thread the main thread starts has the main thread's signal mask.
Inherit(threads) ==
  unblocked' = IF "main" \in unblocked THEN unblocked \cup threads ELSE unblocked

\* Slip: pthread_sigmask() is not called.
ConstructHandlerNoMask ==
  /\ MainStep("enter", "masked")
  /\ UNCHANGED <<process, signal, unblocked, pending, observing, m_running, m_state, m_mutex>>

\* get_instance() constructs the singleton, which blocks SIGUSR2.
ConstructHandler ==
  /\ MainStep("enter", "masked")
  /\ unblocked' = unblocked \ {"main"}
  /\ UNCHANGED <<process, signal, pending, observing, m_running, m_state, m_mutex>>

AddObserver ==
  /\ MainStep("masked", "built")
  /\ observing' = TRUE
  /\ UNCHANGED <<process, signal, unblocked, pending, m_running, m_state, m_mutex>>

\* The components are built and run their threads.
BuildComponents ==
  /\ MainStep("built", "ready")
  /\ Inherit(Workers)
  /\ UNCHANGED <<process, signal, pending, observing, m_running, m_state, m_mutex>>

\* A socket constructor throws: the block unwinds, with the application.
BuildThrows ==
  /\ MainStep("built", "unwinding")
  /\ UNCHANGED <<process, signal, unblocked, pending, observing, m_running, m_state, m_mutex>>

Unwind ==
  /\ MainStep("unwinding", "failed")
  /\ UNCHANGED <<process, signal, unblocked, pending, observing, m_running, m_state, m_mutex>>

-----------------------------------------------------------------------------
(* application_t::await() on the main thread *)

\* signal_handler_t::run(): start the signal thread unless it runs already.
RunHandler ==
  /\ MainStep("ready", IF m_running THEN "lock" ELSE "spin")
  /\ IF m_running
     THEN UNCHANGED <<signal, unblocked>>
     ELSE signal' = "spawned" /\ Inherit({"signal"})
  /\ UNCHANGED <<process, pending, observing, m_running, m_state, m_mutex>>

\* while( !m_running ) yield()
RunReturns ==
  /\ m_running
  /\ MainStep("spin", "lock")
  /\ UNCHANGED <<process, signal, unblocked, pending, observing, m_running, m_state, m_mutex>>

AwaitLock ==
  /\ m_mutex = "nobody"
  /\ m_mutex' = "main"
  /\ MainStep("lock", "asserting")
  /\ UNCHANGED <<process, signal, unblocked, pending, observing, m_running, m_state>>

\* assert( m_state == standby ), under the mutex.
AwaitAssert ==
  /\ MainStep("asserting", "predicate")
  /\ process' = IF ~ndebug /\ m_state # "standby" THEN "aborted" ELSE process
  /\ UNCHANGED <<signal, unblocked, pending, observing, m_running, m_state, m_mutex>>

\* The predicate of m_notifier.wait(), under the mutex, which await() releases
\* when it returns.
AwaitPredicate ==
  /\ MainStep("predicate", IF m_state = "shutdown" THEN "teardown" ELSE "blocking")
  /\ m_mutex' = IF m_state = "shutdown" THEN "nobody" ELSE m_mutex
  /\ UNCHANGED <<process, signal, unblocked, pending, observing, m_running, m_state>>

\* wait() releases the mutex and blocks in one step.
AwaitBlocks ==
  /\ MainStep("blocking", "waiting")
  /\ m_mutex' = "nobody"
  /\ UNCHANGED <<process, signal, unblocked, pending, observing, m_running, m_state>>

SpuriousWakeup ==
  /\ MainStep("waiting", "relock")
  /\ UNCHANGED <<process, signal, unblocked, pending, observing, m_running, m_state, m_mutex>>

\* Slip: wait() is given no predicate.
AwaitRelockNoPredicate ==
  /\ m_mutex = "nobody"
  /\ MainStep("relock", "teardown")
  /\ UNCHANGED <<process, signal, unblocked, pending, observing, m_running, m_state, m_mutex>>

\* After a wakeup the predicate is tried again, under the mutex.
AwaitRelock ==
  /\ m_mutex = "nobody"
  /\ m_mutex' = "main"
  /\ MainStep("relock", "predicate")
  /\ UNCHANGED <<process, signal, unblocked, pending, observing, m_running, m_state>>

-----------------------------------------------------------------------------
(* main(): destruction, in the reverse order of construction *)

DestroyComponents ==
  /\ MainStep("teardown", "app_dtor")
  /\ unblocked' = unblocked \ Workers
  /\ UNCHANGED <<process, signal, pending, observing, m_running, m_state, m_mutex>>

DestroyApplication ==
  /\ MainStep("app_dtor", "returning")
  /\ UNCHANGED <<process, signal, unblocked, pending, observing, m_running, m_state, m_mutex>>

\* main() returns and the process ends, with the detached thread if it is
\* still there.
Exit ==
  /\ process = "running"
  /\ \/ main = "returning" /\ process' = "EXIT_SUCCESS"
     \/ main = "failed" /\ process' = "EXIT_FAILURE"
  /\ UNCHANGED <<ndebug, main, signal, unblocked, pending, observing,
                 m_running, g_signal, m_state, m_mutex>>

-----------------------------------------------------------------------------
(* The signal-handler thread *)

SignalStep(from, to) ==
  /\ process = "running"
  /\ signal = from
  /\ signal' = to
  /\ UNCHANGED <<ndebug, unblocked, observing>>

SignalStart ==
  /\ SignalStep("spawned", "sigwait")
  /\ m_running' = TRUE
  /\ UNCHANGED <<process, main, pending, g_signal, m_state, m_mutex>>

\* synchronous_signal_await(): take the signal and call the observers; an
\* error of sigwait() only makes it wait again.
Sigwait ==
  /\ pending
  /\ SignalStep("sigwait", IF observing THEN "lock" ELSE "finished")
  /\ pending' = FALSE
  /\ g_signal' = "usr2"
  /\ UNCHANGED <<process, main, m_running, m_state, m_mutex>>

\* Slip: m_state is assigned without the mutex.
ShutdownNoLock ==
  /\ SignalStep("lock", "asserting")
  /\ UNCHANGED <<process, main, pending, m_running, g_signal, m_state, m_mutex>>

\* application_t::shutdown(), called on the signal thread.
ShutdownLock ==
  /\ m_mutex = "nobody"
  /\ m_mutex' = "signal"
  /\ SignalStep("lock", "asserting")
  /\ UNCHANGED <<process, main, pending, m_running, g_signal, m_state>>

\* assert( shutdown != m_state ), then the assignment.
ShutdownAssign ==
  /\ SignalStep("asserting", "unlock")
  /\ IF ~ndebug /\ m_state = "shutdown"
     THEN process' = "aborted" /\ UNCHANGED m_state
     ELSE m_state' = "shutdown" /\ UNCHANGED process
  /\ UNCHANGED <<main, pending, m_running, g_signal, m_mutex>>

ShutdownUnlock ==
  /\ SignalStep("unlock", "notify")
  /\ m_mutex' = "nobody"
  /\ UNCHANGED <<process, main, pending, m_running, g_signal, m_state>>

\* Slip: notify_one() is forgotten.
ShutdownNotifyForgotten ==
  /\ AppAlive
  /\ SignalStep("notify", "finished")
  /\ UNCHANGED <<process, main, pending, m_running, g_signal, m_state, m_mutex>>

\* Slip: the thread goes back to sigwait() after SIGUSR2.
ShutdownNotifyResumes ==
  /\ AppAlive
  /\ SignalStep("notify", "sigwait")
  /\ main' = IF main = "waiting" THEN "relock" ELSE main
  /\ UNCHANGED <<process, pending, m_running, g_signal, m_state, m_mutex>>

\* m_notifier.notify_one(), after which await_result_e::shutdown ends the
\* thread.
ShutdownNotify ==
  /\ AppAlive
  /\ SignalStep("notify", "finished")
  /\ main' = IF main = "waiting" THEN "relock" ELSE main
  /\ UNCHANGED <<process, pending, m_running, g_signal, m_state, m_mutex>>

\* The same call on a condition variable that main() already destroyed is
\* undefined: it does nothing, or the process crashes.
ShutdownNotifyDangling ==
  /\ ~AppAlive
  /\ SignalStep("notify", "finished")
  /\ process' \in {"running", "crashed"}
  /\ UNCHANGED <<main, pending, m_running, g_signal, m_state, m_mutex>>

-----------------------------------------------------------------------------
MainThread ==
  \/ ConstructHandler \/ AddObserver \/ BuildComponents \/ BuildThrows \/ Unwind
  \/ RunHandler \/ RunReturns \/ AwaitLock \/ AwaitAssert \/ AwaitPredicate
  \/ AwaitBlocks \/ AwaitRelock
  \/ DestroyComponents \/ DestroyApplication \/ Exit

SignalThread ==
  \/ SignalStart \/ Sigwait
  \/ ShutdownLock \/ ShutdownAssign \/ ShutdownUnlock
  \/ ShutdownNotify \/ ShutdownNotifyDangling

Ended ==
  /\ process \in Outcomes
  /\ UNCHANGED vars

Next == Kill \/ MainThread \/ SignalThread \/ SpuriousWakeup \/ Ended

SafeSpec == Init /\ [][Next]_vars

\* The scheduler runs both threads, and the components' destructors return;
\* spurious wakeups of the main thread do not keep the mutex from the signal
\* thread for ever.  Nobody has to send a signal.
Fairness ==
  /\ WF_vars(MainThread)
  /\ WF_vars(SignalThread)
  /\ SF_vars(ShutdownLock)

Spec == SafeSpec /\ Fairness

-----------------------------------------------------------------------------
(* Safety *)

\* The variables hold what the code's types allow; m_state skips the enum's
\* third value, running, which the code never assigns.
TypeOK ==
  /\ ndebug \in BOOLEAN
  /\ process \in Outcomes \cup {"running"}
  /\ main \in MainPositions
  /\ signal \in SignalPositions
  /\ unblocked \subseteq Threads
  /\ pending \in BOOLEAN
  /\ observing \in BOOLEAN
  /\ m_running \in BOOLEAN
  /\ g_signal \in {"none", "usr2"}
  /\ m_state \in {"standby", "shutdown"}
  /\ m_mutex \in {"nobody", "main", "signal"}

\* The main thread never sleeps on a shutdown application unless the signal
\* thread is still to notify it.
NoLostShutdown ==
  main = "waiting" /\ m_state = "shutdown" => signal \in {"unlock", "notify"}

\* assert( state_e::shutdown != m_state ) in application_t::shutdown(): however
\* often SIGUSR2 is sent, the observer is called once.
ShutdownOnce == signal = "asserting" => m_state # "shutdown"

\* The observer runs its critical section on an application that exists,
\* although the signal thread is detached and nobody waits for it.
ObserverOnLiveApp == signal \in {"lock", "asserting", "unlock"} => AppAlive

\* main() reports success only if SIGUSR2 was taken: neither a spurious wakeup
\* nor the start of the signal thread ends await().
SuccessMeansSignalled == process = "EXIT_SUCCESS" => g_signal = "usr2"

\* Once the handler exists SIGUSR2 never meets its default action: every thread
\* of the process has inherited the mask.
NeverKilledOnceMasked == [][process' = "killed" => main = "enter"]_vars

\* assert( m_state == state_e::standby ) in application_t::await().  The code
\* does not meet it: the signal thread is started before await() takes the
\* mutex, and a SIGUSR2 sent until then shuts the application down first.
AwaitAssertHolds == main = "asserting" => m_state = "standby"

\* The README's requirement that a program ends correctly on SIGUSR2, in the
\* build without assertions: once the signal was taken, main() succeeds.  The
\* code does not meet it: shutdown() notifies after it released the mutex, when
\* main() may have destroyed the application.
SignalledEndsCorrectly ==
  ndebug /\ g_signal = "usr2" => process \in {"running", "EXIT_SUCCESS"}

-----------------------------------------------------------------------------
(* The inductive invariant behind the properties above *)

BeforeRun == {"enter", "masked", "built", "unwinding", "failed", "ready"}
AfterAwait == {"teardown", "app_dtor", "returning"}

\* The signal thread exists once await() started it, and the observer before that.
HandlerLife ==
  /\ signal = "none" <=> main \in BeforeRun
  /\ m_running <=> signal \notin {"none", "spawned"}
  /\ signal = "spawned" => main = "spin"
  /\ observing <=> main \notin {"enter", "masked"}

\* Where the signal thread is tells whether it took the signal and what it did.
SignalProgress ==
  /\ g_signal = "usr2" <=> signal \notin {"none", "spawned", "sigwait"}
  /\ m_state = "shutdown" <=> signal \in {"unlock", "notify", "finished"}

MutexHolders ==
  /\ m_mutex = "main" <=> main \in {"asserting", "predicate", "blocking"}
  /\ m_mutex = "signal" <=> signal \in {"asserting", "unlock"}

\* await() sleeps on what it saw under the mutex, and returns only after the
\* signal thread released it.
AwaitSaw ==
  /\ main = "blocking" => m_state # "shutdown"
  /\ main \in AfterAwait => signal \in {"notify", "finished"}
  /\ process = "EXIT_SUCCESS" => main = "returning"

\* Every thread after the first is started by one that blocks the signal.
Masked == unblocked = IF main = "enter" THEN {"main"} ELSE {}

IInv ==
  /\ TypeOK /\ HandlerLife /\ SignalProgress /\ MutexHolders /\ AwaitSaw /\ Masked
  /\ NoLostShutdown

-----------------------------------------------------------------------------
(* Liveness *)

\* A SIGUSR2 that became pending, before, during or after await(), ends the
\* process: it never hangs.  How it ends is another question, which
\* AwaitAssertHolds and SignalledEndsCorrectly ask.
SignalEndsProcess == pending ~> process # "running"
=============================================================================
