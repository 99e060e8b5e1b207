--------------------------- MODULE ServerProcess ---------------------------
(***************************************************************************)
(* The server (src/server/main.cpp): a timer makes a task every period,    *)
(* the gateway turns tasks into datagrams on the thread of its stream, and *)
(* the socket sender hands the datagrams to sendto() on the thread of its  *)
(* own stream.  main() builds sender, gateway and generator in that order, *)
(* waits for SIGUSR2, and destroys them in the reverse order.              *)
(*                                                                         *)
(* The timer is Timer; each stream is a Mailbox, which EventStream is      *)
(* proved to implement.  How await() comes to return is in Application.    *)
(***************************************************************************)
EXTENDS Naturals, Sequences, SequencesExt

CONSTANTS
  Period,    \* the period of the generator's timer, in ticks
  MaxTasks   \* bound: past it the callback makes no task

ASSUME MaxTasksIsNatural == MaxTasks \in Nat

\* The assertion of timer_t's constructor.
ASSUME PeriodIsPositive == Period \in Nat \ {0}

VARIABLES
  main,       \* where the main thread is
  made,       \* how many tasks were made; the n-th made is task n
  m_socket,   \* the sender's socket: "none", "open", "closed"
  wire,       \* history: the datagrams sendto() took, oldest first
  \* generator.m_timer
  m_running, run_once, shutdown_once, joinable, timer, caller, dying,
  asleep, sinceCall, told,
  \* gateway.m_tasks_stream
  t_phase, t_pending, t_current, t_handled, t_quiet,
  \* gateway.m_sender->m_datagrams_stream
  d_phase, d_pending, d_current, d_handled, d_quiet

T == INSTANCE Timer WITH Callers <- {"main"}, Owner <- "main"

Tasks == INSTANCE Mailbox
  WITH Events <- 1..MaxTasks, phase <- t_phase, pending <- t_pending,
       current <- t_current, handled <- t_handled, quiet <- t_quiet

Datagrams == INSTANCE Mailbox
  WITH Events <- 1..MaxTasks, phase <- d_phase, pending <- d_pending,
       current <- d_current, handled <- d_handled, quiet <- d_quiet

timerVars == <<m_running, run_once, shutdown_once, joinable, timer, caller, dying,
               asleep, sinceCall, told>>
taskVars == <<t_phase, t_pending, t_current, t_handled, t_quiet>>
datagramVars == <<d_phase, d_pending, d_current, d_handled, d_quiet>>
vars == <<main, made, m_socket, wire, timerVars, taskVars, datagramVars>>

Starting == {"sender", "gateway", "first_task", "timer"}
Stopping == {"generator", "close_tasks", "join_tasks", "close_datagrams", "join_datagrams",
             "close_socket"}
MainPositions == Starting \cup {"await"} \cup Stopping \cup {"EXIT_SUCCESS", "EXIT_FAILURE"}

Init ==
  /\ main = "sender"
  /\ made = 0
  /\ m_socket = "none"
  /\ wire = <<>>
  /\ T!Init
  /\ Tasks!Init
  /\ Datagrams!Init

MainStep(from, to) == main = from /\ main' = to

\* push(): a stream that is not running drops the event.
PostTask(n) == Tasks!Post(n) \/ (t_phase # "running" /\ UNCHANGED taskVars)
PostDatagram(n) == Datagrams!Post(n) \/ (d_phase # "running" /\ UNCHANGED datagramVars)

\* The generator's callback: make a task and post it to the gateway.
MakeTask ==
  IF made < MaxTasks
  THEN made' = made + 1 /\ PostTask(made + 1)
  ELSE UNCHANGED <<made, taskVars>>

-----------------------------------------------------------------------------
(* main(): construction *)

\* socket_sender_t(): the socket is open before the stream runs.
MakeSender ==
  /\ MainStep("sender", "gateway")
  /\ m_socket' = "open"
  /\ Datagrams!Open
  /\ UNCHANGED <<made, wire, timerVars, taskVars>>

\* socket() or setsockopt() fails and the constructor throws: the stream is
\* destroyed without having run.
SenderThrows ==
  /\ MainStep("sender", "EXIT_FAILURE")
  /\ m_socket' \in {"none", "closed"}
  /\ Datagrams!Close
  /\ UNCHANGED <<made, wire, timerVars, taskVars>>

MakeGateway ==
  /\ MainStep("gateway", "first_task")
  /\ Tasks!Open
  /\ UNCHANGED <<made, m_socket, wire, timerVars, datagramVars>>

\* task_generator_t::run() makes the first task on the main thread.
FirstTask ==
  /\ MainStep("first_task", "timer")
  /\ MakeTask
  /\ UNCHANGED <<m_socket, wire, timerVars, datagramVars>>

\* Then it runs the timer; main() goes on to await() when run() returns.
RunTimer ==
  /\ main = "timer"
  /\ \/ T!RunCall("main") /\ UNCHANGED main
     \/ T!Spawn("main") /\ UNCHANGED main
     \/ T!RunReturns("main") /\ main' = "await"
  /\ UNCHANGED <<made, m_socket, wire, taskVars, datagramVars>>

\* Slip: gateway and generator are declared in the wrong order.
SignalledSwapped ==
  /\ MainStep("await", "close_tasks")
  /\ UNCHANGED <<made, m_socket, wire, timerVars, taskVars, datagramVars>>

\* SIGUSR2 was taken and await() returns.
Signalled ==
  /\ MainStep("await", "generator")
  /\ UNCHANGED <<made, m_socket, wire, timerVars, taskVars, datagramVars>>

-----------------------------------------------------------------------------
(* main(): destruction *)

\* Slip: the timer is joined with m_running still set.
DestroyGeneratorUnstopped ==
  /\ main = "generator"
  /\ \/ T!Destroy /\ UNCHANGED main
     \/ T!ShutdownCall("main") /\ UNCHANGED main
     \/ T!StopForgotten("main") /\ UNCHANGED main
     \/ T!Join("main") /\ main' = "close_tasks"
  /\ UNCHANGED <<made, m_socket, wire, taskVars, datagramVars>>

\* ~task_generator_t() destroys the timer.
DestroyGenerator ==
  /\ main = "generator"
  /\ \/ T!Destroy /\ UNCHANGED main
     \/ T!ShutdownCall("main") /\ UNCHANGED main
     \/ T!Stop("main") /\ UNCHANGED main
     \/ T!Join("main") /\ main' = "close_tasks"
  /\ UNCHANGED <<made, m_socket, wire, taskVars, datagramVars>>

\* Slip: ~gateway_t() leaves it to the stream's destructor, which comes after
\* that of m_sender.
CloseTasksLate ==
  /\ MainStep("close_tasks", "close_datagrams")
  /\ UNCHANGED <<made, m_socket, wire, timerVars, taskVars, datagramVars>>

\* ~gateway_t() shuts its stream down and waits for the loop thread.
CloseTasks ==
  /\ MainStep("close_tasks", "join_tasks")
  /\ Tasks!Close
  /\ UNCHANGED <<made, m_socket, wire, timerVars, datagramVars>>

JoinTasks ==
  /\ MainStep("join_tasks", "close_datagrams")
  /\ Tasks!Quiesce
  /\ UNCHANGED <<made, m_socket, wire, timerVars, datagramVars>>

\* Slip: the socket is closed before the stream is shut down.
CloseSocketFirst ==
  /\ MainStep("close_datagrams", "join_datagrams")
  /\ Datagrams!Close
  /\ m_socket' = "closed"
  /\ UNCHANGED <<made, wire, timerVars, taskVars>>

\* The gateway's m_sender is the last reference to the sender: ~socket_sender_t()
\* does the same with its stream and then closes the socket.
CloseDatagrams ==
  /\ MainStep("close_datagrams", "join_datagrams")
  /\ Datagrams!Close
  /\ UNCHANGED <<made, m_socket, wire, timerVars, taskVars>>

JoinDatagrams ==
  /\ MainStep("join_datagrams", "close_socket")
  /\ Datagrams!Quiesce
  /\ UNCHANGED <<made, m_socket, wire, timerVars, taskVars>>

CloseSocket ==
  /\ MainStep("close_socket", "EXIT_SUCCESS")
  /\ m_socket' = "closed"
  /\ UNCHANGED <<made, wire, timerVars, taskVars, datagramVars>>

-----------------------------------------------------------------------------
(* The timer thread *)

TimerLoop ==
  /\ T!ThreadStart \/ T!LoopCheck \/ T!WakeUp \/ T!LoopRecheck
  /\ UNCHANGED <<main, made, m_socket, wire, taskVars, datagramVars>>

\* task_generator_t::on_timer()
OnTimer ==
  /\ T!CallbackReturns
  /\ MakeTask
  /\ UNCHANGED <<main, m_socket, wire, datagramVars>>

Tick ==
  /\ T!Tick
  /\ UNCHANGED <<main, made, m_socket, wire, taskVars, datagramVars>>

-----------------------------------------------------------------------------
(* The threads of the two streams *)

TakeTask ==
  /\ Tasks!Take
  /\ UNCHANGED <<main, made, m_socket, wire, timerVars, datagramVars>>

\* Slip: a task is dropped while datagrams wait to be sent.
OnTaskDropsWhenBusy ==
  /\ Tasks!Handle
  /\ IF d_pending = <<>> THEN PostDatagram(Head(t_current)) ELSE UNCHANGED datagramVars
  /\ UNCHANGED <<main, made, m_socket, wire, timerVars>>

\* gateway_t::on_event(): serialise the task and send it; now() always gives a
\* valid timestamp, so to_datagram() does not throw here.
OnTask ==
  /\ Tasks!Handle
  /\ PostDatagram(Head(t_current))
  /\ UNCHANGED <<main, made, m_socket, wire, timerVars>>

TakeDatagram ==
  /\ Datagrams!Take
  /\ UNCHANGED <<main, made, m_socket, wire, timerVars, taskVars>>

\* Slip: a datagram that sendto() refused is kept for another try.
OnDatagramRetries ==
  /\ Datagrams!Handle
  /\ wire' \in {wire, wire \o d_current, wire \o d_current \o d_current}
  /\ UNCHANGED <<main, made, m_socket, timerVars, taskVars>>

\* socket_sender_t::on_event(): one sendto(), whose failure is only logged.
OnDatagram ==
  /\ Datagrams!Handle
  /\ wire' \in {wire, wire \o d_current}
  /\ UNCHANGED <<main, made, m_socket, timerVars, taskVars>>

-----------------------------------------------------------------------------
MainThread ==
  \/ MakeSender \/ SenderThrows \/ MakeGateway \/ FirstTask \/ RunTimer
  \/ DestroyGenerator \/ CloseTasks \/ JoinTasks
  \/ CloseDatagrams \/ JoinDatagrams \/ CloseSocket

TimerThread == TimerLoop \/ OnTimer
GatewayThread == TakeTask \/ OnTask
SenderThread == TakeDatagram \/ OnDatagram

Finished ==
  /\ main \in {"EXIT_SUCCESS", "EXIT_FAILURE"}
  /\ UNCHANGED vars

Next == MainThread \/ Signalled \/ TimerThread \/ Tick \/ GatewayThread \/ SenderThread \/ Finished

SafeSpec == Init /\ [][Next]_vars

\* The scheduler runs the four threads, time passes and sendto() returns;
\* nobody has to send SIGUSR2.
Fairness ==
  /\ WF_vars(MainThread)
  /\ WF_vars(TimerThread)
  /\ WF_vars(Tick)
  /\ WF_vars(GatewayThread)
  /\ WF_vars(SenderThread)

Spec == SafeSpec /\ Fairness

-----------------------------------------------------------------------------
(* Safety *)

\* The process's own variables hold what the code's types allow; Timer and
\* EventStream check their own.
TypeOK ==
  /\ main \in MainPositions
  /\ made \in 0..MaxTasks
  /\ m_socket \in {"none", "open", "closed"}
  /\ wire \in Seq(1..made)
  /\ t_phase \in {"standby", "running", "shutdown"}
  /\ d_phase \in {"standby", "running", "shutdown"}

AllMade == [n \in 1..made |-> n]

\* Until SIGUSR2 is taken no task is lost between the timer and sendto(): each
\* one made is handed to sendto() or in one of the two streams, in the order
\* they were made, although three threads pass them on.
NothingLostInside ==
  main \in Starting \cup {"await"} =>
    AllMade = d_handled \o d_current \o d_pending \o t_current \o t_pending

\* What leaves the host is in the order in which the tasks were made and has no
\* duplicates, also while the process stops.
WireInOrder == \A i, j \in 1..Len(wire) : i < j => wire[i] < wire[j]

\* What is handed to sendto() has no gap: stopping discards the newest tasks,
\* never one between two that were sent.
StopsAtATask == IsPrefix(d_handled \o d_current, AllMade)

\* A thread never calls sendto() on a socket that is not open.
SocketOpenInUse == d_current # <<>> => m_socket = "open"

\* The gateway's thread uses m_sender only while it accepts datagrams, although
\* m_sender is destroyed before the stream that runs the thread.
SenderOutlivesGateway == t_current # <<>> => d_phase = "running"

\* The timer's callback, which holds a reference to the gateway, posts only to
\* a gateway that accepts tasks.
PostsAreAccepted == [][made' # made => t_phase = "running"]_vars

-----------------------------------------------------------------------------
(* The inductive invariant behind the properties above *)

GatewayRuns == {"first_task", "timer", "await", "generator", "close_tasks"}
SenderRuns == {"gateway"} \cup GatewayRuns \cup {"join_tasks", "close_datagrams"}

\* What exists and accepts something, by the position of the main thread.
Lifetimes ==
  /\ m_socket = "open" <=> main \in SenderRuns \cup {"join_datagrams", "close_socket"}
  /\ d_phase = "running" <=> main \in SenderRuns
  /\ t_phase = "running" <=> main \in GatewayRuns

\* A stream that does not run holds nothing, and once joined handles nothing.
Streams ==
  /\ t_pending # <<>> => t_phase = "running"
  /\ d_pending # <<>> => d_phase = "running"
  /\ t_current # <<>> => main \in GatewayRuns \cup {"join_tasks"}
  /\ d_current # <<>> => main \in SenderRuns \cup {"join_datagrams"}

\* The timer's thread ends before ~task_generator_t() does.
TimerLife ==
  /\ main \in {"sender", "gateway", "first_task", "EXIT_FAILURE"} => timer = "none"
  /\ main \in {"timer", "await", "generator"} /\ ~joinable => timer = "none"
  /\ main \notin {"timer", "await", "generator"} => timer \in {"none", "done"}

\* All tasks that were not discarded, from the oldest to the newest.
Chain == d_handled \o d_current \o d_pending \o t_current \o t_pending

\* Tasks are made one after the other and discarded from the newest on, so that
\* the n-th of those left is task n.
TasksInOrder ==
  /\ \A s \in {d_handled, d_current, d_pending, t_current, t_pending} : s \in Seq(Nat)
  /\ Len(t_current) <= 1 /\ Len(d_current) <= 1
  /\ Len(Chain) <= made
  /\ \A i \in 1..Len(Chain) : Chain[i] = i
  /\ main \in Starting \cup {"await", "generator"} => Len(Chain) = made

\* What was sent is from what was handled.
WireBehind == WireInOrder /\ \A i \in 1..Len(wire) : wire[i] <= Len(d_handled)

IInv == TypeOK /\ Lifetimes /\ Streams /\ TimerLife /\ TasksInOrder /\ WireBehind

-----------------------------------------------------------------------------
(* Liveness *)

\* Every task that was made is handed to sendto(), unless SIGUSR2 comes first.
MadeIsSent ==
  \A n \in 1..MaxTasks :
    made >= n ~> Len(d_handled) >= n \/ main \in Stopping \cup {"EXIT_SUCCESS"}

\* Stopping comes to an end from wherever the four threads are.
StopEnds == main \in Stopping ~> main = "EXIT_SUCCESS"
=============================================================================
