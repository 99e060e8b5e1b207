-------------------------- MODULE EndpointProcess --------------------------
(***************************************************************************)
(* The endpoint (src/endpoint/main.cpp): the receiver's thread notifies    *)
(* the gateway, which parses the datagram and hands the task through its   *)
(* callback to the task processor; the processor shows it on the thread of *)
(* its stream.  main() builds processor, receiver and gateway in that      *)
(* order, waits for SIGUSR2, and destroys them in the reverse order.       *)
(*                                                                         *)
(* The receiver is Receiver; the stream is a Mailbox, which EventStream is *)
(* proved to implement.  How await() comes to return is in Application;    *)
(* what a task says and how it is printed is in DataPath.                  *)
(***************************************************************************)
EXTENDS Datagrams, SequencesExt

CONSTANT
  k_msec_count_size   \* task_t::k_msec_count_size, the size of a task's datagram

\* datagram_t holds more than a task: a datagram that was cut is never taken for one.
ASSUME CutIsNoTask == k_msec_count_size \in Nat /\ k_msec_count_size < k_max_size

VARIABLES
  main,         \* where the main thread is
  m_callback,   \* the gateway's std::function: "none", "alive" or "destroyed"
  \* gateway.m_receiver
  owner, m_socket, m_subscriber, m_running, thread, buffer, inbox, arrived, notified,
  \* task_processor.m_tasks_stream
  p_phase, p_pending, p_current, p_handled, p_quiet

R == INSTANCE Receiver

Processor == INSTANCE Mailbox
  WITH Events <- Contents, phase <- p_phase, pending <- p_pending,
       current <- p_current, handled <- p_handled, quiet <- p_quiet

receiverVars == <<owner, m_socket, m_subscriber, m_running, thread, buffer, inbox,
                  arrived, notified>>
processorVars == <<p_phase, p_pending, p_current, p_handled, p_quiet>>
vars == <<main, m_callback, receiverVars, processorVars>>

Up == {"receiver", "gateway", "run", "await"}
Stopping == {"stop_receiver", "callback", "close_tasks", "join_tasks"}
MainPositions == {"processor"} \cup Up \cup Stopping \cup {"EXIT_SUCCESS", "EXIT_FAILURE"}

Init ==
  /\ main = "processor"
  /\ m_callback = "none"
  /\ R!Init
  /\ Processor!Init

MainStep(from, to) == main = from /\ main' = to

-----------------------------------------------------------------------------
(* main(): construction *)

MakeProcessor ==
  /\ MainStep("processor", "receiver")
  /\ Processor!Open
  /\ UNCHANGED <<m_callback, receiverVars>>

\* The receiver is built before the gateway it becomes a member of.
MakeReceiver ==
  /\ main = "receiver"
  /\ R!Construct
  /\ main' = CASE owner' = "thrown" -> "close_tasks"
               [] owner' = "built" -> "gateway"
               [] OTHER -> main
  /\ UNCHANGED <<m_callback, processorVars>>

MakeGateway ==
  /\ MainStep("gateway", "run")
  /\ m_callback' = "alive"
  /\ UNCHANGED <<receiverVars, processorVars>>

RunGateway ==
  /\ main = "run"
  /\ \/ R!Subscribe /\ UNCHANGED main
     \/ R!Spawn /\ UNCHANGED main
     \/ R!RunReturns /\ main' = "await"
  /\ UNCHANGED <<m_callback, processorVars>>

-----------------------------------------------------------------------------
(* main(): destruction *)

\* Slip: task_processor is declared after gateway, and goes first.
SignalledSwapped ==
  /\ MainStep("await", "close_tasks")
  /\ UNCHANGED <<m_callback, receiverVars, processorVars>>

\* Slip: m_receiver is declared before m_callback, and goes after it.
SignalledMembersSwapped ==
  /\ MainStep("await", "stop_receiver")
  /\ m_callback' = "destroyed"
  /\ UNCHANGED <<receiverVars, processorVars>>

\* SIGUSR2 was taken and await() returns.
Signalled ==
  /\ MainStep("await", "stop_receiver")
  /\ UNCHANGED <<m_callback, receiverVars, processorVars>>

\* Slip: m_running is left set, and the thread is joined.
StopReceiverForgotten ==
  /\ main = "stop_receiver"
  /\ \/ /\ owner = "running"
        /\ owner' = "join"
        /\ UNCHANGED <<main, m_socket, m_subscriber, m_running, thread, buffer, inbox,
                       arrived, notified>>
     \/ R!Join /\ main' = "callback"
  /\ UNCHANGED <<m_callback, processorVars>>

\* ~gateway_t() destroys its members from the last to the first.
StopReceiver ==
  /\ main = "stop_receiver"
  /\ \/ R!Stop /\ UNCHANGED main
     \/ R!Join /\ main' = "callback"
  /\ UNCHANGED <<m_callback, processorVars>>

DestroyCallback ==
  /\ MainStep("callback", "close_tasks")
  /\ m_callback' = "destroyed"
  /\ UNCHANGED <<receiverVars, processorVars>>

\* ~task_processor() shuts its stream down, also when the receiver threw, ...
CloseTasks ==
  /\ MainStep("close_tasks", "join_tasks")
  /\ Processor!Close
  /\ UNCHANGED <<m_callback, receiverVars>>

\* ... and waits for its thread.
JoinTasks ==
  /\ MainStep("join_tasks", IF owner = "thrown" THEN "EXIT_FAILURE" ELSE "EXIT_SUCCESS")
  /\ Processor!Quiesce
  /\ UNCHANGED <<m_callback, receiverVars>>

-----------------------------------------------------------------------------
(* The receiver's thread and the network *)

Network ==
  /\ R!Network
  /\ UNCHANGED <<main, m_callback, processorVars>>

ReceiverLoop ==
  /\ R!ThreadStart \/ R!LoopCheck \/ R!RecvFails \/ R!Receive
  /\ UNCHANGED <<main, m_callback, processorVars>>

IsTask(d) == d.size = k_msec_count_size

\* Slip: a datagram of at least the size of a task is parsed.
OnReceiveLonger ==
  /\ R!NotifyReturns
  /\ \E d \in ToSet(buffer) :
       \/ d.size >= k_msec_count_size /\ Processor!Post(d.content)
       \/ UNCHANGED processorVars /\ (d.size >= k_msec_count_size => p_phase # "running")
  /\ UNCHANGED <<main, m_callback>>

\* Slip: while the processor is busy tasks are not handed on.
OnReceiveDropsWhenBusy ==
  /\ R!NotifyReturns
  /\ \E d \in ToSet(buffer) :
       \/ IsTask(d) /\ p_current = <<>> /\ Processor!Post(d.content)
       \/ UNCHANGED processorVars /\ (IsTask(d) /\ p_current = <<>> => p_phase # "running")
  /\ UNCHANGED <<main, m_callback>>

\* gateway_t::on_receive(): a datagram of another size throws in task_t() and is
\* only logged; a task goes through the callback to push(), which drops it if the
\* stream is not running.
OnReceive ==
  /\ R!NotifyReturns
  /\ \E d \in ToSet(buffer) :
       \/ IsTask(d) /\ Processor!Post(d.content)
       \/ UNCHANGED processorVars /\ (IsTask(d) => p_phase # "running")
  /\ UNCHANGED <<main, m_callback>>

-----------------------------------------------------------------------------
(* The processor's thread *)

TakeTask ==
  /\ Processor!Take
  /\ UNCHANGED <<main, m_callback, receiverVars>>

\* task_processor::on_event(): one report on the console.
OnTask ==
  /\ Processor!Handle
  /\ UNCHANGED <<main, m_callback, receiverVars>>

-----------------------------------------------------------------------------
MainThread ==
  \/ MakeProcessor \/ MakeReceiver \/ MakeGateway \/ RunGateway
  \/ StopReceiver \/ DestroyCallback \/ CloseTasks \/ JoinTasks

ReceiverThread == ReceiverLoop \/ OnReceive
ProcessorThread == TakeTask \/ OnTask

Finished ==
  /\ main \in {"EXIT_SUCCESS", "EXIT_FAILURE"}
  /\ UNCHANGED vars

Next == MainThread \/ Signalled \/ Network \/ ReceiverThread \/ ProcessorThread \/ Finished

SafeSpec == Init /\ [][Next]_vars

\* The scheduler runs the three threads, and recvfrom() does not fail for ever;
\* nobody has to send a datagram or SIGUSR2.
Fairness ==
  /\ WF_vars(MainThread)
  /\ WF_vars(ReceiverThread)
  /\ SF_vars(R!Receive /\ UNCHANGED <<main, m_callback, processorVars>>)
  /\ WF_vars(ProcessorThread)

Spec == SafeSpec /\ Fairness

-----------------------------------------------------------------------------
(* Safety *)

\* What a datagram says if it is a task.
TaskOf(d) == IF IsTask(d) THEN <<d.content>> ELSE <<>>

\* What the datagrams of a sequence say that are tasks.
Parsed(s) ==
  LET first[n \in 0..Len(s)] == IF n = 0 THEN <<>> ELSE first[n - 1] \o TaskOf(s[n])
  IN  first[Len(s)]

\* The process's own variables hold what the code's types allow; Receiver and
\* EventStream check their own.
TypeOK ==
  /\ main \in MainPositions
  /\ m_callback \in {"none", "alive", "destroyed"}
  /\ p_phase \in {"standby", "running", "shutdown"}
  /\ p_pending \in Seq(Contents)
  /\ p_current \in Seq(Contents) /\ Len(p_current) <= 1
  /\ p_handled \in Seq(Contents)

\* Until SIGUSR2 is taken each datagram of the right size that the kernel accepted
\* is shown, being shown, queued, being parsed or still in the socket: three
\* threads pass it on in order, and those of another size cost none.
NothingLostInside ==
  main \in Up =>
    Parsed(arrived) = p_handled \o p_current \o p_pending \o Parsed(buffer) \o Parsed(inbox)

\* What is shown has no gap, also while the process stops, and nothing is shown
\* that was longer and was cut.
StopsAtATask == IsPrefix(p_handled \o p_current, Parsed(arrived))

\* The gateway's callback, which refers to the processor, only meets one that
\* accepts tasks: gateway is declared after task_processor in main().
TasksAreAccepted == thread = "notify" => p_phase = "running"

\* The receiver's thread calls m_callback only while that exists: m_receiver is
\* declared after m_callback in gateway_t.
CallbackOutlivesReceiver == thread = "notify" => m_callback = "alive"

\* Inside of the process too, the receiver's thread uses the socket only while it is
\* its own, nothing is notified once the destructor returned, and a constructor
\* that throws leaves no socket open.
ReceiverIsSound == R!SocketBoundInUse /\ R!SilentOnceDestroyed /\ R!ThrowLeavesNothing

-----------------------------------------------------------------------------
(* The inductive invariant behind these, besides that of Receiver *)

\* Where the receiver is, by the position of the main thread.
ReceiverLife ==
  /\ main = "processor" => owner = "socket"
  /\ main = "receiver" => owner \in R!Constructing
  /\ main = "gateway" => owner = "built"
  /\ main = "run" => owner \in {"built", "on_run", "spin"}
  /\ main = "await" => owner = "running"
  /\ main = "stop_receiver" => owner \in {"running", "join"}
  /\ main = "callback" => owner = "destroyed"
  /\ main \in {"close_tasks", "join_tasks", "EXIT_SUCCESS", "EXIT_FAILURE"} =>
       owner \in {"destroyed", "thrown"}

\* When the gateway's callback and the processor can be called.
Callable ==
  /\ m_callback = "alive" <=> main \in {"run", "await", "stop_receiver", "callback"}
  /\ p_phase = "running" <=> main \in Up \cup {"stop_receiver", "callback", "close_tasks"}

\* What was notified is handed on: all of it while the processor accepts tasks, and
\* without a gap once it does not.
Delivered ==
  IF p_phase = "shutdown"
  THEN p_pending = <<>> /\ IsPrefix(p_handled \o p_current, Parsed(notified))
  ELSE Parsed(notified) = p_handled \o p_current \o p_pending

\* Nothing arrives before the socket is bound, and run() returned with the thread
\* started.
ReceiverUse ==
  /\ m_socket # "bound" => arrived = <<>>
  /\ main \notin {"processor"} \cup Up /\ owner # "thrown" => thread # "none"

IInv == TypeOK /\ ReceiverLife /\ Callable /\ ReceiverUse /\ Delivered

-----------------------------------------------------------------------------
(* Liveness *)

\* gateway.run() and the destructors come to an end from wherever the three threads
\* are: the spin on m_running, the join of a thread in recvfrom(), the join of the
\* processor's.
CallsReturn == main \in {"run"} \cup Stopping ~> main \in {"await", "EXIT_SUCCESS", "EXIT_FAILURE"}

-----------------------------------------------------------------------------
(* Refinement *)

\* The tasks that may still be shown; none of those in the socket once the
\* receiver's thread has left its loop.
Waiting ==
  p_current \o p_pending \o Parsed(buffer)
    \o (IF thread = "finished" THEN <<>> ELSE Parsed(inbox))

Status ==
  IF main \in {"EXIT_SUCCESS", "EXIT_FAILURE"} THEN main
  ELSE IF owner = "thrown" THEN "failing"
  ELSE IF m_socket # "bound" THEN "starting"
  ELSE IF main \in Up THEN "up" ELSE "stopping"

E == INSTANCE Endpoint
  WITH Tasks <- Contents, status <- Status, waiting <- Waiting, shown <- p_handled

\* The three threads implement an endpoint that has none: it shows the tasks that
\* reach it, in order, and comes to an end when it is told to.
ImplementsEndpoint == E!Spec
=============================================================================
