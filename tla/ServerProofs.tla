---------------------------- MODULE ServerProofs ----------------------------
(***************************************************************************)
(* Proofs about ServerProcess for every period and every number of tasks.  *)
(***************************************************************************)
EXTENDS ServerProcess, SequenceLemmas, TLAPS

\* The server's timer, as what is proved about Timer sees it.
TP == INSTANCE TimerProofs WITH Callers <- {"main"}, Owner <- "main"

\* Every step of the specification, one disjunct for each action.
LEMMA StepCases ==
  ASSUME [Next]_vars
  PROVE  \/ MakeSender \/ SenderThrows \/ MakeGateway \/ FirstTask \/ RunTimer
         \/ Signalled \/ DestroyGenerator \/ CloseTasks \/ JoinTasks
         \/ CloseDatagrams \/ JoinDatagrams \/ CloseSocket
         \/ TimerLoop \/ OnTimer \/ Tick
         \/ TakeTask \/ OnTask \/ TakeDatagram \/ OnDatagram
         \/ UNCHANGED vars
BY DEF Next, MainThread, TimerThread, GatewayThread, SenderThread, Finished

-----------------------------------------------------------------------------
(* What runs, what holds something, and the timer's thread *)

Control == Lifetimes /\ Streams /\ TimerLife

\* main() builds and starts the components.
LEMMA StartControl ==
  ASSUME TypeOK, Control,
         MakeSender \/ SenderThrows \/ MakeGateway \/ FirstTask \/ RunTimer \/ Signalled
  PROVE  Control'
<1> USE DEF TypeOK, Control, Lifetimes, Streams, TimerLife, MainStep, MainPositions, Starting,
            Stopping, GatewayRuns, SenderRuns, timerVars, taskVars, datagramVars
<1>1. CASE MakeSender
  BY <1>1 DEF MakeSender, Datagrams!Open
<1>2. CASE SenderThrows
  BY <1>2 DEF SenderThrows, Datagrams!Close
<1>3. CASE MakeGateway
  BY <1>3 DEF MakeGateway, Tasks!Open
<1>4. CASE FirstTask
  BY <1>4 DEF FirstTask, MakeTask, PostTask, Tasks!Post
<1>5. CASE RunTimer
  BY <1>5 DEF RunTimer, T!RunCall, T!Spawn, T!RunReturns
<1>6. CASE Signalled
  BY <1>6 DEF Signalled
<1>7. QED BY <1>1, <1>2, <1>3, <1>4, <1>5, <1>6

\* main() stops and destroys them.
LEMMA StopControl ==
  ASSUME TypeOK, Control,
         \/ DestroyGenerator \/ CloseTasks \/ JoinTasks
         \/ CloseDatagrams \/ JoinDatagrams \/ CloseSocket
  PROVE  Control'
<1> USE DEF TypeOK, Control, Lifetimes, Streams, TimerLife, MainStep, MainPositions, Starting,
            Stopping, GatewayRuns, SenderRuns, timerVars, taskVars, datagramVars
<1>1. CASE DestroyGenerator
  BY <1>1 DEF DestroyGenerator, T!Destroy, T!ShutdownCall, T!Stop, T!Join
<1>2. CASE CloseTasks
  BY <1>2 DEF CloseTasks, Tasks!Close
<1>3. CASE JoinTasks
  BY <1>3 DEF JoinTasks, Tasks!Quiesce
<1>4. CASE CloseDatagrams
  BY <1>4 DEF CloseDatagrams, Datagrams!Close
<1>5. CASE JoinDatagrams
  BY <1>5 DEF JoinDatagrams, Datagrams!Quiesce
<1>6. CASE CloseSocket
  BY <1>6 DEF CloseSocket
<1>7. QED BY <1>1, <1>2, <1>3, <1>4, <1>5, <1>6

\* The other three threads.
LEMMA ThreadControl ==
  ASSUME TypeOK, Control,
         TimerLoop \/ OnTimer \/ Tick \/ TakeTask \/ OnTask \/ TakeDatagram \/ OnDatagram
  PROVE  Control'
<1> USE DEF TypeOK, Control, Lifetimes, Streams, TimerLife, MainPositions, Starting,
            Stopping, GatewayRuns, SenderRuns, timerVars, taskVars, datagramVars
<1>1. CASE TimerLoop
  BY <1>1 DEF TimerLoop, T!ThreadStart, T!LoopCheck, T!WakeUp, T!LoopRecheck, T!TimerStep
<1>2. CASE OnTimer
  BY <1>2 DEF OnTimer, MakeTask, PostTask, Tasks!Post, T!CallbackReturns, T!TimerStep
<1>3. CASE Tick
  BY <1>3 DEF Tick, T!Tick
<1>4. CASE TakeTask
  BY <1>4 DEF TakeTask, Tasks!Take
<1>5. CASE OnTask
  BY <1>5 DEF OnTask, Tasks!Handle, PostDatagram, Datagrams!Post
<1>6. CASE TakeDatagram
  BY <1>6 DEF TakeDatagram, Datagrams!Take
<1>7. CASE OnDatagram
  BY <1>7 DEF OnDatagram, Datagrams!Handle
<1>8. QED BY <1>1, <1>2, <1>3, <1>4, <1>5, <1>6, <1>7

LEMMA ControlStep ==
  ASSUME TypeOK, Control, [Next]_vars
  PROVE  Control'
<1>1. CASE UNCHANGED vars
  BY <1>1 DEF vars, timerVars, taskVars, datagramVars, Control, Lifetimes, Streams, TimerLife
<1>2. QED BY <1>1, StepCases, StartControl, StopControl, ThreadControl

-----------------------------------------------------------------------------
(* Sequences whose n-th element is n *)

Counts(s) == \A i \in 1..Len(s) : s[i] = i

\* The next number goes to the end.
LEMMA CountsNext ==
  ASSUME NEW s \in Seq(Nat), Counts(s), NEW n \in Nat, n = Len(s) + 1
  PROVE  s \o <<n>> \in Seq(Nat) /\ Counts(s \o <<n>>) /\ Len(s \o <<n>>) = n
<1> DEFINE t == s \o <<n>>
<1>1. <<n>> \in Seq(Nat) /\ Len(<<n>>) = 1 /\ <<n>>[1] = n /\ Len(s) \in Nat
  BY LenProperties
<1>2. /\ t \in Seq(Nat) /\ Len(t) = Len(s) + 1
      /\ \A i \in 1..(Len(s) + 1) : t[i] = IF i <= Len(s) THEN s[i] ELSE <<n>>[i - Len(s)]
  BY <1>1, ConcatProperties
<1> HIDE DEF t
<1>3. ASSUME NEW i \in 1..Len(t) PROVE t[i] = i
  <2>1. CASE i = n
    <3>1. ~ i <= Len(s) /\ i - Len(s) = 1
      BY <2>1, <1>1
    <3>2. QED BY <3>1, <2>1, <1>1, <1>2
  <2>2. CASE i # n
    <3>1. i <= Len(s) /\ i \in 1..Len(s)
      BY <2>2, <1>1, <1>2
    <3>2. QED BY <3>1, <1>1, <1>2 DEF Counts
  <2>3. QED BY <2>1, <2>2
<1>4. QED BY <1>2, <1>3 DEF t, Counts

\* Any front of such a sequence is one.
LEMMA CountsFront ==
  ASSUME NEW s \in Seq(Nat), NEW t \in Seq(Nat), Counts(s \o t)
  PROVE  Counts(s) /\ Len(s) <= Len(s \o t) /\ Len(s) \in Nat /\ Len(s \o t) \in Nat
<1>1. /\ Len(s) \in Nat /\ Len(t) \in Nat /\ Len(s \o t) = Len(s) + Len(t)
      /\ \A i \in 1..(Len(s) + Len(t)) : (s \o t)[i] = IF i <= Len(s) THEN s[i] ELSE t[i - Len(s)]
  BY LenProperties, ConcatProperties
<1>2. ASSUME NEW i \in 1..Len(s) PROVE s[i] = i
  <2>1. i \in 1..(Len(s) + Len(t)) /\ i <= Len(s)
    BY <1>1
  <2>2. QED BY <2>1, <1>1 DEF Counts
<1>3. QED BY <1>1, <1>2 DEF Counts

\* What follows such a front goes on counting.
LEMMA CountsThen ==
  ASSUME NEW s \in Seq(Nat), NEW n \in Nat, Counts(s \o <<n>>)
  PROVE  n = Len(s) + 1
<1>1. <<n>> \in Seq(Nat) /\ Len(<<n>>) = 1 /\ <<n>>[1] = n /\ Len(s) \in Nat
  BY LenProperties
<1>2. /\ Len(s \o <<n>>) = Len(s) + 1
      /\ \A i \in 1..(Len(s) + 1) :
           (s \o <<n>>)[i] = IF i <= Len(s) THEN s[i] ELSE <<n>>[i - Len(s)]
  BY <1>1, ConcatProperties
<1>3. Len(s) + 1 \in 1..(Len(s) + 1) /\ ~ Len(s) + 1 <= Len(s) /\ (Len(s) + 1) - Len(s) = 1
  BY <1>1
<1>4. (s \o <<n>>)[Len(s) + 1] = n
  BY <1>1, <1>2, <1>3
<1>5. QED BY <1>2, <1>3, <1>4 DEF Counts

LEMMA Associative ==
  ASSUME NEW s \in Seq(Nat), NEW t \in Seq(Nat), NEW u \in Seq(Nat)
  PROVE  (s \o t) \o u = s \o (t \o u)
BY ConcatAssociative, SMTT(60)

LEMMA AppendConcat ==
  ASSUME NEW s \in Seq(Nat), NEW n \in Nat
  PROVE  Append(s, n) = s \o <<n>> /\ Append(s, n) \in Seq(Nat) /\ <<n>> \in Seq(Nat)
BY AppendIsConcat, AppendProperties

-----------------------------------------------------------------------------
(* The tasks on their way *)

Complete == Starting \cup {"await", "generator"}

LEMMA ChainTyped ==
  ASSUME TasksInOrder
  PROVE  /\ d_handled \in Seq(Nat) /\ d_current \in Seq(Nat) /\ d_pending \in Seq(Nat)
         /\ t_current \in Seq(Nat) /\ t_pending \in Seq(Nat)
         /\ d_handled \o d_current \in Seq(Nat)
         /\ d_handled \o d_current \o d_pending \in Seq(Nat)
         /\ d_handled \o d_current \o d_pending \o t_current \in Seq(Nat)
         /\ Chain \in Seq(Nat)
         /\ Len(t_current) <= 1 /\ Len(d_current) <= 1
<1>1. /\ d_handled \in Seq(Nat) /\ d_current \in Seq(Nat) /\ d_pending \in Seq(Nat)
      /\ t_current \in Seq(Nat) /\ t_pending \in Seq(Nat)
  BY DEF TasksInOrder
<1>2. d_handled \o d_current \in Seq(Nat)
  BY <1>1, ConcatProperties
<1>3. d_handled \o d_current \o d_pending \in Seq(Nat)
  BY <1>1, <1>2, ConcatProperties
<1>4. d_handled \o d_current \o d_pending \o t_current \in Seq(Nat)
  BY <1>1, <1>3, ConcatProperties
<1>5. Chain \in Seq(Nat)
  BY <1>1, <1>4, ConcatProperties DEF Chain
<1>6. QED BY <1>1, <1>2, <1>3, <1>4, <1>5 DEF TasksInOrder

\* Moving tasks along the chain changes nothing.
LEMMA SameChain ==
  ASSUME TasksInOrder,
         /\ d_handled' \in Seq(Nat) /\ d_current' \in Seq(Nat) /\ d_pending' \in Seq(Nat)
         /\ t_current' \in Seq(Nat) /\ t_pending' \in Seq(Nat),
         Len(t_current') <= 1, Len(d_current') <= 1,
         Chain' = Chain, made' = made, main' \in Complete => main \in Complete
  PROVE  TasksInOrder'
BY DEF TasksInOrder, Complete

\* The main thread's other steps, the timer's and the clock's move no task.
LEMMA OtherOrder ==
  ASSUME TypeOK, Control, TasksInOrder,
         \/ MakeSender \/ SenderThrows \/ MakeGateway \/ RunTimer \/ Signalled
         \/ DestroyGenerator \/ JoinTasks \/ JoinDatagrams \/ CloseSocket
         \/ TimerLoop \/ Tick
  PROVE  TasksInOrder'
<1>1. d_pending' = d_pending
  <2>1. CASE SenderThrows
    BY <2>1 DEF SenderThrows, Datagrams!Close, Control, Streams, Lifetimes, SenderRuns,
                GatewayRuns, MainStep
  <2>2. CASE ~SenderThrows
    BY <2>2 DEF MakeSender, Datagrams!Open, MakeGateway, RunTimer, Signalled, DestroyGenerator,
                JoinTasks, JoinDatagrams, Datagrams!Quiesce, CloseSocket, TimerLoop, Tick,
                datagramVars
  <2>3. QED BY <2>1, <2>2
<1>2. UNCHANGED <<made, d_handled, d_current, t_current, t_pending>>
  BY DEF MakeSender, SenderThrows, MakeGateway, RunTimer, Signalled, DestroyGenerator,
         JoinTasks, JoinDatagrams, CloseSocket, TimerLoop, Tick, datagramVars, taskVars,
         Datagrams!Open, Datagrams!Close, Datagrams!Quiesce, Tasks!Open, Tasks!Quiesce
<1>3. main' \in Complete => main \in Complete
  BY DEF MakeSender, SenderThrows, MakeGateway, RunTimer, Signalled, DestroyGenerator,
         JoinTasks, JoinDatagrams, CloseSocket, TimerLoop, Tick, MainStep, Complete, Starting
<1>4. Chain' = Chain
  BY <1>1, <1>2 DEF Chain
<1>5. QED BY <1>1, <1>2, <1>3, <1>4, SameChain, ChainTyped

\* A new task goes to the end of the chain, as the gateway accepts it.
LEMMA MakeOrder ==
  ASSUME TypeOK, Control, TasksInOrder, MakeTask, t_phase = "running", main \in Complete,
         UNCHANGED datagramVars
  PROVE  TasksInOrder'
<1>1. /\ UNCHANGED <<d_handled, d_current, d_pending, t_current>>
      /\ \/ made' = made /\ t_pending' = t_pending
         \/ made' = made + 1 /\ t_pending' = Append(t_pending, made + 1)
  BY DEF MakeTask, PostTask, Tasks!Post, datagramVars, taskVars
<1>2. CASE made' = made /\ t_pending' = t_pending
  <2>1. Chain' = Chain
    BY <1>1, <1>2 DEF Chain
  <2>2. QED BY <1>1, <1>2, <2>1, ChainTyped, SameChain
<1>3. CASE made' = made + 1 /\ t_pending' = Append(t_pending, made + 1)
  <2> DEFINE x == <<made + 1>>
  <2>1. made \in Nat /\ Len(Chain) = made /\ Counts(Chain) /\ Chain \in Seq(Nat)
    BY ChainTyped, MaxTasksIsNatural DEF TypeOK, TasksInOrder, Complete, Counts
  <2>2. t_pending' = t_pending \o x /\ x \in Seq(Nat) /\ t_pending' \in Seq(Nat)
    <3>1. made + 1 \in Nat /\ t_pending \in Seq(Nat)
      BY <2>1, ChainTyped
    <3>2. QED BY <1>3, <3>1, AppendConcat
  <2>3. Chain \o x \in Seq(Nat) /\ Counts(Chain \o x) /\ Len(Chain \o x) = made + 1
    BY <2>1, CountsNext
  <2> HIDE DEF x
  <2>4. Chain' = Chain \o x
    <3>1. Chain' = (d_handled \o d_current \o d_pending \o t_current) \o (t_pending \o x)
      BY <1>1, <2>2 DEF Chain
    <3>2. QED
      <4> DEFINE front == d_handled \o d_current \o d_pending \o t_current
      <4>1. front \in Seq(Nat) /\ t_pending \in Seq(Nat) /\ Chain = front \o t_pending
        BY ChainTyped DEF Chain
      <4> HIDE DEF front
      <4>2. (front \o t_pending) \o x = front \o (t_pending \o x)
        BY <2>2, <4>1, Associative, SMTT(60)
      <4>3. QED BY <3>1, <4>1, <4>2 DEF front
  <2>5. QED BY <1>1, <1>3, <2>1, <2>2, <2>3, <2>4, ChainTyped DEF TasksInOrder, Counts
<1>4. QED BY <1>1, <1>2, <1>3

LEMMA TakeTaskOrder ==
  ASSUME TasksInOrder, TakeTask
  PROVE  TasksInOrder'
<1> DEFINE front == d_handled \o d_current \o d_pending
<1> DEFINE x == <<Head(t_pending)>>
<1>1. /\ t_current = <<>> /\ t_pending # <<>> /\ t_current' = x /\ t_pending' = Tail(t_pending)
      /\ UNCHANGED <<main, made, d_handled, d_current, d_pending>>
  BY DEF TakeTask, Tasks!Take, datagramVars
<1>2. front \in Seq(Nat) /\ front \o <<>> = front
  BY ChainTyped, ConcatEmptySeq
<1>3. x \in Seq(Nat) /\ t_pending = x \o t_pending' /\ t_pending' \in Seq(Nat) /\ Len(x) = 1
  BY <1>1, ChainTyped, HeadThenTail
<1> HIDE DEF x
<1>4. Chain' = (front \o x) \o t_pending'
  BY <1>1 DEF Chain
<1>5. Chain = (front \o <<>>) \o (x \o t_pending')
  BY <1>1, <1>3 DEF Chain
<1> HIDE DEF front
<1>6. (front \o x) \o t_pending' = front \o (x \o t_pending')
  BY <1>2, <1>3, Associative
<1>7. Chain' = Chain
  BY <1>2, <1>4, <1>5, <1>6
<1>8. QED BY <1>1, <1>3, <1>7, ChainTyped, SameChain

\* The gateway's thread hands a task on to the sender, which accepts it.
LEMMA OnTaskOrder ==
  ASSUME TypeOK, Control, TasksInOrder, OnTask
  PROVE  TasksInOrder'
<1> DEFINE front == d_handled \o d_current
<1> DEFINE x == <<Head(t_current)>>
<1>1. t_current # <<>> /\ t_current' = <<>> /\ UNCHANGED <<main, made, t_pending>>
  BY DEF OnTask, Tasks!Handle
<1>2. d_phase = "running"
  BY <1>1 DEF Control, Streams, Lifetimes, SenderRuns
<1>3. /\ d_pending' = Append(d_pending, Head(t_current))
      /\ UNCHANGED <<d_handled, d_current>>
  BY <1>2 DEF OnTask, PostDatagram, Datagrams!Post
<1>4. t_current = x /\ Head(t_current) \in Nat /\ x \in Seq(Nat)
  BY <1>1, ChainTyped, ShortSeq DEF TasksInOrder
<1>5. front \in Seq(Nat) /\ d_pending \in Seq(Nat)
  BY ChainTyped
<1>6. d_pending' = d_pending \o x /\ d_pending' \in Seq(Nat)
  BY <1>3, <1>4, <1>5, AppendConcat
<1> HIDE DEF x, front
<1>7. front \o d_pending' = (front \o d_pending) \o x
  BY <1>4, <1>5, <1>6, Associative, ZenonT(60)
<1>8. (front \o d_pending') \o <<>> = front \o d_pending'
  BY <1>5, <1>6, ConcatProperties, ConcatEmptySeq
<1>9. Chain' = ((front \o d_pending') \o <<>>) \o t_pending
  BY <1>1, <1>3 DEF Chain, front
<1>10. Chain = ((front \o d_pending) \o x) \o t_pending
  BY <1>4 DEF Chain, front
<1>11. <<>> \in Seq(Nat) /\ Len(<<>>) = 0
  BY EmptySeq
<1>12. Chain' = Chain
  BY <1>7, <1>8, <1>9, <1>10
<1>13. QED BY <1>1, <1>3, <1>6, <1>11, <1>12, ChainTyped, SameChain

LEMMA TakeDatagramOrder ==
  ASSUME TasksInOrder, TakeDatagram
  PROVE  TasksInOrder'
<1> DEFINE x == <<Head(d_pending)>>
<1>1. /\ d_current = <<>> /\ d_pending # <<>> /\ d_current' = x /\ d_pending' = Tail(d_pending)
      /\ UNCHANGED <<main, made, d_handled, t_current, t_pending>>
  BY DEF TakeDatagram, Datagrams!Take, taskVars
<1>2. d_handled \o <<>> = d_handled
  BY ChainTyped, ConcatEmptySeq
<1>3. x \in Seq(Nat) /\ d_pending = x \o d_pending' /\ d_pending' \in Seq(Nat) /\ Len(x) = 1
  BY <1>1, ChainTyped, HeadThenTail
<1> HIDE DEF x
<1>4. (d_handled \o x) \o d_pending' = (d_handled \o d_current) \o d_pending
  <2>1. d_handled \in Seq(Nat)
    BY ChainTyped
  <2>2. (d_handled \o x) \o d_pending' = d_handled \o (x \o d_pending')
    BY <1>3, <2>1, Associative
  <2>3. QED BY <1>1, <1>2, <1>3, <2>2
<1>5. Chain' = Chain
  BY <1>1, <1>4 DEF Chain
<1>6. QED BY <1>1, <1>3, <1>5, ChainTyped, SameChain

LEMMA OnDatagramOrder ==
  ASSUME TasksInOrder, OnDatagram
  PROVE  TasksInOrder'
<1>1. /\ d_current' = <<>> /\ d_handled' = d_handled \o d_current
      /\ UNCHANGED <<main, made, d_pending, t_current, t_pending>>
  BY DEF OnDatagram, Datagrams!Handle, taskVars
<1>2. d_handled' \in Seq(Nat) /\ d_handled' \o <<>> = d_handled'
  BY <1>1, ChainTyped, ConcatEmptySeq
<1>3. Chain' = Chain
  BY <1>1, <1>2 DEF Chain
<1>4. <<>> \in Seq(Nat) /\ Len(<<>>) = 0
  BY EmptySeq
<1>5. QED BY <1>1, <1>2, <1>3, <1>4, ChainTyped, SameChain

\* Stopping discards the newest tasks.
LEMMA CloseTasksOrder ==
  ASSUME TypeOK, TasksInOrder, CloseTasks
  PROVE  TasksInOrder'
<1> DEFINE front == d_handled \o d_current \o d_pending \o t_current
<1>1. /\ t_pending' = <<>> /\ main' = "join_tasks"
      /\ UNCHANGED <<made, d_handled, d_current, d_pending, t_current>>
  BY DEF CloseTasks, MainStep, Tasks!Close, datagramVars
<1>2. front \in Seq(Nat) /\ t_pending \in Seq(Nat) /\ Chain = front \o t_pending
  BY ChainTyped DEF Chain
<1>3. Counts(Chain) /\ Len(Chain) <= made /\ made \in Nat
  BY MaxTasksIsNatural DEF TasksInOrder, TypeOK, Counts
<1> HIDE DEF front
<1>4. Counts(front) /\ Len(front) <= Len(Chain) /\ Len(front) \in Nat /\ Len(Chain) \in Nat
  BY <1>2, <1>3, CountsFront
<1>5. Chain' = front
  BY <1>1, <1>2, ConcatEmptySeq DEF Chain, front
<1>6. <<>> \in Seq(Nat)
  BY EmptySeq
<1>7. Len(front) <= made
  BY <1>3, <1>4
<1>8. QED BY <1>1, <1>4, <1>5, <1>6, <1>7, ChainTyped DEF TasksInOrder, Counts, Starting

LEMMA CloseDatagramsOrder ==
  ASSUME TypeOK, Control, TasksInOrder, CloseDatagrams
  PROVE  TasksInOrder'
<1> DEFINE front == d_handled \o d_current
<1>1. /\ d_pending' = <<>> /\ main = "close_datagrams" /\ main' = "join_datagrams"
      /\ UNCHANGED <<made, d_handled, d_current, t_current, t_pending>>
  BY DEF CloseDatagrams, MainStep, Datagrams!Close, taskVars
<1>2. t_current = <<>> /\ t_pending = <<>>
  BY <1>1 DEF Control, Streams, Lifetimes, GatewayRuns
<1>3. /\ front \in Seq(Nat) /\ d_pending \in Seq(Nat) /\ front \o d_pending \in Seq(Nat)
  BY ChainTyped
<1>4. Counts(Chain) /\ Len(Chain) <= made /\ made \in Nat
  BY MaxTasksIsNatural DEF TasksInOrder, TypeOK, Counts
<1>5. Chain = front \o d_pending
  BY <1>2, <1>3, ConcatEmptySeq DEF Chain
<1> HIDE DEF front
<1>6. Counts(front) /\ Len(front) <= Len(Chain) /\ Len(front) \in Nat /\ Len(Chain) \in Nat
  BY <1>3, <1>4, <1>5, CountsFront
<1>7. Chain' = front
  BY <1>1, <1>2, <1>3, ConcatEmptySeq DEF Chain, front
<1>8. <<>> \in Seq(Nat)
  BY EmptySeq
<1>9. Len(front) <= made
  BY <1>4, <1>6
<1>10. QED BY <1>1, <1>6, <1>7, <1>8, <1>9, ChainTyped DEF TasksInOrder, Counts, Starting

LEMMA OrderStep ==
  ASSUME TypeOK, Control, TasksInOrder, [Next]_vars
  PROVE  TasksInOrder'
<1>1. CASE FirstTask
  <2>1. main = "first_task" /\ main' = "timer" /\ MakeTask /\ UNCHANGED datagramVars
    BY <1>1 DEF FirstTask, MainStep
  <2>2. t_phase = "running" /\ main \in Complete
    BY <2>1 DEF Control, Lifetimes, GatewayRuns, Complete, Starting
  <2>3. QED BY <2>1, <2>2, MakeOrder
<1>2. CASE OnTimer
  <2>1. timer = "calling" /\ main' = main /\ MakeTask /\ UNCHANGED datagramVars
    BY <1>2 DEF OnTimer, T!CallbackReturns, T!TimerStep
  <2>2. t_phase = "running" /\ main \in Complete
    BY <2>1 DEF Control, Lifetimes, TimerLife, GatewayRuns, Complete, Starting
  <2>3. QED BY <2>1, <2>2, MakeOrder
<1>3. CASE UNCHANGED vars
  BY <1>3 DEF vars, taskVars, datagramVars, TasksInOrder, Chain
<1>4. QED
  BY <1>1, <1>2, <1>3, StepCases, OtherOrder, TakeTaskOrder, OnTaskOrder, TakeDatagramOrder,
     OnDatagramOrder, CloseTasksOrder, CloseDatagramsOrder

-----------------------------------------------------------------------------
(* The wire *)

\* What was handed to sendto() is the front of the chain.
LEMMA FrontOfChain ==
  ASSUME TasksInOrder
  PROVE  /\ Counts(d_handled \o d_current)
         /\ Len(d_handled \o d_current) \in Nat /\ Len(Chain) \in Nat
         /\ Len(d_handled \o d_current) <= Len(Chain)
<1>1. Counts(Chain)
  BY DEF TasksInOrder, Counts
<1>2. /\ Counts(d_handled \o d_current \o d_pending \o t_current)
      /\ Len(d_handled \o d_current \o d_pending \o t_current) <= Len(Chain)
      /\ Len(d_handled \o d_current \o d_pending \o t_current) \in Nat /\ Len(Chain) \in Nat
  BY <1>1, ChainTyped, CountsFront DEF Chain
<1>3. /\ Counts(d_handled \o d_current \o d_pending)
      /\ Len(d_handled \o d_current \o d_pending)
           <= Len(d_handled \o d_current \o d_pending \o t_current)
      /\ Len(d_handled \o d_current \o d_pending) \in Nat
  BY <1>2, ChainTyped, CountsFront
<1>4. /\ Counts(d_handled \o d_current)
      /\ Len(d_handled \o d_current) <= Len(d_handled \o d_current \o d_pending)
      /\ Len(d_handled \o d_current) \in Nat
  BY <1>3, ChainTyped, CountsFront
<1>5. QED BY <1>2, <1>3, <1>4

\* The task being handed to sendto() is the next after those handed before.
LEMMA DatagramInHand ==
  ASSUME TasksInOrder, d_current # <<>>
  PROVE  /\ d_current = <<Len(d_handled) + 1>>
         /\ Len(d_handled) \in Nat /\ Len(d_handled) + 1 <= Len(Chain)
         /\ Len(d_handled \o d_current) = Len(d_handled) + 1
<1> DEFINE n == Head(d_current)
<1>1. /\ d_handled \in Seq(Nat) /\ d_current = <<n>> /\ n \in Nat /\ Len(d_handled) \in Nat
      /\ <<n>> \in Seq(Nat) /\ Len(<<n>>) = 1
  BY ChainTyped, ShortSeq, LenProperties
<1> HIDE DEF n
<1>2. n = Len(d_handled) + 1
  BY <1>1, FrontOfChain, CountsThen
<1>3. Len(d_handled \o d_current) = Len(d_handled) + 1
  BY <1>1, ConcatProperties
<1>4. QED BY <1>1, <1>2, <1>3, FrontOfChain

\* sendto() took a datagram or failed.
LEMMA OnDatagramWire ==
  ASSUME TypeOK, TasksInOrder, WireBehind, OnDatagram
  PROVE  wire' \in Seq(1..made) /\ WireBehind'
<1> DEFINE k == Len(d_handled) + 1
<1>1. /\ d_current # <<>> /\ d_handled' = d_handled \o d_current /\ made' = made
      /\ wire' = wire \/ wire' = wire \o d_current
  BY DEF OnDatagram, Datagrams!Handle
<1>2. /\ d_current = <<k>> /\ Len(d_handled) \in Nat /\ k <= Len(Chain)
      /\ Len(d_handled') = k
  BY <1>1, DatagramInHand
<1>3. Len(Chain) <= made /\ made \in Nat /\ Len(Chain) \in Nat
  BY ChainTyped, LenProperties, MaxTasksIsNatural DEF TasksInOrder, TypeOK
<1>4. k \in 1..made /\ k \in Nat
  BY <1>2, <1>3
<1>5. /\ wire \in Seq(1..made) /\ Len(wire) \in Nat
      /\ \A i \in 1..Len(wire) : wire[i] \in 1..made
  BY LenProperties, ElementOfSeq DEF TypeOK
<1>6. /\ \A i, j \in 1..Len(wire) : i < j => wire[i] < wire[j]
      /\ \A i \in 1..Len(wire) : wire[i] <= Len(d_handled)
  BY DEF WireBehind, WireInOrder
<1> HIDE DEF k
<1>7. k = Len(d_handled) + 1
  BY DEF k
<1>8. CASE wire' = wire
  <2>1. \A i \in 1..Len(wire) : wire[i] <= k
    BY <1>2, <1>5, <1>6, <1>7
  <2>2. QED BY <1>2, <1>5, <1>6, <1>8, <2>1 DEF WireBehind, WireInOrder
<1>9. CASE wire' = wire \o d_current
  <2>1. <<k>> \in Seq(1..made) /\ Len(<<k>>) = 1 /\ <<k>>[1] = k
    BY <1>4
  <2>2. /\ wire' \in Seq(1..made) /\ Len(wire') = Len(wire) + 1
        /\ \A i \in 1..(Len(wire) + 1) :
             wire'[i] = IF i <= Len(wire) THEN wire[i] ELSE <<k>>[i - Len(wire)]
    BY <1>2, <1>5, <1>9, <2>1, ConcatProperties
  <2>3. ASSUME NEW i \in 1..Len(wire')
        PROVE  IF i <= Len(wire) THEN i \in 1..Len(wire) /\ wire'[i] = wire[i]
                                 ELSE i = Len(wire) + 1 /\ wire'[i] = k
    <3>1. CASE i <= Len(wire)
      BY <3>1, <1>5, <2>2
    <3>2. CASE ~ i <= Len(wire)
      <4>1. i = Len(wire) + 1 /\ i - Len(wire) = 1 /\ i \in 1..(Len(wire) + 1)
        BY <3>2, <1>5, <2>2
      <4>2. wire'[i] = <<k>>[1]
        BY <3>2, <4>1, <2>2
      <4>3. QED BY <3>2, <4>1, <4>2, <2>1
    <3>3. QED BY <3>1, <3>2
  <2>4. ASSUME NEW i \in 1..Len(wire'), NEW j \in 1..Len(wire'), i < j
        PROVE  wire'[i] < wire'[j]
    <3>1. i <= Len(wire) /\ i \in 1..Len(wire) /\ wire'[i] = wire[i]
      BY <2>2, <2>3, <2>4, <1>5
    <3>2. CASE j <= Len(wire)
      BY <3>1, <3>2, <2>3, <2>4, <1>6
    <3>3. CASE ~ j <= Len(wire)
      <4>1. wire'[j] = k /\ wire[i] <= Len(d_handled) /\ wire[i] \in Nat
        BY <3>1, <3>3, <2>3, <1>5, <1>6
      <4>2. QED BY <3>1, <4>1, <1>2, <1>7
    <3>4. QED BY <3>2, <3>3
  <2>5. ASSUME NEW i \in 1..Len(wire')
        PROVE  wire'[i] <= k
    <3>1. CASE i <= Len(wire)
      <4>1. i \in 1..Len(wire) /\ wire'[i] = wire[i] /\ wire[i] \in Nat
        BY <3>1, <2>3, <1>5
      <4>2. QED BY <4>1, <1>2, <1>6, <1>7
    <3>2. CASE ~ i <= Len(wire)
      BY <3>2, <2>3, <1>4
    <3>3. QED BY <3>1, <3>2
  <2>6. QED BY <1>2, <2>2, <2>4, <2>5 DEF WireBehind, WireInOrder
<1>10. QED BY <1>1, <1>8, <1>9

LEMMA WireStep ==
  ASSUME TypeOK, TasksInOrder, WireBehind, [Next]_vars
  PROVE  WireBehind'
<1>1. CASE OnDatagram
  BY <1>1, OnDatagramWire
<1>2. CASE ~OnDatagram
  <2>1. UNCHANGED <<wire, d_handled>>
    BY <1>2, StepCases
    DEF MakeSender, SenderThrows, MakeGateway, FirstTask, RunTimer, Signalled, DestroyGenerator,
        CloseTasks, JoinTasks, CloseDatagrams, JoinDatagrams, CloseSocket, TimerLoop, OnTimer,
        Tick, TakeTask, OnTask, TakeDatagram, PostDatagram, datagramVars, vars,
        Datagrams!Open, Datagrams!Close, Datagrams!Quiesce, Datagrams!Take, Datagrams!Post
  <2>2. QED BY <2>1 DEF WireBehind, WireInOrder
<1>3. QED BY <1>1, <1>2

-----------------------------------------------------------------------------
(* Types *)

LEMMA TypeStep ==
  ASSUME TypeOK, TasksInOrder, WireBehind, [Next]_vars
  PROVE  TypeOK'
<1>1. main' \in MainPositions
  BY StepCases
  DEF TypeOK, MakeSender, SenderThrows, MakeGateway, FirstTask, RunTimer, Signalled,
      DestroyGenerator, CloseTasks, JoinTasks, CloseDatagrams, JoinDatagrams, CloseSocket,
      TimerLoop, OnTimer, Tick, TakeTask, OnTask, TakeDatagram, OnDatagram, vars,
      MainStep, MainPositions, Starting, Stopping
<1>2. m_socket' \in {"none", "open", "closed"}
  BY StepCases
  DEF TypeOK, MakeSender, SenderThrows, MakeGateway, FirstTask, RunTimer, Signalled,
      DestroyGenerator, CloseTasks, JoinTasks, CloseDatagrams, JoinDatagrams, CloseSocket,
      TimerLoop, OnTimer, Tick, TakeTask, OnTask, TakeDatagram, OnDatagram, vars
<1>3. t_phase' \in {"standby", "running", "shutdown"}
  BY StepCases
  DEF TypeOK, MakeSender, SenderThrows, MakeGateway, FirstTask, RunTimer, Signalled,
      DestroyGenerator, CloseTasks, JoinTasks, CloseDatagrams, JoinDatagrams, CloseSocket,
      TimerLoop, OnTimer, Tick, TakeTask, OnTask, TakeDatagram, OnDatagram, vars,
      MakeTask, PostTask, taskVars,
      Tasks!Open, Tasks!Post, Tasks!Close, Tasks!Quiesce, Tasks!Take, Tasks!Handle
<1>4. d_phase' \in {"standby", "running", "shutdown"}
  BY StepCases
  DEF TypeOK, MakeSender, SenderThrows, MakeGateway, FirstTask, RunTimer, Signalled,
      DestroyGenerator, CloseTasks, JoinTasks, CloseDatagrams, JoinDatagrams, CloseSocket,
      TimerLoop, OnTimer, Tick, TakeTask, OnTask, TakeDatagram, OnDatagram, vars,
      PostDatagram, datagramVars, Datagrams!Open, Datagrams!Post, Datagrams!Close,
      Datagrams!Quiesce, Datagrams!Take, Datagrams!Handle
<1>5. made' = made \/ (made < MaxTasks /\ made' = made + 1)
  BY StepCases
  DEF MakeSender, SenderThrows, MakeGateway, FirstTask, RunTimer, Signalled, DestroyGenerator,
      CloseTasks, JoinTasks, CloseDatagrams, JoinDatagrams, CloseSocket, TimerLoop, OnTimer,
      Tick, TakeTask, OnTask, TakeDatagram, OnDatagram, vars, MakeTask
<1>6. made' \in 0..MaxTasks /\ 1..made \subseteq 1..made'
  BY <1>5, MaxTasksIsNatural DEF TypeOK
<1>7. wire' \in Seq(1..made')
  <2>1. CASE OnDatagram
    <3>1. made' = made
      BY <2>1 DEF OnDatagram
    <3>2. QED BY <2>1, <3>1, OnDatagramWire
  <2>2. CASE ~OnDatagram
    <3>1. wire' = wire
      BY <2>2, StepCases
      DEF MakeSender, SenderThrows, MakeGateway, FirstTask, RunTimer, Signalled,
          DestroyGenerator, CloseTasks, JoinTasks, CloseDatagrams, JoinDatagrams, CloseSocket,
          TimerLoop, OnTimer, Tick, TakeTask, OnTask, TakeDatagram, vars
    <3>2. wire \in Seq(1..made)
      BY DEF TypeOK
    <3>3. QED BY <1>6, <3>1, <3>2, SeqMonotonic
  <2>3. QED BY <2>1, <2>2
<1>8. QED BY <1>1, <1>2, <1>3, <1>4, <1>6, <1>7 DEF TypeOK

-----------------------------------------------------------------------------
(* The inductive invariant and what follows from it *)

LEMMA IInvInit == Init => IInv
<1> SUFFICES ASSUME Init PROVE IInv
  OBVIOUS
<1>1. /\ main = "sender" /\ made = 0 /\ m_socket = "none" /\ wire = <<>> /\ timer = "none"
      /\ d_phase = "standby" /\ d_handled = <<>> /\ d_current = <<>> /\ d_pending = <<>>
      /\ t_phase = "standby" /\ t_current = <<>> /\ t_pending = <<>>
  BY DEF Init, T!Init, Tasks!Init, Datagrams!Init
<1>2. <<>> \in Seq(Nat) /\ Len(<<>>) = 0 /\ <<>> \in Seq(1..made)
  BY EmptySeq
<1>3. TypeOK
  BY <1>1, <1>2, MaxTasksIsNatural DEF TypeOK, MainPositions, Starting
<1>4. Lifetimes /\ Streams /\ TimerLife
  BY <1>1 DEF Lifetimes, Streams, TimerLife, SenderRuns, GatewayRuns
<1>5. Chain = <<>>
  BY <1>1, <1>2, ConcatEmptySeq DEF Chain
<1>6. TasksInOrder
  BY <1>1, <1>2, <1>5 DEF TasksInOrder
<1>7. WireBehind
  BY <1>1, <1>2 DEF WireBehind, WireInOrder
<1>8. QED BY <1>3, <1>4, <1>6, <1>7 DEF IInv

\* The invariant holds whenever SIGUSR2 comes, whatever sendto() does and however
\* the four threads are scheduled.
THEOREM InductiveInvariant == SafeSpec => []IInv
<1>1. IInv /\ [Next]_vars => IInv'
  BY TypeStep, ControlStep, OrderStep, WireStep DEF IInv, Control
<1>2. QED BY <1>1, IInvInit, PTL DEF SafeSpec

\* The process's variables keep to their types.
THEOREM TypeCorrect == SafeSpec => []TypeOK
<1>1. IInv => TypeOK
  BY DEF IInv
<1>2. QED BY <1>1, InductiveInvariant, PTL

\* No task is lost or overtaken between the timer and sendto().
THEOREM NothingIsLost == SafeSpec => []NothingLostInside
<1>1. IInv => NothingLostInside
  <2> SUFFICES ASSUME IInv, main \in Starting \cup {"await"}
               PROVE  AllMade = Chain
    BY DEF NothingLostInside, Chain
  <2>1. /\ Chain \in Seq(Nat) /\ made \in Nat /\ Len(Chain) = made
        /\ \A i \in 1..Len(Chain) : Chain[i] = i
    BY ChainTyped, MaxTasksIsNatural DEF IInv, TypeOK, TasksInOrder
  <2>2. AllMade \in [1..made -> Nat] /\ \A i \in 1..made : AllMade[i] = i
    BY <2>1 DEF AllMade
  <2>3. Chain \in [1..made -> Nat]
    BY <2>1, LenProperties
  <2>4. QED BY <2>1, <2>2, <2>3
<1>2. QED BY <1>1, InductiveInvariant, PTL

\* The datagrams that leave the host are in the order of their times, once each.
THEOREM WireIsInOrder == SafeSpec => []WireInOrder
<1>1. IInv => WireInOrder
  BY DEF IInv, WireBehind
<1>2. QED BY <1>1, InductiveInvariant, PTL

\* What sendto() was given has no gap, also while the process stops.
THEOREM NoGapOnStopping == SafeSpec => []StopsAtATask
<1>1. IInv => StopsAtATask
  <2> SUFFICES ASSUME IInv PROVE StopsAtATask
    OBVIOUS
  <2> DEFINE front == d_handled \o d_current
  <2>1. TasksInOrder /\ Len(Chain) <= made /\ made \in Nat
    BY MaxTasksIsNatural DEF IInv, TypeOK, TasksInOrder
  <2>2. front \in Seq(Nat) /\ Counts(front)
    BY <2>1, ChainTyped, FrontOfChain
  <2>3. Len(front) \in Nat /\ Len(Chain) \in Nat /\ Len(front) <= Len(Chain)
    BY <2>1, FrontOfChain
  <2> HIDE DEF front
  <2>4. front \in Seq(Nat) /\ Counts(front) /\ Len(front) <= made /\ Len(front) \in Nat
    BY <2>1, <2>2, <2>3
  <2>5. /\ AllMade \in Seq(Nat) /\ Len(AllMade) = made
        /\ \A i \in 1..made : AllMade[i] = i
    <3>1. AllMade \in [1..made -> Nat] /\ \A i \in 1..made : AllMade[i] = i
      BY <2>1 DEF AllMade
    <3>2. AllMade \in Seq(Nat)
      BY <2>1, <3>1, SeqDef
    <3>3. Len(AllMade) = made
      BY <2>1, <3>1, <3>2, LenProperties
    <3>4. QED BY <3>1, <3>2, <3>3
  <2>6. SubSeq(AllMade, 1, Len(front)) = SubSeq(front, 1, Len(front))
    <3> DEFINE head == SubSeq(AllMade, 1, Len(front))
    <3>1. \A i \in 1..Len(front) : AllMade[i] \in Nat
      BY <2>1, <2>4, <2>5
    <3>2. /\ head \in Seq(Nat)
          /\ Len(head) = IF 1 <= Len(front) THEN Len(front) - 1 + 1 ELSE 0
          /\ \A i \in 1..(Len(front) - 1 + 1) : head[i] = AllMade[1 + i - 1]
      BY <2>4, <3>1, SubSeqProperties
    <3> HIDE DEF head
    <3>3. Len(head) = Len(front)
      BY <2>4, <3>2
    <3>4. \A i \in 1..Len(front) : head[i] = front[i]
      BY <2>1, <2>4, <2>5, <3>2 DEF Counts
    <3>5. head = front
      BY <2>4, <3>2, <3>3, <3>4, SeqEqual
    <3>6. SubSeq(front, 1, Len(front)) = front
      BY <2>4, SubSeqFull
    <3>7. QED BY <3>5, <3>6 DEF head
  <2>7. IsPrefix(front, AllMade)
    BY <2>4, <2>5, <2>6 DEF IsPrefix
  <2>8. QED BY <2>7 DEF StopsAtATask, front
<1>2. QED BY <1>1, InductiveInvariant, PTL

\* sendto() is only called on the open socket.
THEOREM SocketOutlivesThread == SafeSpec => []SocketOpenInUse
<1>1. IInv => SocketOpenInUse
  BY DEF IInv, Lifetimes, Streams, SocketOpenInUse, SenderRuns, GatewayRuns
<1>2. QED BY <1>1, InductiveInvariant, PTL

\* The gateway's thread only meets a sender that accepts datagrams.
THEOREM SenderIsThere == SafeSpec => []SenderOutlivesGateway
<1>1. IInv => SenderOutlivesGateway
  BY DEF IInv, Lifetimes, Streams, SenderOutlivesGateway, SenderRuns, GatewayRuns
<1>2. QED BY <1>1, InductiveInvariant, PTL

\* The timer's callback only meets a gateway that accepts tasks.
THEOREM GatewayIsThere == SafeSpec => PostsAreAccepted
<1> DEFINE A == made' # made => t_phase = "running"
<1>1. IInv /\ [Next]_vars => A
  <2> SUFFICES ASSUME IInv, [Next]_vars, made' # made
               PROVE  t_phase = "running"
    OBVIOUS
  <2>1. FirstTask \/ OnTimer
    BY StepCases
    DEF MakeSender, SenderThrows, MakeGateway, RunTimer, Signalled, DestroyGenerator,
        CloseTasks, JoinTasks, CloseDatagrams, JoinDatagrams, CloseSocket, TimerLoop, Tick,
        TakeTask, OnTask, TakeDatagram, OnDatagram, vars
  <2>2. main \in GatewayRuns
    BY <2>1 DEF IInv, TimerLife, FirstTask, MainStep, OnTimer, T!CallbackReturns, T!TimerStep,
                GatewayRuns
  <2>3. QED BY <2>2 DEF IInv, Lifetimes
<1>2. QED BY <1>1, InductiveInvariant, PTL DEF SafeSpec, PostsAreAccepted

-----------------------------------------------------------------------------
(* The components inside of the process *)

\* The main thread calls run() and shutdown() as Timer allows, and nothing else
\* touches the timer's variables.
LEMMA TimerStep ==
  ASSUME [Next]_vars
  PROVE  [T!Next]_(T!timerVars)
<1> USE DEF timerVars, T!timerVars
<1>1. CASE RunTimer
  BY <1>1 DEF RunTimer, T!Next, T!CallerCalls, T!CallerInside
<1>2. CASE DestroyGenerator
  BY <1>2 DEF DestroyGenerator, T!Next, T!CallerCalls, T!CallerInside
<1>3. CASE TimerLoop
  BY <1>3 DEF TimerLoop, T!Next, T!TimerWorks
<1>4. CASE OnTimer
  BY <1>4 DEF OnTimer, T!Next, T!TimerWorks
<1>5. CASE Tick
  BY <1>5 DEF Tick, T!Next
<1>6. CASE MakeSender \/ SenderThrows \/ MakeGateway \/ FirstTask \/ Signalled
  BY <1>6 DEF MakeSender, SenderThrows, MakeGateway, FirstTask, Signalled
<1>7. CASE CloseTasks \/ JoinTasks \/ CloseDatagrams \/ JoinDatagrams \/ CloseSocket
  BY <1>7 DEF CloseTasks, JoinTasks, CloseDatagrams, JoinDatagrams, CloseSocket
<1>8. CASE TakeTask \/ OnTask \/ TakeDatagram \/ OnDatagram
  BY <1>8 DEF TakeTask, OnTask, TakeDatagram, OnDatagram
<1>9. CASE UNCHANGED vars
  BY <1>9 DEF vars
<1>10. QED BY <1>1, <1>2, <1>3, <1>4, <1>5, <1>6, <1>7, <1>8, <1>9, StepCases

\* Making a task posts its number, which is one of the stream's events, or nothing.
LEMMA MakeTaskPosts ==
  ASSUME TypeOK, MakeTask
  PROVE  [Tasks!Next]_(Tasks!mailboxVars)
<1>1. CASE made < MaxTasks
  <2>1. made + 1 \in 1..MaxTasks
    BY <1>1, MaxTasksIsNatural DEF TypeOK
  <2>2. Tasks!Post(made + 1) \/ UNCHANGED taskVars
    BY <1>1 DEF MakeTask, PostTask
  <2>3. CASE Tasks!Post(made + 1)
    BY <2>1, <2>3 DEF Tasks!Next
  <2>4. CASE UNCHANGED taskVars
    BY <2>4 DEF taskVars, Tasks!mailboxVars
  <2>5. QED BY <2>2, <2>3, <2>4
<1>2. CASE ~ made < MaxTasks
  BY <1>2 DEF MakeTask, taskVars, Tasks!mailboxVars
<1>3. QED BY <1>1, <1>2

\* The gateway's stream is opened, closed and joined by main(), and gets numbers of
\* tasks only.
LEMMA TaskStreamStep ==
  ASSUME TypeOK, [Next]_vars
  PROVE  [Tasks!Next]_(Tasks!mailboxVars)
<1> USE DEF taskVars, Tasks!mailboxVars
<1>1. CASE FirstTask
  BY <1>1, MakeTaskPosts DEF FirstTask
<1>2. CASE OnTimer
  BY <1>2, MakeTaskPosts DEF OnTimer
<1>3. CASE MakeGateway \/ CloseTasks \/ JoinTasks
  BY <1>3 DEF MakeGateway, CloseTasks, JoinTasks, Tasks!Next
<1>4. CASE TakeTask \/ OnTask
  BY <1>4 DEF TakeTask, OnTask, Tasks!Next
<1>5. CASE MakeSender \/ SenderThrows \/ RunTimer \/ Signalled \/ DestroyGenerator
  BY <1>5 DEF MakeSender, SenderThrows, RunTimer, Signalled, DestroyGenerator
<1>6. CASE CloseDatagrams \/ JoinDatagrams \/ CloseSocket \/ TimerLoop \/ Tick
  BY <1>6 DEF CloseDatagrams, JoinDatagrams, CloseSocket, TimerLoop, Tick
<1>7. CASE TakeDatagram \/ OnDatagram
  BY <1>7 DEF TakeDatagram, OnDatagram
<1>8. CASE UNCHANGED vars
  BY <1>8 DEF vars
<1>9. QED BY <1>1, <1>2, <1>3, <1>4, <1>5, <1>6, <1>7, <1>8, StepCases

\* A task in the gateway's hand is one that was made.
LEMMA TaskInHand ==
  ASSUME TypeOK, TasksInOrder, t_current # <<>>
  PROVE  Head(t_current) \in 1..MaxTasks
<1> DEFINE front == d_handled \o d_current \o d_pending
           n == Head(t_current)
<1>1. t_current = <<n>> /\ n \in Nat
  BY ChainTyped, ShortSeq DEF TasksInOrder
<1>2. /\ front \in Seq(Nat) /\ t_pending \in Seq(Nat) /\ t_current \in Seq(Nat)
      /\ Chain = (front \o t_current) \o t_pending
  BY ChainTyped DEF Chain
<1> HIDE DEF front, n
<1>3. front \o t_current \in Seq(Nat)
  BY <1>2, ConcatProperties
<1>4. Counts(Chain) /\ Len(Chain) <= made
  BY DEF TasksInOrder, Counts
<1>5. /\ Counts(front \o t_current) /\ Len(front \o t_current) <= Len(Chain)
      /\ Len(front \o t_current) \in Nat /\ Len(Chain) \in Nat
  BY <1>2, <1>3, <1>4, CountsFront
<1>6. n = Len(front) + 1
  BY <1>1, <1>2, <1>5, CountsThen
<1>7. Len(front \o t_current) = Len(front) + 1 /\ Len(front) \in Nat
  BY <1>1, <1>2, ConcatProperties, LenProperties
<1>8. QED BY <1>4, <1>5, <1>6, <1>7, MaxTasksIsNatural DEF TypeOK, n

\* So is the sender's stream.
LEMMA DatagramStreamStep ==
  ASSUME TypeOK, TasksInOrder, [Next]_vars
  PROVE  [Datagrams!Next]_(Datagrams!mailboxVars)
<1> USE DEF datagramVars, Datagrams!mailboxVars
<1>1. CASE OnTask
  <2>1. Head(t_current) \in 1..MaxTasks
    BY <1>1, TaskInHand DEF OnTask, Tasks!Handle
  <2>2. Datagrams!Post(Head(t_current)) \/ UNCHANGED datagramVars
    BY <1>1 DEF OnTask, PostDatagram
  <2>3. QED BY <2>1, <2>2 DEF Datagrams!Next
<1>2. CASE MakeSender \/ SenderThrows \/ CloseDatagrams \/ JoinDatagrams
  BY <1>2 DEF MakeSender, SenderThrows, CloseDatagrams, JoinDatagrams, Datagrams!Next
<1>3. CASE TakeDatagram \/ OnDatagram
  BY <1>3 DEF TakeDatagram, OnDatagram, Datagrams!Next
<1>4. CASE MakeGateway \/ FirstTask \/ RunTimer \/ Signalled \/ DestroyGenerator
  BY <1>4 DEF MakeGateway, FirstTask, RunTimer, Signalled, DestroyGenerator
<1>5. CASE CloseTasks \/ JoinTasks \/ CloseSocket
  BY <1>5 DEF CloseTasks, JoinTasks, CloseSocket
<1>6. CASE TimerLoop \/ OnTimer \/ Tick \/ TakeTask
  BY <1>6 DEF TimerLoop, OnTimer, Tick, TakeTask
<1>7. CASE UNCHANGED vars
  BY <1>7 DEF vars
<1>8. QED BY <1>1, <1>2, <1>3, <1>4, <1>5, <1>6, <1>7, StepCases

\* Inside of the server the generator's timer does nothing but what Timer says: main()
\* keeps to its rule.
THEOREM TimerInside == SafeSpec => T!SafeSpec
<1>1. Init => T!Init
  BY DEF Init
<1>2. QED BY <1>1, TimerStep, PTL DEF SafeSpec, T!SafeSpec

\* The gateway's stream is used as Mailbox allows ...
THEOREM TaskStreamInside == SafeSpec => Tasks!SafeSpec
<1>1. Init => Tasks!Init
  BY DEF Init
<1>2. QED BY <1>1, TypeCorrect, TaskStreamStep, PTL DEF SafeSpec, Tasks!SafeSpec

\* ... and so is the sender's.
THEOREM DatagramStreamInside == SafeSpec => Datagrams!SafeSpec
<1>1. Init => Datagrams!Init
  BY DEF Init
<1>2. IInv /\ [Next]_vars => [Datagrams!Next]_(Datagrams!mailboxVars)
  BY DatagramStreamStep DEF IInv
<1>3. QED BY <1>1, <1>2, InductiveInvariant, PTL DEF SafeSpec, Datagrams!SafeSpec

\* The timer of ServerProcess and that of the proofs are one.
LEMMA SameTimer ==
  /\ T!Init => TP!Init
  /\ [T!Next]_(T!timerVars) => [TP!Next]_(TP!timerVars)
<1>1. T!Init => TP!Init
  BY DEF T!Init, TP!Init
<1>2. T!timerVars = TP!timerVars /\ T!timerVars' = TP!timerVars'
  BY DEF T!timerVars, TP!timerVars
<1>3. T!Next => TP!Next
  <2> SUFFICES ASSUME T!Next PROVE TP!Next
    OBVIOUS
  <2> USE DEF T!CallerStep, TP!CallerStep, T!clocks, TP!clocks, T!onces, TP!onces
  <2>1. \A c \in {"main"} : T!CallerCalls(c) => TP!CallerCalls(c)
    BY DEF T!CallerCalls, TP!CallerCalls, T!RunCall, TP!RunCall, T!ShutdownCall, TP!ShutdownCall,
           T!RunFirst, TP!RunFirst
  <2>2. \A c \in {"main"} : T!CallerInside(c) => TP!CallerInside(c)
    BY DEF T!CallerInside, TP!CallerInside, T!Spawn, TP!Spawn, T!RunReturns, TP!RunReturns,
           T!RunWaited, TP!RunWaited, T!Stop, TP!Stop, T!Join, TP!Join, T!Back, TP!Back,
           T!ShutdownWaited, TP!ShutdownWaited, T!ShutdownCall, TP!ShutdownCall,
           T!RunFirst, TP!RunFirst
  <2>3. T!Destroy => TP!Destroy
    BY DEF T!Destroy, TP!Destroy
  <2>4. T!TimerWorks => TP!TimerWorks
    BY DEF T!TimerWorks, TP!TimerWorks, T!TimerStep, TP!TimerStep, T!ThreadStart, TP!ThreadStart,
           T!LoopCheck, TP!LoopCheck, T!WakeUp, TP!WakeUp, T!LoopRecheck, TP!LoopRecheck,
           T!CallbackReturns, TP!CallbackReturns
  <2>5. T!Tick => TP!Tick
    BY DEF T!Tick, TP!Tick
  <2>6. T!Finished => TP!Finished
    BY <1>2 DEF T!Finished, TP!Finished
  <2>7. QED BY <2>1, <2>2, <2>3, <2>4, <2>5, <2>6 DEF T!Next, TP!Next
<1>4. QED BY <1>1, <1>2, <1>3

\* So what is proved about Timer for every one of its callers holds here: no callback
\* runs once ~task_generator_t() shut the timer down, no std::thread is left joinable,
\* and a period at least lies between two tasks.
THEOREM TimerStaysSound ==
  SafeSpec => [](T!SilentOnceShutdown /\ T!NothingToTerminate) /\ T!NeverTooSoon
<1>1. Init => TP!IInv
  BY SameTimer, PeriodIsPositive, TP!IInvInit DEF Init
<1>2. TP!IInv /\ [Next]_vars => TP!IInv'
  BY TimerStep, SameTimer, PeriodIsPositive, TP!IInvStep
<1>3. TP!IInv => T!SilentOnceShutdown /\ T!NothingToTerminate
  BY DEF TP!IInv, TP!ThreadLife, TP!ShutdownLast, T!SilentOnceShutdown, T!NothingToTerminate
<1> DEFINE A == timer = "recheck" /\ timer' = "calling" => sinceCall = Period
<1>4. TP!IInv /\ [Next]_vars => [A]_(T!timerVars)
  BY DEF TP!IInv, TP!SleepCovered
<1>5. QED BY <1>1, <1>2, <1>3, <1>4, PTL DEF SafeSpec, T!NeverTooSoon
=============================================================================
