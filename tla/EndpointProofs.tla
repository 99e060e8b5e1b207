--------------------------- MODULE EndpointProofs ---------------------------
(***************************************************************************)
(* Proofs about EndpointProcess: its receiver is a Receiver and its stream *)
(* a Mailbox, whatever the rest of the process does, and so what is proved *)
(* about those holds inside of the endpoint.                               *)
(***************************************************************************)
EXTENDS EndpointProcess, SequenceLemmas

-----------------------------------------------------------------------------
(* The receiver, for every one of its owners *)

\* Every step of the specification, one disjunct for each action.
LEMMA ReceiverCases ==
  ASSUME [R!Next]_(R!receiverVars)
  PROVE  \/ \E d \in R!Datagram : R!Arrive(d)
         \/ R!OpenSocket \/ R!SetTimeout \/ R!Bind \/ R!ConstructorThrows
         \/ R!Subscribe \/ R!Spawn \/ R!RunReturns \/ R!Stop \/ R!Join
         \/ R!ThreadStart \/ R!LoopCheck \/ R!RecvFails \/ R!Receive \/ R!NotifyReturns
         \/ UNCHANGED R!receiverVars
BY DEF R!Next, R!Network, R!OwnerInside, R!OwnerCalls, R!Construct, R!ThreadWorks, R!Finished

-----------------------------------------------------------------------------
(* What the receiver does to a sequence of datagrams *)

Cut(s) == [i \in DOMAIN s |-> R!Truncated(s[i])]

LEMMA TruncatedTyped ==
  ASSUME NEW d \in R!Datagram
  PROVE  R!Truncated(d) \in R!Received
BY SizesAreNatural DEF R!Datagram, R!Received, R!Truncated

LEMMA CutTyped ==
  ASSUME NEW s \in Seq(R!Datagram)
  PROVE  /\ Cut(s) \in Seq(R!Received)
         /\ Len(Cut(s)) = Len(s)
         /\ \A i \in 1..Len(s) : Cut(s)[i] = R!Truncated(s[i])
<1>1. Len(s) \in Nat /\ DOMAIN s = 1..Len(s) /\ \A i \in 1..Len(s) : s[i] \in R!Datagram
  BY LenProperties, ElementOfSeq
<1>2. \A i \in 1..Len(s) : R!Truncated(s[i]) \in R!Received
  BY <1>1, TruncatedTyped
<1>3. Cut(s) \in [1..Len(s) -> R!Received]
  BY <1>1, <1>2 DEF Cut
<1>4. Cut(s) \in Seq(R!Received)
  BY <1>1, <1>3, SeqDef
<1>5. Len(Cut(s)) = Len(s)
  BY <1>1, <1>3, <1>4, LenProperties
<1>6. QED BY <1>1, <1>4, <1>5 DEF Cut

\* Cutting a sequence with one more datagram.
LEMMA CutAppend ==
  ASSUME NEW s \in Seq(R!Datagram), NEW d \in R!Datagram
  PROVE  Cut(Append(s, d)) = Cut(s) \o <<R!Truncated(d)>>
<1> DEFINE longer == Append(s, d)
<1> DEFINE t == Cut(s) \o <<R!Truncated(d)>>
<1>1. /\ Len(s) \in Nat /\ longer \in Seq(R!Datagram) /\ Len(longer) = Len(s) + 1
      /\ \A i \in 1..Len(longer) : longer[i] = IF i = Len(s) + 1 THEN d ELSE s[i]
  BY LenProperties, AppendProperties
<1>2. /\ Cut(s) \in Seq(R!Received) /\ Len(Cut(s)) = Len(s)
      /\ \A i \in 1..Len(s) : Cut(s)[i] = R!Truncated(s[i])
  BY CutTyped
<1>3. /\ Cut(longer) \in Seq(R!Received) /\ Len(Cut(longer)) = Len(longer)
      /\ \A i \in 1..Len(longer) : Cut(longer)[i] = R!Truncated(longer[i])
  BY <1>1, CutTyped
<1>4. <<R!Truncated(d)>> \in Seq(R!Received) /\ Len(<<R!Truncated(d)>>) = 1
  BY TruncatedTyped
<1>5. /\ t \in Seq(R!Received) /\ Len(t) = Len(s) + 1
      /\ \A i \in 1..(Len(s) + 1) :
           t[i] = IF i <= Len(s) THEN Cut(s)[i] ELSE <<R!Truncated(d)>>[i - Len(s)]
  BY <1>2, <1>4, ConcatProperties, SMTT(60)
<1>6. ASSUME NEW i \in 1..Len(longer)
      PROVE  Cut(longer)[i] = t[i]
  <2> HIDE DEF t, longer
  <2>1. CASE i = Len(s) + 1
    <3>1. ~ i <= Len(s) /\ i - Len(s) = 1 /\ i \in 1..(Len(s) + 1)
      BY <2>1, <1>1
    <3>2. t[i] = <<R!Truncated(d)>>[1]
      BY <3>1, <1>5
    <3>3. QED BY <2>1, <3>2, <1>1, <1>3
  <2>2. CASE i # Len(s) + 1
    <3>1. i \in 1..Len(s) /\ i <= Len(s) /\ i \in 1..(Len(s) + 1)
      BY <2>2, <1>1
    <3>2. QED BY <2>2, <3>1, <1>1, <1>2, <1>3, <1>5
  <2>3. QED BY <2>1, <2>2
<1>7. Len(Cut(longer)) = Len(t)
  BY <1>1, <1>3, <1>5
<1> HIDE DEF t, longer
<1>8. Cut(longer) = t
  BY <1>3, <1>5, <1>6, <1>7, SeqEqual
<1>9. QED BY <1>8 DEF t, longer

\* Cutting a sequence from its front.
LEMMA CutHeadTail ==
  ASSUME NEW s \in Seq(R!Datagram), s # <<>>
  PROVE  /\ Head(s) \in R!Datagram /\ Tail(s) \in Seq(R!Datagram)
         /\ Cut(s) = <<R!Truncated(Head(s))>> \o Cut(Tail(s))
<1> DEFINE rest == Tail(s)
<1> DEFINE t == <<R!Truncated(Head(s))>> \o Cut(rest)
<1>1. /\ Head(s) \in R!Datagram /\ rest \in Seq(R!Datagram) /\ Len(rest) = Len(s) - 1
      /\ \A i \in 1..Len(rest) : rest[i] = s[i + 1]
  BY HeadTailProperties
<1>2. Len(s) \in Nat /\ Len(s) # 0 /\ Head(s) = s[1]
  BY EmptySeq, LenProperties
<1>3. /\ Cut(s) \in Seq(R!Received) /\ Len(Cut(s)) = Len(s)
      /\ \A i \in 1..Len(s) : Cut(s)[i] = R!Truncated(s[i])
  BY CutTyped, SMTT(60)
<1>4. /\ Cut(rest) \in Seq(R!Received) /\ Len(Cut(rest)) = Len(rest)
      /\ \A i \in 1..Len(rest) : Cut(rest)[i] = R!Truncated(rest[i])
  BY <1>1, CutTyped
<1>5. <<R!Truncated(Head(s))>> \in Seq(R!Received) /\ Len(<<R!Truncated(Head(s))>>) = 1
  BY <1>1, TruncatedTyped
<1>6. /\ t \in Seq(R!Received) /\ Len(t) = 1 + Len(rest)
      /\ \A i \in 1..(1 + Len(rest)) :
           t[i] = IF i <= 1 THEN <<R!Truncated(Head(s))>>[i] ELSE Cut(rest)[i - 1]
  BY <1>4, <1>5, ConcatProperties
<1>7. ASSUME NEW i \in 1..Len(s)
      PROVE  Cut(s)[i] = t[i]
  <2> HIDE DEF t, rest
  <2>1. CASE i = 1
    <3>1. t[1] = <<R!Truncated(Head(s))>>[1]
      BY <1>1, <1>2, <1>6
    <3>2. QED BY <2>1, <3>1, <1>2, <1>3
  <2>2. CASE i # 1
    <3>1. i - 1 \in 1..Len(rest) /\ ~ i <= 1 /\ i \in 1..(1 + Len(rest)) /\ (i - 1) + 1 = i
      BY <2>2, <1>1, <1>2
    <3>2. QED BY <3>1, <1>1, <1>3, <1>4, <1>6
  <2>3. QED BY <2>1, <2>2
<1> HIDE DEF t, rest
<1>8. Len(Cut(s)) = Len(t)
  <2>1. Len(t) = 1 + (Len(s) - 1)
    BY <1>1, <1>6
  <2>2. QED BY <2>1, <1>2, <1>3
<1>9. Cut(s) = t
  BY <1>3, <1>6, <1>7, <1>8, SeqEqual
<1>10. QED BY <1>1, <1>9 DEF t, rest

-----------------------------------------------------------------------------
(* The owner, the thread and what they share *)

ReceiverControl == R!SocketLife /\ R!ThreadLife /\ R!RunningFlag

\* The owner's steps keep the socket, the flags and the thread as they should be.
LEMMA OwnerControl ==
  ASSUME R!TypeOK, ReceiverControl,
         \/ R!OpenSocket \/ R!SetTimeout \/ R!Bind \/ R!ConstructorThrows
         \/ R!Subscribe \/ R!Spawn \/ R!RunReturns \/ R!Stop \/ R!Join
  PROVE  ReceiverControl'
<1> USE DEF R!TypeOK, ReceiverControl, R!SocketLife, R!ThreadLife, R!RunningFlag,
            R!Constructing, R!OwnerStep
<1>1. CASE R!OpenSocket
  BY <1>1 DEF R!OpenSocket
<1>2. CASE R!SetTimeout
  BY <1>2 DEF R!SetTimeout
<1>3. CASE R!Bind
  BY <1>3 DEF R!Bind
<1>4. CASE R!ConstructorThrows
  BY <1>4 DEF R!ConstructorThrows
<1>5. CASE R!Subscribe
  BY <1>5 DEF R!Subscribe
<1>6. CASE R!Spawn
  BY <1>6 DEF R!Spawn
<1>7. CASE R!RunReturns
  BY <1>7 DEF R!RunReturns
<1>8. CASE R!Stop
  BY <1>8 DEF R!Stop, R!ThreadPositions
<1>9. CASE R!Join
  BY <1>9 DEF R!Join
<1>10. QED BY <1>1, <1>2, <1>3, <1>4, <1>5, <1>6, <1>7, <1>8, <1>9

\* So do the steps of the thread and of the network.
LEMMA ThreadControl ==
  ASSUME R!TypeOK, ReceiverControl,
         \/ \E d \in R!Datagram : R!Arrive(d)
         \/ R!ThreadStart \/ R!LoopCheck \/ R!RecvFails \/ R!Receive \/ R!NotifyReturns
  PROVE  ReceiverControl'
<1> USE DEF R!TypeOK, ReceiverControl, R!SocketLife, R!ThreadLife, R!RunningFlag,
            R!Constructing, R!ThreadStep
<1>1. CASE \E d \in R!Datagram : R!Arrive(d)
  BY <1>1 DEF R!Arrive
<1>2. CASE R!ThreadStart
  BY <1>2 DEF R!ThreadStart, R!OwnerPositions
<1>3. CASE R!LoopCheck
  BY <1>3 DEF R!LoopCheck
<1>4. CASE R!RecvFails
  BY <1>4 DEF R!RecvFails
<1>5. CASE R!Receive
  BY <1>5 DEF R!Receive
<1>6. CASE R!NotifyReturns
  BY <1>6 DEF R!NotifyReturns
<1>7. QED BY <1>1, <1>2, <1>3, <1>4, <1>5, <1>6

LEMMA ControlStep ==
  ASSUME R!TypeOK, ReceiverControl, [R!Next]_(R!receiverVars)
  PROVE  ReceiverControl'
<1>1. CASE UNCHANGED R!receiverVars
  BY <1>1 DEF R!receiverVars, ReceiverControl, R!SocketLife, R!ThreadLife, R!RunningFlag
<1>2. QED BY <1>1, ReceiverCases, OwnerControl, ThreadControl

-----------------------------------------------------------------------------
(* The datagrams *)

ReceiverData == R!TypeOK /\ R!BufferUse /\ R!NothingLostAfterKernel

\* The steps that touch no datagram.
LEMMA OwnerData ==
  ASSUME ReceiverData, R!ThreadLife,
         \/ R!OpenSocket \/ R!SetTimeout \/ R!Bind \/ R!ConstructorThrows
         \/ R!Subscribe \/ R!Spawn \/ R!RunReturns \/ R!Stop \/ R!Join
         \/ R!ThreadStart \/ R!LoopCheck \/ R!RecvFails
  PROVE  ReceiverData'
<1>1. UNCHANGED <<inbox, arrived, buffer, notified>>
  BY DEF R!OpenSocket, R!SetTimeout, R!Bind, R!ConstructorThrows, R!Subscribe, R!Spawn,
         R!RunReturns, R!Stop,
         R!Join, R!OwnerStep, R!kernelVars, R!ThreadStart, R!LoopCheck, R!RecvFails, R!ThreadStep
<1>2. R!NothingLostAfterKernel'
  BY <1>1 DEF ReceiverData, R!NothingLostAfterKernel
<1>3. R!BufferUse'
  BY <1>1
  DEF ReceiverData, R!BufferUse, R!ThreadLife, R!OwnerStep, R!OpenSocket, R!SetTimeout, R!Bind,
      R!ConstructorThrows, R!Subscribe, R!Spawn,
      R!RunReturns, R!Stop, R!Join, R!ThreadStart, R!LoopCheck, R!RecvFails, R!ThreadStep,
      R!Constructing
<1>4. /\ owner' \in R!OwnerPositions
      /\ m_socket' \in {"none", "open", "bound", "closed"}
      /\ m_subscriber' \in BOOLEAN
  BY DEF ReceiverData, R!TypeOK, R!OwnerPositions, R!Constructing,
         R!OpenSocket, R!SetTimeout, R!Bind, R!ConstructorThrows, R!Subscribe, R!Spawn,
         R!RunReturns, R!Stop,
         R!Join, R!OwnerStep, R!ThreadStart, R!LoopCheck, R!RecvFails, R!ThreadStep
<1>5. m_running' \in BOOLEAN /\ thread' \in R!ThreadPositions
  BY DEF ReceiverData, R!TypeOK, R!ThreadPositions,
         R!OpenSocket, R!SetTimeout, R!Bind, R!ConstructorThrows, R!Subscribe, R!Spawn,
         R!RunReturns, R!Stop,
         R!Join, R!ThreadStart, R!LoopCheck, R!RecvFails, R!ThreadStep
<1>6. QED BY <1>1, <1>2, <1>3, <1>4, <1>5 DEF ReceiverData, R!TypeOK

\* NothingLostAfterKernel in terms of Cut.
LEMMA Conserved == R!NothingLostAfterKernel <=> Cut(arrived) = notified \o buffer \o Cut(inbox)
BY DEF R!NothingLostAfterKernel, Cut

LEMMA ArriveData ==
  ASSUME ReceiverData, NEW d \in R!Datagram, R!Arrive(d)
  PROVE  ReceiverData'
<1> DEFINE x == <<R!Truncated(d)>>
<1>1. /\ inbox' = Append(inbox, d) /\ arrived' = Append(arrived, d)
      /\ UNCHANGED <<owner, m_socket, m_subscriber, m_running, thread, buffer, notified>>
  BY DEF R!Arrive
<1>2. inbox' \in Seq(R!Datagram) /\ arrived' \in Seq(R!Datagram)
  BY <1>1, AppendProperties DEF ReceiverData, R!TypeOK
<1>3. R!TypeOK' /\ R!BufferUse'
  BY <1>1, <1>2 DEF ReceiverData, R!TypeOK, R!BufferUse
<1>4. /\ notified \o buffer \in Seq(R!Received) /\ Cut(inbox) \in Seq(R!Received)
      /\ x \in Seq(R!Received)
  BY TruncatedTyped, CutTyped, ConcatProperties DEF ReceiverData, R!TypeOK
<1>5. Cut(arrived') = Cut(arrived) \o x /\ Cut(inbox') = Cut(inbox) \o x
  BY <1>1, CutAppend DEF ReceiverData, R!TypeOK
<1> HIDE DEF x
<1>6. Cut(arrived) = (notified \o buffer) \o Cut(inbox)
  BY Conserved DEF ReceiverData
<1>7. Cut(arrived') = (notified \o buffer) \o Cut(inbox')
  BY <1>4, <1>5, <1>6, ConcatAssociative, SMTT(60)
<1>8. Cut(arrived)' = Cut(arrived') /\ Cut(inbox)' = Cut(inbox')
  BY DEF Cut, R!Truncated
<1>9. R!NothingLostAfterKernel'
  BY <1>1, <1>7, <1>8 DEF R!NothingLostAfterKernel, Cut
<1>10. QED BY <1>3, <1>9 DEF ReceiverData

\* recvfrom() takes the oldest datagram and cuts it.
LEMMA ReceiveData ==
  ASSUME ReceiverData, R!Receive
  PROVE  ReceiverData'
<1> DEFINE x == <<R!Truncated(Head(inbox))>>
<1>1. /\ inbox # <<>> /\ thread = "recvfrom" /\ thread' = "notify"
      /\ buffer' = x /\ inbox' = Tail(inbox)
      /\ UNCHANGED <<owner, m_socket, m_subscriber, m_running, arrived, notified>>
  BY DEF R!Receive, R!ThreadStep
<1>2. buffer = <<>>
  BY <1>1 DEF ReceiverData, R!BufferUse
<1>3. /\ Head(inbox) \in R!Datagram /\ inbox' \in Seq(R!Datagram)
      /\ Cut(inbox) = x \o Cut(inbox')
  BY <1>1, CutHeadTail DEF ReceiverData, R!TypeOK
<1>4. x \in Seq(R!Received) /\ x # <<>> /\ Cut(inbox') \in Seq(R!Received)
  BY <1>3, TruncatedTyped, CutTyped
<1>5. R!TypeOK' /\ R!BufferUse'
  BY <1>1, <1>3, <1>4 DEF ReceiverData, R!TypeOK, R!BufferUse, R!ThreadPositions
<1> HIDE DEF x
<1>6. Cut(arrived) = (notified \o <<>>) \o (x \o Cut(inbox'))
  BY <1>2, <1>3, Conserved DEF ReceiverData
<1>7. notified \in Seq(R!Received) /\ notified \o <<>> = notified
  BY ConcatEmptySeq DEF ReceiverData, R!TypeOK
<1>8. Cut(arrived) = (notified \o x) \o Cut(inbox')
  BY <1>4, <1>6, <1>7, ConcatAssociative
<1>9. R!NothingLostAfterKernel'
  BY <1>1, <1>8 DEF R!NothingLostAfterKernel, Cut
<1>10. QED BY <1>5, <1>9 DEF ReceiverData

LEMMA NotifyData ==
  ASSUME ReceiverData, R!NotifyReturns
  PROVE  ReceiverData'
<1>1. /\ thread = "notify" /\ thread' = "check"
      /\ notified' = notified \o buffer /\ buffer' = <<>>
      /\ UNCHANGED <<owner, m_socket, m_subscriber, m_running, arrived, inbox>>
  BY DEF R!NotifyReturns, R!ThreadStep
<1>2. notified' \in Seq(R!Received) /\ buffer' \in Seq(R!Received)
  BY <1>1, ConcatProperties, EmptySeq DEF ReceiverData, R!TypeOK
<1>3. R!TypeOK' /\ R!BufferUse'
  BY <1>1, <1>2 DEF ReceiverData, R!TypeOK, R!BufferUse, R!ThreadPositions
<1>4. notified' \o buffer' = notified \o buffer
  BY <1>1, <1>2, ConcatEmptySeq
<1>5. R!NothingLostAfterKernel'
  BY <1>1, <1>4 DEF ReceiverData, R!NothingLostAfterKernel
<1>6. QED BY <1>3, <1>5 DEF ReceiverData

LEMMA DataStep ==
  ASSUME ReceiverData, R!ThreadLife, [R!Next]_(R!receiverVars)
  PROVE  ReceiverData'
<1>1. CASE UNCHANGED R!receiverVars
  BY <1>1 DEF R!receiverVars, ReceiverData, R!TypeOK, R!BufferUse, R!NothingLostAfterKernel
<1>2. QED BY <1>1, ReceiverCases, OwnerData, ArriveData, ReceiveData, NotifyData

-----------------------------------------------------------------------------
(* The inductive invariant and what follows from it *)

LEMMA ReceiverInit == R!Init => R!IInv
<1> SUFFICES ASSUME R!Init PROVE R!IInv
  OBVIOUS
<1>1. <<>> \in Seq(R!Datagram) /\ <<>> \in Seq(R!Received)
  BY EmptySeq
<1>2. R!TypeOK
  BY <1>1 DEF R!Init, R!TypeOK, R!OwnerPositions, R!Constructing, R!ThreadPositions
<1>3. R!SocketLife /\ R!ThreadLife /\ R!RunningFlag /\ R!BufferUse
  BY DEF R!Init, R!SocketLife, R!ThreadLife, R!RunningFlag, R!BufferUse, R!Constructing
<1>4. Cut(<<>>) \in Seq(R!Received) /\ Len(Cut(<<>>)) = 0
  BY <1>1, CutTyped, EmptySeq
<1>5. Cut(<<>>) = <<>>
  BY <1>4, EmptySeq
<1>6. <<>> \o <<>> \o <<>> = <<>>
  BY <1>1, ConcatEmptySeq
<1>7. R!NothingLostAfterKernel
  BY <1>5, <1>6, Conserved DEF R!Init
<1>8. QED BY <1>2, <1>3, <1>7 DEF R!IInv

\* The invariant holds whatever arrives, however often recvfrom() fails and
\* whenever the owner stops the receiver.
THEOREM ReceiverInvariant == R!SafeSpec => []R!IInv
<1>1. R!IInv /\ [R!Next]_(R!receiverVars) => R!IInv'
  BY ControlStep, DataStep DEF R!IInv, ReceiverControl, ReceiverData
<1>2. QED BY <1>1, ReceiverInit, PTL DEF R!SafeSpec

\* The receiver's variables keep to their types; what it notifies fits a datagram_t.
THEOREM ReceiverTypeCorrect == R!SafeSpec => []R!TypeOK
<1>1. R!IInv => R!TypeOK
  BY DEF R!IInv
<1>2. QED BY <1>1, ReceiverInvariant, PTL

\* The assertion in notify() holds.
THEOREM SubscriberIsThere == R!SafeSpec => []R!NotifiesASubscriber
<1>1. R!IInv => R!NotifiesASubscriber
  BY DEF R!IInv, R!ThreadLife, R!NotifiesASubscriber
<1>2. QED BY <1>1, ReceiverInvariant, PTL

\* recvfrom() is only called on the bound socket.
THEOREM SocketOutlivesThread == R!SafeSpec => []R!SocketBoundInUse
<1>1. R!IInv => R!SocketBoundInUse
  BY DEF R!IInv, R!SocketLife, R!ThreadLife, R!SocketBoundInUse, R!Constructing, R!TypeOK,
         R!OwnerPositions
<1>2. QED BY <1>1, ReceiverInvariant, PTL

\* No notification runs or begins once the destructor returned.
THEOREM SilentAfterDestruction == R!SafeSpec => []R!SilentOnceDestroyed
<1>1. R!IInv => R!SilentOnceDestroyed
  BY DEF R!IInv, R!ThreadLife, R!SilentOnceDestroyed
<1>2. QED BY <1>1, ReceiverInvariant, PTL

\* A constructor that throws leaves no open socket behind.
THEOREM ThrowIsClean == R!SafeSpec => []R!ThrowLeavesNothing
<1>1. R!IInv => R!ThrowLeavesNothing
  BY DEF R!IInv, R!SocketLife, R!ThrowLeavesNothing
<1>2. QED BY <1>1, ReceiverInvariant, PTL

\* What the kernel accepted is notified once each, in order and cut.
THEOREM NothingLostByReceiver == R!SafeSpec => []R!NothingLostAfterKernel
<1>1. R!IInv => R!NothingLostAfterKernel
  BY DEF R!IInv
<1>2. QED BY <1>1, ReceiverInvariant, PTL

\* A thread that starts late never undoes the destructor's m_running = false.
THEOREM StopIsFinal == R!SafeSpec => R!NoRevival
<1> DEFINE A == m_running' /\ ~m_running => owner = "spin"
<1>1. R!IInv /\ [R!Next]_(R!receiverVars) => A
  <2> SUFFICES ASSUME R!IInv, [R!Next]_(R!receiverVars), m_running', ~m_running
               PROVE  owner = "spin"
    OBVIOUS
  <2>1. R!ThreadStart
    BY ReceiverCases
    DEF R!Arrive, R!OpenSocket, R!SetTimeout, R!Bind, R!ConstructorThrows, R!Subscribe, R!Spawn,
        R!RunReturns,
        R!Stop, R!Join, R!LoopCheck, R!RecvFails, R!Receive, R!NotifyReturns, R!receiverVars
  <2>2. QED
    BY <2>1 DEF R!IInv, R!TypeOK, R!OwnerPositions, R!Constructing, R!ThreadLife, R!RunningFlag,
                R!ThreadStart, R!ThreadStep
<1>2. QED BY <1>1, ReceiverInvariant, PTL DEF R!SafeSpec, R!NoRevival

-----------------------------------------------------------------------------
(* What the datagrams of a sequence say *)

\* The datagrams that are sent and those that recvfrom() returns.
AnyDatagram == [content : Contents, size : Nat]

LEMMA TaskOfTyped ==
  ASSUME NEW d \in AnyDatagram
  PROVE  TaskOf(d) \in Seq(Contents) /\ Len(TaskOf(d)) <= 1
<1>1. d.content \in Contents
  BY DEF AnyDatagram
<1>2. CASE IsTask(d)
  BY <1>1, <1>2 DEF TaskOf
<1>3. CASE ~IsTask(d)
  BY <1>3, EmptySeq DEF TaskOf
<1>4. QED BY <1>2, <1>3

\* Parsed conforms to the equation it is defined by.
LEMMA ParsedDef ==
  ASSUME NEW s \in Seq(AnyDatagram)
  PROVE  \E f \in [0..Len(s) -> Seq(Contents)] :
           /\ f[0] = <<>>
           /\ \A i \in 1..Len(s) : f[i] = f[i - 1] \o TaskOf(s[i])
           /\ Parsed(s) = f[Len(s)]
<1> DEFINE V == Seq(Contents)
           Defines(f) ==
             f = [n \in 0..Len(s) |-> IF n = 0 THEN <<>> ELSE f[n - 1] \o TaskOf(s[n])]
<1>1. Len(s) \in Nat /\ \A i \in 1..Len(s) : s[i] \in AnyDatagram
  BY LenProperties, ElementOfSeq
<1>2. PICK next \in [1..Len(s) -> [V -> V]] :
         \A i \in 1..Len(s), tasks \in V : next[i][tasks] = tasks \o TaskOf(s[i])
  <2> DEFINE table == [i \in 1..Len(s) |-> [tasks \in Seq(Contents) |-> tasks \o TaskOf(s[i])]]
  <2>1. table \in [1..Len(s) -> [V -> V]]
    BY <1>1, TaskOfTyped, ConcatProperties
  <2>2. \A i \in 1..Len(s), tasks \in V : table[i][tasks] = tasks \o TaskOf(s[i])
    OBVIOUS
  <2> HIDE DEF table, V
  <2>3. QED BY <2>1, <2>2
<1>3. <<>> \in V
  BY EmptySeq
<1>4. PICK f \in [0..Len(s) -> V] : f[0] = <<>> /\ \A i \in 1..Len(s) : f[i] = next[i][f[i - 1]]
  <2> HIDE DEF V
  <2>1. Len(s) \in Nat /\ next \in [1..Len(s) -> [V -> V]]
    BY <1>1, <1>2
  <2>2. Unfolds(V, <<>>, Len(s), next)
    BY <1>3, <2>1, Recursion, Zenon
  <2>3. QED BY <2>2 DEF Unfolds
<1>5. \A i \in 1..Len(s) : f[i] = f[i - 1] \o TaskOf(s[i])
  <2> TAKE i \in 1..Len(s)
  <2>1. f[i - 1] \in V
    BY <1>1, <1>4
  <2> HIDE DEF V
  <2>2. QED BY <1>2, <1>4, <2>1, Zenon
<1>6. Defines(f)
  <2>1. f = [n \in 0..Len(s) |-> f[n]]
    BY <1>4
  <2>2. ASSUME NEW n \in 0..Len(s)
        PROVE  f[n] = IF n = 0 THEN <<>> ELSE f[n - 1] \o TaskOf(s[n])
    <3>1. CASE n = 0
      BY <1>4, <3>1
    <3>2. CASE n # 0
      <4>1. n \in 1..Len(s)
        BY <1>1, <3>2
      <4>2. QED BY <1>5, <3>2, <4>1, Zenon
    <3>3. QED BY <3>1, <3>2
  <2>3. QED BY <2>1, <2>2, Zenon
<1> DEFINE g == CHOOSE g : Defines(g)
<1>7. Defines(g)
  BY <1>6
<1>8. Parsed(s) = g[Len(s)]
  BY DEF Parsed
<1> HIDE DEF g
<1>9. g[0] = <<>> /\ \A i \in 1..Len(s) : g[i] = g[i - 1] \o TaskOf(s[i])
  <2>1. \A n \in 0..Len(s) : g[n] = IF n = 0 THEN <<>> ELSE g[n - 1] \o TaskOf(s[n])
    BY <1>7, Zenon
  <2>2. 0 \in 0..Len(s) /\ \A i \in 1..Len(s) : i \in 0..Len(s) /\ i # 0
    BY <1>1
  <2>3. QED BY <2>1, <2>2, Zenon
<1>10. g \in [0..Len(s) -> Seq(Contents)]
  <2> DEFINE S == {i \in Nat : i <= Len(s) => g[i] \in Seq(Contents)}
  <2>1. 0 \in S
    BY <1>3, <1>9
  <2>2. ASSUME NEW i \in Nat, i \in S
        PROVE  i + 1 \in S
    <3> SUFFICES ASSUME i + 1 <= Len(s)
                 PROVE  g[i + 1] \in Seq(Contents)
      OBVIOUS
    <3>1. g[i] \in Seq(Contents) /\ i + 1 \in 1..Len(s) /\ (i + 1) - 1 = i
      BY <1>1, <2>2
    <3>2. g[i + 1] = g[i] \o TaskOf(s[i + 1])
      BY <1>9, <3>1
    <3>3. TaskOf(s[i + 1]) \in Seq(Contents)
      BY <1>1, <3>1, TaskOfTyped
    <3>4. QED BY <3>1, <3>2, <3>3, ConcatProperties
  <2> HIDE DEF S
  <2>3. Nat \subseteq S
    BY <2>1, <2>2, SetInduction
  <2>4. \A i \in 0..Len(s) : g[i] \in Seq(Contents)
    BY <1>1, <2>3 DEF S
  <2>5. QED BY <1>7, <2>4
<1>11. QED BY <1>8, <1>9, <1>10

\* Parsing is one datagram after the other.
LEMMA ParsedTyped ==
  ASSUME NEW s \in Seq(AnyDatagram)
  PROVE  Parsed(s) \in Seq(Contents)
<1>1. PICK f \in [0..Len(s) -> Seq(Contents)] : Parsed(s) = f[Len(s)]
  BY ParsedDef
<1>2. Len(s) \in 0..Len(s)
  BY LenProperties
<1>3. QED BY <1>1, <1>2

LEMMA ParsedEmpty == Parsed(<<>>) = <<>>
<1>1. <<>> \in Seq(AnyDatagram) /\ Len(<<>>) = 0
  BY EmptySeq
<1>2. QED BY <1>1, ParsedDef

LEMMA ParsedAppend ==
  ASSUME NEW s \in Seq(AnyDatagram), NEW d \in AnyDatagram
  PROVE  Parsed(Append(s, d)) = Parsed(s) \o TaskOf(d)
<1> DEFINE longer == Append(s, d)
           n == Len(s)
<1>1. /\ n \in Nat /\ longer \in Seq(AnyDatagram) /\ Len(longer) = n + 1
      /\ \A i \in 1..n : longer[i] = s[i]
      /\ longer[n + 1] = d
  BY LenProperties, AppendProperties
<1> HIDE DEF longer
<1>2. PICK f : /\ f[0] = <<>> /\ Parsed(s) = f[n]
               /\ \A i \in 1..n : f[i] = f[i - 1] \o TaskOf(s[i])
  BY ParsedDef
<1>3. PICK g : /\ g[0] = <<>> /\ Parsed(longer) = g[n + 1]
               /\ \A i \in 1..(n + 1) : g[i] = g[i - 1] \o TaskOf(longer[i])
  BY <1>1, ParsedDef, ZenonT(60)
<1> HIDE DEF n
<1> DEFINE S == {i \in Nat : i <= n => f[i] = g[i]}
<1>4. 0 \in S
  BY <1>2, <1>3
<1>5. ASSUME NEW i \in Nat, i \in S
      PROVE  i + 1 \in S
  <2> SUFFICES ASSUME i + 1 <= n
               PROVE  f[i + 1] = g[i + 1]
    OBVIOUS
  <2>1. i + 1 \in 1..n /\ i + 1 \in 1..(n + 1) /\ (i + 1) - 1 = i /\ f[i] = g[i]
    BY <1>1, <1>5
  <2>2. f[i + 1] = f[i] \o TaskOf(s[i + 1])
    BY <1>2, <2>1
  <2>3. g[i + 1] = g[i] \o TaskOf(longer[i + 1])
    BY <1>3, <2>1
  <2>4. longer[i + 1] = s[i + 1]
    BY <1>1, <2>1
  <2>5. QED BY <2>1, <2>2, <2>3, <2>4
<1> HIDE DEF S
<1>6. n \in S
  BY <1>1, <1>4, <1>5, SetInduction
<1>7. f[n] = g[n]
  BY <1>1, <1>6 DEF S
<1>8. n + 1 \in 1..(n + 1) /\ (n + 1) - 1 = n
  BY <1>1
<1>9. g[n + 1] = g[n] \o TaskOf(longer[n + 1])
  BY <1>3, <1>8
<1>10. QED BY <1>1, <1>2, <1>3, <1>7, <1>9 DEF longer

LEMMA ParsedOne ==
  ASSUME NEW d \in AnyDatagram
  PROVE  Parsed(<<d>>) = TaskOf(d)
<1>1. <<>> \in Seq(AnyDatagram) /\ Append(<<>>, d) = <<d>>
  BY EmptySeq
<1>2. Parsed(<<d>>) = <<>> \o TaskOf(d)
  BY <1>1, ParsedAppend, ParsedEmpty
<1>3. QED BY <1>2, TaskOfTyped, ConcatEmptySeq

LEMMA ParsedConcat ==
  ASSUME NEW s \in Seq(AnyDatagram), NEW t \in Seq(AnyDatagram)
  PROVE  Parsed(s \o t) = Parsed(s) \o Parsed(t)
<1> DEFINE T == {u \in Seq(AnyDatagram) : Parsed(s \o u) = Parsed(s) \o Parsed(u)}
<1>1. <<>> \in T
  <2>1. <<>> \in Seq(AnyDatagram) /\ s \o <<>> = s
    BY EmptySeq, ConcatEmptySeq
  <2>2. Parsed(s) \o <<>> = Parsed(s)
    BY ParsedTyped, ConcatEmptySeq
  <2>3. QED BY <2>1, <2>2, ParsedEmpty
<1>2. ASSUME NEW u \in Seq(AnyDatagram), NEW d \in AnyDatagram, u \in T
      PROVE  Append(u, d) \in T
  <2>1. Append(u, d) \in Seq(AnyDatagram) /\ s \o u \in Seq(AnyDatagram)
    BY AppendProperties, ConcatProperties
  <2>2. s \o Append(u, d) = Append(s \o u, d)
    BY <2>1, AppendIsConcat, ConcatAssociative
  <2>3. Parsed(s \o Append(u, d)) = (Parsed(s) \o Parsed(u)) \o TaskOf(d)
    BY <1>2, <2>1, <2>2, ParsedAppend
  <2>4. (Parsed(s) \o Parsed(u)) \o TaskOf(d) = Parsed(s) \o (Parsed(u) \o TaskOf(d))
    BY ParsedTyped, TaskOfTyped, ConcatAssociative, SMTT(60)
  <2>5. Parsed(s \o Append(u, d)) = Parsed(s) \o Parsed(Append(u, d))
    BY <2>3, <2>4, ParsedAppend
  <2>6. QED BY <2>1, <2>5
<1> HIDE DEF T
<1>3. t \in T
  BY <1>1, <1>2, AppendInduction
<1>4. QED BY <1>3 DEF T

\* At most as many tasks as datagrams.
LEMMA ParsedLen ==
  ASSUME NEW s \in Seq(AnyDatagram)
  PROVE  Len(Parsed(s)) <= Len(s)
<1> DEFINE T == {u \in Seq(AnyDatagram) : Len(Parsed(u)) <= Len(u)}
<1>1. <<>> \in T
  BY EmptySeq, ParsedEmpty
<1>2. ASSUME NEW u \in Seq(AnyDatagram), NEW d \in AnyDatagram, u \in T
      PROVE  Append(u, d) \in T
  <2>1. /\ Append(u, d) \in Seq(AnyDatagram) /\ Len(Append(u, d)) = Len(u) + 1
        /\ Len(u) \in Nat
    BY AppendProperties, LenProperties
  <2>2. /\ Len(Parsed(u) \o TaskOf(d)) = Len(Parsed(u)) + Len(TaskOf(d))
        /\ Len(Parsed(u)) \in Nat /\ Len(TaskOf(d)) \in Nat /\ Len(TaskOf(d)) <= 1
    BY ParsedTyped, TaskOfTyped, ConcatProperties, LenProperties
  <2>3. Len(Parsed(Append(u, d))) <= Len(Append(u, d))
    BY <1>2, <2>1, <2>2, ParsedAppend
  <2>4. QED BY <2>1, <2>3
<1> HIDE DEF T
<1>3. s \in T
  BY <1>1, <1>2, AppendInduction
<1>4. QED BY <1>3 DEF T

\* A cut never makes a task of a datagram nor takes one away.
LEMMA ParsedCut ==
  ASSUME NEW s \in Seq(R!Datagram)
  PROVE  /\ s \in Seq(AnyDatagram) /\ Cut(s) \in Seq(AnyDatagram)
         /\ Parsed(Cut(s)) = Parsed(s)
<1>1. \A d \in R!Datagram : d \in AnyDatagram
  BY SizesAreNatural DEF R!Datagram, AnyDatagram
<1>2. \A d \in R!Received : d \in AnyDatagram
  BY SizesAreNatural DEF R!Received, AnyDatagram
<1>3. \A u \in Seq(R!Datagram) : u \in Seq(AnyDatagram) /\ Cut(u) \in Seq(AnyDatagram)
  BY <1>1, <1>2, CutTyped, SeqMonotonic
<1> DEFINE T == {u \in Seq(R!Datagram) : Parsed(Cut(u)) = Parsed(u)}
<1>4. <<>> \in T
  <2>1. <<>> \in Seq(R!Datagram) /\ Cut(<<>>) = <<>>
    BY CutTyped, EmptySeq
  <2>2. QED BY <2>1
<1>5. ASSUME NEW u \in Seq(R!Datagram), NEW d \in R!Datagram, u \in T
      PROVE  Append(u, d) \in T
  <2>1. /\ Append(u, d) \in Seq(R!Datagram) /\ R!Truncated(d) \in AnyDatagram
        /\ Cut(u) \in Seq(AnyDatagram) /\ u \in Seq(AnyDatagram) /\ d \in AnyDatagram
    BY <1>1, <1>2, <1>3, TruncatedTyped, AppendProperties
  <2>2. Cut(Append(u, d)) = Append(Cut(u), R!Truncated(d))
    BY <2>1, CutAppend, AppendIsConcat, ZenonT(60)
  <2>3. TaskOf(R!Truncated(d)) = TaskOf(d)
    <3>1. R!Truncated(d).content = d.content
      BY DEF R!Truncated, R!Datagram
    <3>2. IsTask(R!Truncated(d)) <=> IsTask(d)
      BY SizesAreNatural, CutIsNoTask DEF R!Truncated, R!Datagram, IsTask
    <3>3. QED BY <3>1, <3>2 DEF TaskOf
  <2>4. Parsed(Cut(Append(u, d))) = Parsed(Cut(u)) \o TaskOf(d)
    BY <2>1, <2>2, <2>3, ParsedAppend
  <2>5. Parsed(Append(u, d)) = Parsed(u) \o TaskOf(d)
    BY <2>1, ParsedAppend
  <2>6. QED BY <1>5, <2>1, <2>4, <2>5
<1> HIDE DEF T
<1>6. s \in T
  BY <1>4, <1>5, AppendInduction
<1>7. QED BY <1>3, <1>6 DEF T

-----------------------------------------------------------------------------
(* Prefixes *)

LEMMA PrefixOfConcat ==
  ASSUME NEW S, NEW s \in Seq(S), NEW t \in Seq(S)
  PROVE  IsPrefix(s, s \o t)
<1>1. /\ s \o t \in Seq(S) /\ Len(s \o t) = Len(s) + Len(t)
      /\ Len(s) \in Nat /\ Len(t) \in Nat
  BY ConcatProperties, LenProperties
<1>2. SubSeq(s \o t, 1, Len(s)) = s /\ SubSeq(s, 1, Len(s)) = s
  BY SubSeqOfConcat1, SubSeqFull
<1>3. QED BY <1>1, <1>2 DEF IsPrefix

\* What has a prefix is the prefix and a rest.
LEMMA RestOfPrefix ==
  ASSUME NEW S, NEW s \in Seq(S), NEW t \in Seq(S), IsPrefix(s, t)
  PROVE  \E rest \in Seq(S) : t = s \o rest
<1>1. Len(s) \in Nat /\ Len(t) \in Nat /\ Len(s) <= Len(t)
  BY LenProperties DEF IsPrefix
<1>2. SubSeq(t, 1, Len(s)) = s
  BY SubSeqFull DEF IsPrefix
<1>3. SubSeq(t, Len(s) + 1, Len(t)) \in Seq(S)
  BY <1>1, SubSeqProperties
<1>4. SubSeq(t, 1, Len(s)) \o SubSeq(t, Len(s) + 1, Len(t)) = SubSeq(t, 1, Len(t))
  <2>1. 1 \in 1..(Len(t) + 1) /\ Len(s) \in (1 - 1)..Len(t) /\ Len(t) \in Len(s)..Len(t)
    BY <1>1
  <2>2. QED BY <2>1, ConcatAdjacentSubSeq
<1>5. QED BY <1>2, <1>3, <1>4, SubSeqFull


\* A sequence cut to its beginning.
LEMMA DiscardRest ==
  ASSUME NEW S, NEW s \in Seq(S), NEW t \in Seq(S)
  PROVE  \E n \in 0..Len(s \o t) : s = SubSeq(s \o t, 1, n)
<1>1. IsPrefix(s, s \o t)
  BY PrefixOfConcat
<1>2. Len(s) \in Nat /\ Len(s \o t) \in Nat /\ s = SubSeq(s, 1, Len(s))
  BY ConcatProperties, LenProperties, SubSeqFull
<1>3. Len(s) \in 0..Len(s \o t) /\ s = SubSeq(s \o t, 1, Len(s))
  BY <1>1, <1>2 DEF IsPrefix
<1>4. QED BY <1>3

-----------------------------------------------------------------------------
(* The endpoint *)

\* Every step of the specification, one disjunct for each action.
LEMMA StepCases ==
  ASSUME [Next]_vars
  PROVE  \/ MakeProcessor \/ MakeReceiver \/ MakeGateway \/ RunGateway \/ Signalled
         \/ StopReceiver \/ DestroyCallback \/ CloseTasks \/ JoinTasks
         \/ Network \/ ReceiverLoop \/ OnReceive \/ TakeTask \/ OnTask
         \/ UNCHANGED vars
BY DEF Next, MainThread, ReceiverThread, ProcessorThread, Finished

-----------------------------------------------------------------------------
(* The components inside of the process *)

\* A step of the process is one of the receiver or leaves it alone.
LEMMA ReceiverStep ==
  ASSUME [Next]_vars
  PROVE  [R!Next]_(R!receiverVars)
<1>1. \/ R!Network \/ R!Construct \/ R!Subscribe \/ R!Spawn \/ R!RunReturns \/ R!Stop \/ R!Join
      \/ R!ThreadStart \/ R!LoopCheck \/ R!RecvFails \/ R!Receive \/ R!NotifyReturns
      \/ UNCHANGED receiverVars
  BY StepCases
  DEF MakeProcessor, MakeReceiver, MakeGateway, RunGateway, Signalled, StopReceiver,
      DestroyCallback, CloseTasks, JoinTasks, Network, ReceiverLoop, OnReceive, TakeTask,
      OnTask, vars
<1>2. UNCHANGED receiverVars <=> UNCHANGED R!receiverVars
  BY DEF receiverVars, R!receiverVars
<1>3. QED BY <1>1, <1>2 DEF R!Next, R!OwnerInside, R!OwnerCalls, R!ThreadWorks

\* The same for the processor's stream, if the receiver notifies what it may.
LEMMA ProcessorStep ==
  ASSUME [Next]_vars, buffer \in Seq(R!Received)
  PROVE  [Processor!Next]_(Processor!mailboxVars)
<1>1. UNCHANGED processorVars <=> UNCHANGED Processor!mailboxVars
  BY DEF processorVars, Processor!mailboxVars
<1>2. CASE OnReceive
  <2>1. PICK d \in ToSet(buffer) : Processor!Post(d.content) \/ UNCHANGED processorVars
    BY <1>2 DEF OnReceive
  <2>2. d \in R!Received
    BY <2>1, LenProperties, ElementOfSeq DEF ToSet
  <2>3. d.content \in Contents
    BY <2>2 DEF R!Received
  <2>4. QED BY <1>1, <2>1, <2>3 DEF Processor!Next
<1>3. CASE ~OnReceive
  BY <1>1, <1>3, StepCases
  DEF MakeProcessor, MakeReceiver, MakeGateway, RunGateway, Signalled, StopReceiver,
      DestroyCallback, CloseTasks, JoinTasks, Network, ReceiverLoop, TakeTask, OnTask, vars,
      Processor!Next
<1>4. QED BY <1>2, <1>3

\* Inside of the endpoint the receiver does nothing but what Receiver says: its
\* callers keep to the order of calls that specification allows.
THEOREM ReceiverInside == SafeSpec => R!SafeSpec
<1>1. Init => R!Init
  BY DEF Init
<1>2. QED BY <1>1, ReceiverStep, PTL DEF SafeSpec, R!SafeSpec

\* So Receiver's invariant, proved for every one of its owners, holds here.
THEOREM ReceiverInvariantInside == SafeSpec => []R!IInv
BY ReceiverInside, ReceiverInvariant, PTL

\* What Receiver's invariant says of the socket and of the thread's end.
THEOREM ReceiverStaysSound == SafeSpec => []ReceiverIsSound
<1>1. R!IInv => ReceiverIsSound
  BY DEF R!IInv, R!TypeOK, R!OwnerPositions, R!ThreadPositions, R!Constructing,
         R!SocketLife, R!ThreadLife, ReceiverIsSound, R!SocketBoundInUse,
         R!SilentOnceDestroyed, R!ThrowLeavesNothing
<1>2. QED BY <1>1, ReceiverInvariantInside, PTL

\* The processor's stream gets nothing but what a datagram can say, in the order
\* of calls that Mailbox allows.
THEOREM ProcessorInside == SafeSpec => Processor!SafeSpec
<1>1. Init => Processor!Init
  BY DEF Init
<1>2. R!IInv /\ [Next]_vars => [Processor!Next]_(Processor!mailboxVars)
  BY ProcessorStep DEF R!IInv, R!TypeOK
<1>3. QED BY <1>1, <1>2, ReceiverInvariantInside, PTL DEF SafeSpec, Processor!SafeSpec

-----------------------------------------------------------------------------
(* The invariant of the process itself *)

\* The stream's steps keep its types.
LEMMA StreamTyped ==
  ASSUME TypeOK, [Processor!Next]_(Processor!mailboxVars)
  PROVE  /\ p_phase' \in {"standby", "running", "shutdown"}
         /\ p_pending' \in Seq(Contents) /\ p_current' \in Seq(Contents)
         /\ p_handled' \in Seq(Contents) /\ Len(p_current') <= 1
<1>1. /\ p_phase \in {"standby", "running", "shutdown"} /\ p_pending \in Seq(Contents)
      /\ p_current \in Seq(Contents) /\ p_handled \in Seq(Contents) /\ Len(p_current) <= 1
  BY DEF TypeOK
<1>2. <<>> \in Seq(Contents) /\ Len(<<>>) <= 1
  BY EmptySeq
<1>3. CASE Processor!Open \/ Processor!Close \/ Processor!Quiesce \/ UNCHANGED Processor!mailboxVars
  BY <1>1, <1>2, <1>3 DEF Processor!Open, Processor!Close, Processor!Quiesce,
                          Processor!mailboxVars
<1>4. CASE \E e \in Contents : Processor!Post(e)
  <2>1. PICK e \in Contents : Processor!Post(e)
    BY <1>4
  <2>2. Append(p_pending, e) \in Seq(Contents)
    BY <1>1, AppendProperties
  <2>3. QED BY <1>1, <2>1, <2>2 DEF Processor!Post
<1>5. CASE Processor!Take
  <2>1. Tail(p_pending) \in Seq(Contents) /\ <<Head(p_pending)>> \in Seq(Contents)
    BY <1>1, <1>5, HeadThenTail DEF Processor!Take
  <2>2. QED BY <1>1, <1>5, <2>1 DEF Processor!Take
<1>6. CASE Processor!Handle
  <2>1. p_handled \o p_current \in Seq(Contents)
    BY <1>1, ConcatProperties
  <2>2. QED BY <1>1, <1>2, <1>6, <2>1 DEF Processor!Handle
<1>7. QED BY <1>3, <1>4, <1>5, <1>6 DEF Processor!Next

LEMMA TypeStep ==
  ASSUME TypeOK, R!IInv, [Next]_vars
  PROVE  TypeOK'
<1>1. main' \in MainPositions /\ m_callback' \in {"none", "alive", "destroyed"}
  BY StepCases
  DEF TypeOK, MakeProcessor, MakeReceiver, MakeGateway, RunGateway, Signalled, StopReceiver,
      DestroyCallback, CloseTasks, JoinTasks, Network, ReceiverLoop, OnReceive, TakeTask,
      OnTask, vars, MainStep, MainPositions, Up, Stopping
<1>2. [Processor!Next]_(Processor!mailboxVars)
  BY ProcessorStep DEF R!IInv, R!TypeOK
<1>3. QED BY <1>1, <1>2, StreamTyped DEF TypeOK

\* The main thread and the receiver's owner go together.
LEMMA LifeStep ==
  ASSUME TypeOK, ReceiverLife, [Next]_vars
  PROVE  ReceiverLife'
<1> USE DEF ReceiverLife, MainStep, R!Constructing, receiverVars
<1>1. CASE MakeReceiver
  <2>1. main = "receiver" /\ owner \in {"socket", "setsockopt", "bind"}
    BY <1>1 DEF MakeReceiver
  <2>2. owner' \in {"setsockopt", "bind", "built", "thrown"}
    BY <1>1 DEF MakeReceiver, R!Construct, R!OpenSocket, R!SetTimeout, R!Bind,
                R!ConstructorThrows, R!OwnerStep
  <2>3. main' = CASE owner' = "thrown" -> "close_tasks"
                  [] owner' = "built" -> "gateway"
                  [] OTHER -> main
    BY <1>1 DEF MakeReceiver
  <2>4. QED BY <2>1, <2>2, <2>3
<1>2. CASE MakeProcessor \/ MakeGateway \/ Signalled \/ DestroyCallback \/ CloseTasks \/ JoinTasks
  BY <1>2 DEF MakeProcessor, MakeGateway, Signalled, DestroyCallback, CloseTasks, JoinTasks
<1>3. CASE RunGateway
  BY <1>3 DEF RunGateway, R!Subscribe, R!Spawn, R!RunReturns, R!OwnerStep
<1>4. CASE StopReceiver
  BY <1>4 DEF StopReceiver, R!Stop, R!Join, R!OwnerStep
<1>5. CASE Network \/ ReceiverLoop \/ OnReceive \/ TakeTask \/ OnTask \/ UNCHANGED vars
  <2>1. main' = main /\ owner' = owner
    BY <1>5 DEF Network, ReceiverLoop, OnReceive, TakeTask, OnTask, vars, R!Network, R!Arrive,
                R!ThreadStart, R!LoopCheck, R!RecvFails, R!Receive, R!NotifyReturns, R!ThreadStep
  <2>2. QED BY <2>1
<1>6. QED BY <1>1, <1>2, <1>3, <1>4, <1>5, StepCases

LEMMA CallableStep ==
  ASSUME TypeOK, ReceiverLife, Callable, [Next]_vars
  PROVE  Callable'
<1> USE DEF Callable, MainStep, Up, processorVars
<1>1. CASE MakeReceiver
  <2>1. /\ main = "receiver" /\ main' \in {"receiver", "gateway", "close_tasks"}
        /\ UNCHANGED <<m_callback, p_phase>>
    BY <1>1 DEF MakeReceiver
  <2>2. QED BY <2>1
<1>2. CASE MakeProcessor
  BY <1>2 DEF MakeProcessor, Processor!Open
<1>3. CASE MakeGateway \/ RunGateway \/ Signalled \/ StopReceiver \/ DestroyCallback
  BY <1>3 DEF MakeGateway, RunGateway, Signalled, StopReceiver, DestroyCallback
<1>4. CASE CloseTasks
  BY <1>4 DEF CloseTasks, Processor!Close
<1>5. CASE JoinTasks
  BY <1>5 DEF JoinTasks, Processor!Quiesce
<1>6. CASE Network \/ ReceiverLoop \/ OnReceive \/ TakeTask \/ OnTask \/ UNCHANGED vars
  <2>1. UNCHANGED <<main, m_callback, p_phase>>
    BY <1>6 DEF Network, ReceiverLoop, OnReceive, TakeTask, OnTask, vars, Processor!Post,
                Processor!Take, Processor!Handle
  <2>2. QED BY <2>1
<1>7. QED BY <1>1, <1>2, <1>3, <1>4, <1>5, <1>6, StepCases

\* While the receiver's thread notifies, the main thread is between the start and
\* the join of that thread.
LEMMA NotifyingIsBetween ==
  ASSUME TypeOK, ReceiverLife, R!IInv, thread = "notify"
  PROVE  main \in {"run", "await", "stop_receiver"}
<1>1. owner \in {"spin", "running", "join"}
  BY DEF R!IInv, R!TypeOK, R!OwnerPositions, R!Constructing, R!ThreadLife
<1>2. QED BY <1>1 DEF TypeOK, ReceiverLife, MainPositions, Up, Stopping, R!Constructing

\* The datagrams that are kept anywhere can be parsed.
LEMMA DatagramsParse ==
  ASSUME R!IInv
  PROVE  /\ arrived \in Seq(AnyDatagram) /\ inbox \in Seq(AnyDatagram)
         /\ buffer \in Seq(AnyDatagram) /\ notified \in Seq(AnyDatagram)
<1>1. \A d \in R!Received : d \in AnyDatagram
  BY SizesAreNatural DEF R!Received, AnyDatagram
<1>2. arrived \in Seq(R!Datagram) /\ inbox \in Seq(R!Datagram)
      /\ buffer \in Seq(R!Received) /\ notified \in Seq(R!Received)
  BY DEF R!IInv, R!TypeOK
<1>3. QED BY <1>1, <1>2, ParsedCut, SeqMonotonic

\* The datagram that is being notified.
LEMMA InHand ==
  ASSUME R!IInv, thread = "notify"
  PROVE  \E d \in AnyDatagram : buffer = <<d>> /\ ToSet(buffer) = {d}
<1>1. buffer \in Seq(AnyDatagram) /\ Len(buffer) = 1
  BY DatagramsParse DEF R!IInv, R!BufferUse
<1>2. buffer # <<>>
  BY <1>1, EmptySeq
<1>3. PICK d \in AnyDatagram : buffer = <<d>>
  BY <1>1, <1>2, ShortSeq
<1>4. ToSet(buffer) = {d}
  BY <1>3 DEF ToSet
<1>5. QED BY <1>3, <1>4

\* on_receive() posts the task of the datagram in hand, if it has one.
LEMMA OnReceivePosts ==
  ASSUME IInv, R!IInv, OnReceive, NEW d \in AnyDatagram, buffer = <<d>>, ToSet(buffer) = {d}
  PROVE  /\ p_phase = "running"
         /\ UNCHANGED <<p_phase, p_handled, p_current>>
         /\ p_pending' = p_pending \o TaskOf(d)
<1>1. thread = "notify"
  BY DEF OnReceive, R!NotifyReturns, R!ThreadStep
<1>2. p_phase = "running"
  BY <1>1, NotifyingIsBetween DEF IInv, Callable, Up
<1>3. p_pending \in Seq(Contents)
  BY DEF IInv, TypeOK
<1>4. CASE IsTask(d)
  <2>1. Processor!Post(d.content)
    BY <1>2, <1>4 DEF OnReceive
  <2>2. p_pending' = p_pending \o <<d.content>>
    BY <1>3, <2>1, AppendIsConcat DEF Processor!Post, AnyDatagram
  <2>3. QED BY <1>2, <1>4, <2>1, <2>2 DEF Processor!Post, TaskOf
<1>5. CASE ~IsTask(d)
  <2>1. UNCHANGED processorVars
    BY <1>5 DEF OnReceive
  <2>2. QED BY <1>2, <1>3, <1>5, <2>1, ConcatEmptySeq DEF processorVars, TaskOf
<1>6. QED BY <1>4, <1>5

LEMMA OnReceiveDelivers ==
  ASSUME IInv, R!IInv, OnReceive
  PROVE  Delivered'
<1> DEFINE shown == p_handled \o p_current
<1>1. thread = "notify" /\ notified' = notified \o buffer
  BY DEF OnReceive, R!NotifyReturns, R!ThreadStep
<1>2. PICK d \in AnyDatagram : buffer = <<d>> /\ ToSet(buffer) = {d}
  BY <1>1, InHand
<1>3. /\ p_phase = "running" /\ UNCHANGED <<p_phase, p_handled, p_current>>
      /\ p_pending' = p_pending \o TaskOf(d)
  BY <1>2, OnReceivePosts
<1>4. /\ notified \in Seq(AnyDatagram) /\ buffer \in Seq(AnyDatagram)
      /\ p_handled \in Seq(Contents) /\ p_current \in Seq(Contents)
      /\ p_pending \in Seq(Contents)
  BY DatagramsParse DEF IInv, TypeOK
<1>5. Parsed(notified') = (shown \o p_pending) \o TaskOf(d)
  <2>1. Parsed(notified') = Parsed(notified) \o TaskOf(d)
    BY <1>1, <1>2, <1>4, ParsedConcat, ParsedOne, ZenonT(60)
  <2>2. QED BY <1>3, <2>1 DEF IInv, Delivered
<1>6. (shown \o p_pending) \o TaskOf(d) = shown \o (p_pending \o TaskOf(d))
  <2>1. shown \in Seq(Contents) /\ TaskOf(d) \in Seq(Contents)
    BY <1>4, TaskOfTyped, ConcatProperties
  <2> HIDE DEF shown
  <2>2. QED BY <1>4, <2>1, ConcatAssociative, SMTT(60)
<1>7. Parsed(notified)' = Parsed(notified')
  BY DEF Parsed, TaskOf, IsTask
<1>8. Parsed(notified)' = (p_handled' \o p_current') \o p_pending'
  BY <1>3, <1>5, <1>6, <1>7
<1>9. QED BY <1>3, <1>8 DEF Delivered

\* The processor's thread moves a task on; nothing new is notified.
LEMMA ProcessorDelivers ==
  ASSUME IInv, TakeTask \/ OnTask
  PROVE  Delivered'
<1>1. /\ p_handled \in Seq(Contents) /\ p_current \in Seq(Contents)
      /\ p_pending \in Seq(Contents)
  BY DEF IInv, TypeOK
<1>2. UNCHANGED <<p_phase, notified>>
  BY DEF TakeTask, OnTask, Processor!Take, Processor!Handle, receiverVars
<1>3. CASE TakeTask
  <2>1. /\ p_current = <<>> /\ p_pending # <<>> /\ UNCHANGED p_handled
        /\ p_current' = <<Head(p_pending)>> /\ p_pending' = Tail(p_pending)
    BY <1>3 DEF TakeTask, Processor!Take
  <2>2. /\ p_pending = p_current' \o p_pending'
        /\ p_current' \in Seq(Contents) /\ p_pending' \in Seq(Contents)
    BY <1>1, <2>1, HeadThenTail
  <2>3. (p_handled \o p_current) \o p_pending = (p_handled' \o p_current') \o p_pending'
    BY <1>1, <2>1, <2>2, ConcatEmptySeq, ConcatAssociative
  <2>4. p_phase # "shutdown"
    BY <2>1 DEF IInv, Delivered
  <2>5. QED BY <1>2, <2>3, <2>4 DEF IInv, Delivered
<1>4. CASE OnTask
  <2>1. p_handled' = p_handled \o p_current /\ p_current' = <<>> /\ UNCHANGED p_pending
    BY <1>4 DEF OnTask, Processor!Handle
  <2>2. p_handled' \o p_current' = p_handled \o p_current
    BY <1>1, <2>1, ConcatProperties, ConcatEmptySeq
  <2>3. QED BY <1>2, <2>1, <2>2 DEF IInv, Delivered
<1>5. QED BY <1>3, <1>4

\* A processor that is shut down drops what nobody took.
LEMMA CloseDelivers ==
  ASSUME IInv, CloseTasks
  PROVE  Delivered'
<1>1. /\ p_phase # "shutdown" /\ p_phase' = "shutdown" /\ p_pending' = <<>>
      /\ UNCHANGED <<p_handled, p_current, notified>>
  BY DEF CloseTasks, Processor!Close, receiverVars
<1>2. IsPrefix(p_handled \o p_current, Parsed(notified))
  <2>1. p_handled \o p_current \in Seq(Contents) /\ p_pending \in Seq(Contents)
    BY ConcatProperties DEF IInv, TypeOK
  <2>2. QED BY <1>1, <2>1, PrefixOfConcat DEF IInv, Delivered
<1>3. QED BY <1>1, <1>2 DEF Delivered

LEMMA DeliveredStep ==
  ASSUME IInv, R!IInv, [Next]_vars
  PROVE  Delivered'
<1>1. CASE MakeProcessor
  BY <1>1 DEF MakeProcessor, Processor!Open, receiverVars, IInv, Delivered
<1>2. CASE \/ MakeReceiver \/ MakeGateway \/ RunGateway \/ Signalled \/ StopReceiver
           \/ DestroyCallback \/ JoinTasks \/ Network \/ ReceiverLoop \/ UNCHANGED vars
  <2>1. UNCHANGED notified
    BY <1>2
    DEF MakeReceiver, MakeGateway, RunGateway, Signalled, StopReceiver, DestroyCallback,
        JoinTasks, Network, ReceiverLoop, vars, receiverVars, R!Construct, R!OpenSocket,
        R!SetTimeout, R!Bind, R!ConstructorThrows, R!Subscribe, R!Spawn, R!RunReturns, R!Stop,
        R!Join, R!OwnerStep, R!Network, R!Arrive, R!ThreadStart, R!LoopCheck, R!RecvFails,
        R!Receive
  <2>2. UNCHANGED <<p_phase, p_pending, p_current, p_handled>>
    BY <1>2
    DEF MakeReceiver, MakeGateway, RunGateway, Signalled, StopReceiver, DestroyCallback,
        JoinTasks, Network, ReceiverLoop, vars, processorVars, Processor!Quiesce
  <2>3. QED BY <2>1, <2>2 DEF IInv, Delivered
<1>3. QED BY <1>1, <1>2, StepCases, OnReceiveDelivers, ProcessorDelivers, CloseDelivers

LEMMA UseStep ==
  ASSUME IInv, R!IInv, [Next]_vars
  PROVE  ReceiverUse'
<1> USE DEF ReceiverUse, MainStep, Up, receiverVars
<1>1. \/ UNCHANGED receiverVars
      \/ /\ R!Network \/ R!Construct \/ R!Subscribe \/ R!Spawn \/ R!RunReturns \/ R!Stop \/ R!Join
            \/ R!ThreadStart \/ R!LoopCheck \/ R!RecvFails \/ R!Receive \/ R!NotifyReturns
  BY StepCases
  DEF MakeProcessor, MakeReceiver, MakeGateway, RunGateway, Signalled, StopReceiver,
      DestroyCallback, CloseTasks, JoinTasks, Network, ReceiverLoop, OnReceive, TakeTask,
      OnTask, vars
<1>2. (m_socket # "bound" => arrived = <<>>)'
  <2>1. m_socket' # "bound" => m_socket # "bound"
    BY <1>1
    DEF R!IInv, R!SocketLife, R!Constructing, R!Construct, R!OpenSocket, R!SetTimeout, R!Bind,
        R!ConstructorThrows, R!Subscribe, R!Spawn, R!RunReturns, R!Stop, R!Join, R!OwnerStep,
        R!Network, R!Arrive, R!ThreadStart, R!LoopCheck, R!RecvFails, R!Receive,
        R!NotifyReturns, R!ThreadStep
  <2>2. m_socket # "bound" => UNCHANGED arrived
    BY <1>1
    DEF R!Construct, R!OpenSocket, R!SetTimeout, R!Bind,
        R!ConstructorThrows, R!Subscribe, R!Spawn, R!RunReturns, R!Stop, R!Join, R!OwnerStep,
        R!kernelVars, R!Network, R!Arrive, R!ThreadStart, R!LoopCheck, R!RecvFails, R!Receive,
        R!NotifyReturns, R!ThreadStep
  <2>3. QED BY <2>1, <2>2 DEF IInv
<1>3. thread # "none" => thread' # "none"
  BY <1>1
  DEF R!Construct, R!OpenSocket, R!SetTimeout, R!Bind,
      R!ConstructorThrows, R!Subscribe, R!Spawn, R!RunReturns, R!Stop, R!Join,
      R!Network, R!Arrive, R!ThreadStart, R!LoopCheck, R!RecvFails, R!Receive,
      R!NotifyReturns, R!ThreadStep
<1>4. \/ main' = main
      \/ main' \in Up \cup {"processor"}
      \/ main' = "close_tasks" /\ owner' = "thrown"
      \/ main = "await" /\ UNCHANGED owner
      \/ main \in Stopping /\ (owner' = "thrown" <=> owner = "thrown")
  BY StepCases
  DEF MakeProcessor, MakeReceiver, MakeGateway, RunGateway, Signalled, StopReceiver,
      DestroyCallback, CloseTasks, JoinTasks, Network, ReceiverLoop, OnReceive, TakeTask,
      OnTask, vars, Stopping, R!Stop, R!Join, R!OwnerStep
<1>5. (main \notin {"processor"} \cup Up /\ owner # "thrown" => thread # "none")'
  <2>1. main = "await" => thread # "none"
    BY DEF IInv, ReceiverLife, R!IInv, R!ThreadLife
  <2>2. owner = "thrown" => owner' = "thrown"
    BY <1>1
    DEF R!Construct, R!OpenSocket, R!SetTimeout, R!Bind,
        R!ConstructorThrows, R!Subscribe, R!Spawn, R!RunReturns, R!Stop, R!Join, R!OwnerStep,
        R!Constructing, R!Network, R!Arrive, R!ThreadStart, R!LoopCheck, R!RecvFails, R!Receive,
        R!NotifyReturns, R!ThreadStep
  <2>3. QED BY <1>3, <1>4, <2>1, <2>2 DEF IInv, Stopping
<1>6. QED BY <1>2, <1>5

\* The positions of the main thread tell where the receiver is and what may be
\* called, whatever arrives and whenever SIGUSR2 comes.
THEOREM InductiveInvariant == SafeSpec => []IInv
<1>1. Init => IInv
  <2> SUFFICES ASSUME Init PROVE IInv
    OBVIOUS
  <2>1. /\ main = "processor" /\ m_callback = "none" /\ owner = "socket"
        /\ p_phase = "standby" /\ p_pending = <<>> /\ p_current = <<>> /\ p_handled = <<>>
    BY DEF Init, R!Init, Processor!Init
  <2>2. <<>> \in Seq(Contents)
    BY EmptySeq
  <2>3. TypeOK /\ ReceiverLife /\ Callable /\ ReceiverUse
    <3>1. arrived = <<>> /\ Len(<<>>) <= 1
      BY DEF Init, R!Init
    <3>2. QED BY <2>1, <2>2, <3>1 DEF TypeOK, MainPositions, ReceiverLife, Callable, ReceiverUse, Up
  <2>4. Delivered
    <3>1. notified = <<>> /\ <<>> \o <<>> = <<>>
      BY ConcatEmptySeq, <2>2 DEF Init, R!Init
    <3>2. QED BY <2>1, <3>1, ParsedEmpty DEF Delivered
  <2>5. QED BY <2>3, <2>4 DEF IInv
<1>2. IInv /\ R!IInv /\ [Next]_vars => IInv'
  BY TypeStep, LifeStep, CallableStep, UseStep, DeliveredStep DEF IInv
<1>3. QED BY <1>1, <1>2, ReceiverInvariantInside, PTL DEF SafeSpec

\* The process's variables keep to their types; only what a datagram can say
\* reaches the processor.
THEOREM TypeCorrect == SafeSpec => []TypeOK
<1>1. IInv => TypeOK
  BY DEF IInv
<1>2. QED BY <1>1, InductiveInvariant, PTL

\* The gateway's callback finds a processor that accepts tasks, as main() declares
\* the processor before the gateway.
THEOREM ProcessorIsThere == SafeSpec => []TasksAreAccepted
<1>1. IInv /\ R!IInv => TasksAreAccepted
  BY NotifyingIsBetween DEF IInv, Callable, Up, TasksAreAccepted
<1>2. QED BY <1>1, InductiveInvariant, ReceiverInvariantInside, PTL

\* The receiver's thread finds the callback, as gateway_t declares m_callback
\* before m_receiver.
THEOREM CallbackIsThere == SafeSpec => []CallbackOutlivesReceiver
<1>1. IInv /\ R!IInv => CallbackOutlivesReceiver
  BY NotifyingIsBetween DEF IInv, Callable, CallbackOutlivesReceiver
<1>2. QED BY <1>1, InductiveInvariant, ReceiverInvariantInside, PTL

\* What the kernel accepted is what was notified, what is being notified and what
\* is still in the socket, parsed in this order.
LEMMA ArrivedParses ==
  ASSUME R!IInv
  PROVE  /\ Parsed(arrived) = (Parsed(notified) \o Parsed(buffer)) \o Parsed(inbox)
         /\ Parsed(arrived) \in Seq(Contents) /\ Parsed(notified) \in Seq(Contents)
         /\ Parsed(buffer) \in Seq(Contents) /\ Parsed(inbox) \in Seq(Contents)
<1>1. /\ arrived \in Seq(AnyDatagram) /\ inbox \in Seq(AnyDatagram)
      /\ buffer \in Seq(AnyDatagram) /\ notified \in Seq(AnyDatagram)
  BY DatagramsParse
<1>2. /\ Parsed(Cut(arrived)) = Parsed(arrived) /\ Parsed(Cut(inbox)) = Parsed(inbox)
      /\ Cut(inbox) \in Seq(AnyDatagram)
  BY ParsedCut DEF R!IInv, R!TypeOK
<1>3. Cut(arrived) = (notified \o buffer) \o Cut(inbox)
  BY Conserved DEF R!IInv
<1>4. notified \o buffer \in Seq(AnyDatagram)
  BY <1>1, ConcatProperties
<1>5. Parsed(notified \o buffer) = Parsed(notified) \o Parsed(buffer)
  BY <1>1, ParsedConcat
<1>6. Parsed((notified \o buffer) \o Cut(inbox)) = Parsed(notified \o buffer) \o Parsed(Cut(inbox))
  BY <1>2, <1>4, ParsedConcat
<1>7. QED BY <1>1, <1>2, <1>3, <1>5, <1>6, ParsedTyped

\* Until SIGUSR2 is taken every task that the kernel accepted is shown or on its way
\* through the three threads, in its place.
THEOREM NothingIsLost == SafeSpec => []NothingLostInside
<1>1. IInv /\ R!IInv => NothingLostInside
  <2> SUFFICES ASSUME IInv, R!IInv, main \in Up
               PROVE  Parsed(arrived) = p_handled \o p_current \o p_pending \o Parsed(buffer)
                                          \o Parsed(inbox)
    BY DEF NothingLostInside
  <2>1. Parsed(notified) = p_handled \o p_current \o p_pending
    BY DEF IInv, Callable, Delivered
  <2>2. QED BY <2>1, ArrivedParses
<1>2. QED BY <1>1, InductiveInvariant, ReceiverInvariantInside, PTL

\* What is shown is a beginning of what the kernel accepted, however the process
\* stops.
THEOREM NoGapOnStopping == SafeSpec => []StopsAtATask
<1>1. IInv /\ R!IInv => StopsAtATask
  <2> SUFFICES ASSUME IInv, R!IInv
               PROVE  IsPrefix(p_handled \o p_current, Parsed(arrived))
    BY DEF StopsAtATask
  <2> DEFINE shown == p_handled \o p_current
             later == Parsed(buffer) \o Parsed(inbox)
  <2>1. shown \in Seq(Contents) /\ p_pending \in Seq(Contents)
    BY ConcatProperties DEF IInv, TypeOK
  <2>2. later \in Seq(Contents) /\ Parsed(arrived) = Parsed(notified) \o later
    <3>1. /\ Parsed(notified) \in Seq(Contents) /\ Parsed(buffer) \in Seq(Contents)
          /\ Parsed(inbox) \in Seq(Contents)
      BY ArrivedParses
    <3>2. (Parsed(notified) \o Parsed(buffer)) \o Parsed(inbox) = Parsed(notified) \o later
      BY <3>1, ConcatAssociative
    <3>3. QED BY <3>1, <3>2, ArrivedParses, ConcatProperties
  <2> HIDE DEF shown, later
  <2>3. PICK rest \in Seq(Contents) : Parsed(notified) = shown \o rest
    <3>1. CASE p_phase # "shutdown"
      BY <2>1, <3>1 DEF IInv, Delivered, shown
    <3>2. CASE p_phase = "shutdown"
      <4>1. IsPrefix(shown, Parsed(notified))
        BY <3>2 DEF IInv, Delivered, shown
      <4>2. Parsed(notified) \in Seq(Contents)
        BY ArrivedParses
      <4>3. QED BY <2>1, <4>1, <4>2, RestOfPrefix
    <3>3. QED BY <3>1, <3>2
  <2>4. Parsed(arrived) = shown \o (rest \o later) /\ rest \o later \in Seq(Contents)
    BY <2>1, <2>2, <2>3, ConcatAssociative, ConcatProperties, SMTT(60)
  <2>5. IsPrefix(shown, Parsed(arrived))
    BY <2>1, <2>4, PrefixOfConcat
  <2>6. QED BY <2>5 DEF shown
<1>2. QED BY <1>1, InductiveInvariant, ReceiverInvariantInside, PTL

-----------------------------------------------------------------------------
(* The endpoint without its threads *)

\* The tasks that the receiver still has to pass on.
ToCome == IF thread = "finished" THEN <<>> ELSE Parsed(inbox)

LEMMA WaitingParts ==
  ASSUME IInv, R!IInv
  PROVE  /\ Waiting = ((p_current \o p_pending) \o Parsed(buffer)) \o ToCome
         /\ p_handled \in Seq(Contents) /\ p_current \in Seq(Contents)
         /\ p_pending \in Seq(Contents) /\ Parsed(buffer) \in Seq(Contents)
         /\ ToCome \in Seq(Contents) /\ Waiting \in Seq(Contents)
<1>1. /\ p_handled \in Seq(Contents) /\ p_current \in Seq(Contents)
      /\ p_pending \in Seq(Contents) /\ Parsed(buffer) \in Seq(Contents)
  BY ArrivedParses DEF IInv, TypeOK
<1>2. ToCome \in Seq(Contents)
  BY ArrivedParses, EmptySeq DEF ToCome
<1>3. Waiting = ((p_current \o p_pending) \o Parsed(buffer)) \o ToCome
  BY DEF Waiting, ToCome
<1>4. QED BY <1>1, <1>2, <1>3, ConcatProperties

\* What waits after a step.
LEMMA WaitingNext ==
  /\ Waiting' = ((p_current' \o p_pending') \o Parsed(buffer')) \o ToCome'
  /\ ToCome' = IF thread' = "finished" THEN <<>> ELSE Parsed(inbox')
BY DEF Waiting, ToCome, Parsed, TaskOf, IsTask

\* The four parts of what waits are the same.
LEMMA WaitingKept ==
  ASSUME IInv, R!IInv, UNCHANGED <<p_current, p_pending, buffer, inbox, arrived>>,
         thread = "finished" <=> thread' = "finished"
  PROVE  UNCHANGED Waiting
BY WaitingParts, WaitingNext DEF ToCome

\* While the receiver's thread has not left its loop all tasks are shown or wait.
LEMMA ShownOrWaiting ==
  ASSUME IInv, R!IInv, thread # "finished", p_phase # "shutdown"
  PROVE  Parsed(arrived) = p_handled \o Waiting
<1>1. /\ Parsed(arrived) = (((p_handled \o p_current) \o p_pending) \o Parsed(buffer)) \o ToCome
  BY ArrivedParses DEF IInv, Delivered, ToCome
<1> DEFINE b == Parsed(buffer)
           c == p_current \o p_pending
<1>2. c \in Seq(Contents) /\ b \in Seq(Contents) /\ c \o b \in Seq(Contents)
  BY WaitingParts, ConcatProperties
<1>3. Waiting = (c \o b) \o ToCome
  BY WaitingParts
<1>4. /\ p_handled \in Seq(Contents) /\ p_current \in Seq(Contents)
      /\ p_pending \in Seq(Contents) /\ ToCome \in Seq(Contents)
  BY WaitingParts
<1>5. (p_handled \o p_current) \o p_pending = p_handled \o c
  BY <1>4, ConcatAssociative, SMTT(60)
<1> HIDE DEF b, c
<1>6. (p_handled \o c) \o b = p_handled \o (c \o b)
  BY <1>2, <1>4, ConcatAssociative, SMTT(60)
<1>7. (p_handled \o (c \o b)) \o ToCome = p_handled \o ((c \o b) \o ToCome)
  <2> DEFINE front == c \o b
  <2>1. front \in Seq(Contents)
    BY <1>2
  <2> HIDE DEF front
  <2>2. (p_handled \o front) \o ToCome = p_handled \o (front \o ToCome)
    BY <1>4, <2>1, ConcatAssociative, SMTT(60)
  <2>3. QED BY <2>2 DEF front
<1>8. QED BY <1>1, <1>3, <1>5, <1>6, <1>7 DEF b

\* As long as nothing arrived there is nothing to show.
LEMMA NothingInside ==
  ASSUME IInv, R!IInv, arrived = <<>>
  PROVE  inbox = <<>> /\ buffer = <<>> /\ notified = <<>>
<1>1. Cut(arrived) = <<>>
  BY CutTyped, EmptySeq DEF R!IInv, R!TypeOK
<1>2. /\ notified \in Seq(R!Received) /\ buffer \in Seq(R!Received)
      /\ Cut(inbox) \in Seq(R!Received) /\ inbox \in Seq(R!Datagram)
      /\ Len(Cut(inbox)) = Len(inbox)
  BY CutTyped DEF R!IInv, R!TypeOK
<1>3. (notified \o buffer) \o Cut(inbox) = <<>> /\ notified \o buffer \in Seq(R!Received)
  BY <1>1, <1>2, Conserved, ConcatProperties DEF R!IInv
<1>4. notified \o buffer = <<>> /\ Cut(inbox) = <<>>
  BY <1>2, <1>3, ConcatSimplifications
<1>5. notified = <<>> /\ buffer = <<>>
  BY <1>2, <1>4, ConcatSimplifications
<1>6. inbox = <<>>
  BY <1>2, <1>4, EmptySeq
<1>7. QED BY <1>5, <1>6

LEMMA NothingWaits ==
  ASSUME IInv, R!IInv, arrived = <<>>
  PROVE  p_current = <<>> /\ p_pending = <<>> /\ Waiting = <<>>
<1>1. inbox = <<>> /\ buffer = <<>> /\ notified = <<>>
  BY NothingInside
<1>2. p_current = <<>> /\ p_pending = <<>>
  <2>1. CASE p_phase = "shutdown"
    <3>1. IsPrefix(p_handled \o p_current, <<>>)
      BY <1>1, <2>1, ParsedEmpty DEF IInv, Delivered
    <3>2. PICK rest \in Seq(Contents) : <<>> = (p_handled \o p_current) \o rest
      <4>1. p_handled \o p_current \in Seq(Contents) /\ <<>> \in Seq(Contents)
        BY WaitingParts, ConcatProperties, EmptySeq
      <4>2. QED BY <3>1, <4>1, RestOfPrefix
    <3>3. p_handled \o p_current = <<>>
      BY <3>2, WaitingParts, ConcatProperties, ConcatSimplifications
    <3>4. p_current = <<>>
      BY <3>3, WaitingParts, ConcatSimplifications
    <3>5. QED BY <2>1, <3>4 DEF IInv, Delivered
  <2>2. CASE p_phase # "shutdown"
    <3>1. (p_handled \o p_current) \o p_pending = <<>>
      BY <1>1, <2>2, ParsedEmpty DEF IInv, Delivered
    <3>2. p_handled \o p_current = <<>> /\ p_pending = <<>>
      BY <3>1, WaitingParts, ConcatProperties, ConcatSimplifications
    <3>3. QED BY <3>2, WaitingParts, ConcatSimplifications
  <2>3. QED BY <2>1, <2>2
<1>3. Waiting = <<>>
  <2>1. <<>> \o <<>> = <<>>
    BY EmptySeq, ConcatEmptySeq
  <2>2. QED BY <1>1, <1>2, <2>1, WaitingParts, ParsedEmpty DEF ToCome
<1>4. QED BY <1>2, <1>3

\* The endpoint sees nothing of the step.
Stutters == UNCHANGED <<Status, Waiting, p_handled>>

\* The main thread's steps before SIGUSR2.
LEMMA StartMaps ==
  ASSUME IInv, R!IInv, MakeProcessor \/ MakeReceiver \/ MakeGateway \/ RunGateway
  PROVE  E!Bind \/ E!Refused \/ Stutters
<1> USE DEF MainStep, Up, receiverVars, processorVars
<1>1. UNCHANGED <<p_current, p_pending, p_handled>>
  BY DEF MakeProcessor, MakeReceiver, MakeGateway, RunGateway, Processor!Open
<1>2. UNCHANGED <<buffer, inbox, arrived>> /\ (thread = "finished" <=> thread' = "finished")
  <2>1. RunGateway => (R!Spawn => thread = "none")
    BY DEF RunGateway, R!Spawn, R!OwnerStep, R!IInv, R!ThreadLife
  <2>2. QED
    BY <2>1
    DEF MakeProcessor, MakeReceiver, MakeGateway, RunGateway, R!Construct, R!OpenSocket,
        R!SetTimeout, R!Bind, R!ConstructorThrows, R!Subscribe, R!Spawn, R!RunReturns,
        R!OwnerStep, R!kernelVars
<1>3. UNCHANGED <<Waiting, p_handled>>
  BY <1>1, <1>2, WaitingKept
<1>4. CASE MakeProcessor
  <2>1. owner = "socket" /\ m_socket = "none"
    BY <1>4 DEF MakeProcessor, IInv, ReceiverLife, R!IInv, R!SocketLife
  <2>2. Status = "starting" /\ Status' = "starting"
    BY <1>4, <2>1 DEF MakeProcessor, Status
  <2>3. QED BY <1>3, <2>2 DEF Stutters
<1>5. CASE MakeReceiver
  <2>1. main = "receiver" /\ owner \in R!Constructing
    BY <1>5 DEF MakeReceiver, IInv, ReceiverLife
  <2>2. Status = "starting"
    BY <2>1 DEF Status, R!IInv, R!SocketLife, R!Constructing
  <2>3. CASE R!OpenSocket \/ R!SetTimeout
    <3>1. owner' \in {"setsockopt", "bind"} /\ m_socket' # "bound" /\ main' = "receiver"
      BY <1>5, <2>1, <2>3
      DEF MakeReceiver, R!OpenSocket, R!SetTimeout, R!OwnerStep, R!IInv, R!SocketLife
    <3>2. Status' = "starting"
      BY <3>1 DEF Status
    <3>3. QED BY <1>3, <2>2, <3>2 DEF Stutters
  <2>4. CASE R!Bind
    <3>1. owner' = "built" /\ m_socket' = "bound" /\ main' = "gateway"
      BY <1>5, <2>4 DEF MakeReceiver, R!Bind, R!OwnerStep
    <3>2. Status' = "up"
      BY <3>1 DEF Status
    <3>3. QED BY <1>3, <2>2, <3>2 DEF E!Bind, E!Become
  <2>5. CASE R!ConstructorThrows
    <3>1. owner' = "thrown" /\ main' = "close_tasks"
      BY <1>5, <2>5 DEF MakeReceiver, R!ConstructorThrows, R!OwnerStep
    <3>2. Status' = "failing"
      BY <3>1 DEF Status
    <3>3. QED BY <1>3, <2>2, <3>2 DEF E!Refused, E!Become
  <2>6. QED BY <1>5, <2>3, <2>4, <2>5 DEF MakeReceiver, R!Construct
<1>6. CASE MakeGateway \/ RunGateway
  <2>1. /\ main \in Up /\ main' \in Up /\ UNCHANGED m_socket
        /\ owner # "thrown" /\ owner' # "thrown"
    BY <1>6 DEF MakeGateway, RunGateway, R!Subscribe, R!Spawn, R!RunReturns, R!OwnerStep,
                IInv, ReceiverLife
  <2>2. UNCHANGED Status
    BY <2>1 DEF Status
  <2>3. QED BY <1>3, <2>2 DEF Stutters
<1>7. QED BY <1>4, <1>5, <1>6

\* Those that follow it.
LEMMA StopMaps ==
  ASSUME IInv, R!IInv, Signalled \/ StopReceiver \/ DestroyCallback
  PROVE  E!Stop \/ Stutters
<1> USE DEF MainStep, Up, receiverVars, processorVars
<1>1. UNCHANGED <<p_current, p_pending, p_handled>>
  BY DEF Signalled, StopReceiver, DestroyCallback
<1>2. UNCHANGED <<buffer, inbox, arrived, thread>>
  BY DEF Signalled, StopReceiver, DestroyCallback, R!Stop, R!Join, R!OwnerStep, R!kernelVars
<1>3. UNCHANGED <<Waiting, p_handled>>
  BY <1>1, <1>2, WaitingKept
<1>4. CASE Signalled
  <2>1. main = "await" /\ main' = "stop_receiver" /\ owner = "running" /\ m_socket = "bound"
        /\ UNCHANGED <<owner, m_socket>>
    BY <1>4 DEF Signalled, IInv, ReceiverLife, R!IInv, R!SocketLife
  <2>2. Status = "up" /\ Status' = "stopping"
    BY <2>1 DEF Status
  <2>3. QED BY <1>3, <2>2 DEF E!Stop, E!Become
<1>5. CASE StopReceiver \/ DestroyCallback
  <2>1. /\ main \in {"stop_receiver", "callback"}
        /\ main' \in {"stop_receiver", "callback", "close_tasks"}
        /\ owner # "thrown" /\ owner' # "thrown" /\ m_socket = "bound" /\ m_socket' = "bound"
    BY <1>5 DEF StopReceiver, DestroyCallback, R!Stop, R!Join, R!OwnerStep,
                IInv, ReceiverLife, R!IInv, R!SocketLife
  <2>2. UNCHANGED Status
    BY <2>1 DEF Status
  <2>3. QED BY <1>3, <2>2 DEF Stutters
<1>6. QED BY <1>4, <1>5

\* Where the receiver is once its destructor returned, or its constructor threw.
LEMMA AtTheEnd ==
  ASSUME IInv, R!IInv, main \in {"close_tasks", "join_tasks", "EXIT_SUCCESS", "EXIT_FAILURE"}
  PROVE  \/ owner = "thrown" /\ arrived = <<>> /\ thread = "none"
         \/ /\ owner = "destroyed" /\ m_socket = "bound" /\ thread = "finished"
            /\ buffer = <<>> /\ ToCome = <<>>
<1>1. CASE owner = "thrown"
  BY <1>1 DEF IInv, ReceiverUse, R!IInv, R!SocketLife, R!ThreadLife
<1>2. CASE owner = "destroyed"
  <2>1. thread = "finished" /\ m_socket = "bound"
    BY <1>2 DEF IInv, ReceiverUse, Up, R!IInv, R!SocketLife, R!ThreadLife
  <2>2. buffer \in Seq(R!Received) /\ Len(buffer) = 0
    BY <2>1 DEF R!IInv, R!TypeOK, R!BufferUse
  <2>3. buffer = <<>>
    BY <2>2, EmptySeq
  <2>4. QED BY <1>2, <2>1, <2>3 DEF ToCome
<1>3. QED BY <1>1, <1>2 DEF IInv, ReceiverLife

LEMMA CloseMaps ==
  ASSUME IInv, R!IInv, CloseTasks
  PROVE  E!Discard \/ Stutters
<1>1. /\ main = "close_tasks" /\ main' = "join_tasks" /\ p_pending' = <<>>
      /\ UNCHANGED <<owner, m_socket, thread, buffer, inbox, arrived, p_current, p_handled>>
  BY DEF CloseTasks, MainStep, Processor!Close, receiverVars
<1>2. UNCHANGED Status
  BY <1>1 DEF Status, Up
<1>3. CASE owner = "thrown"
  <2>1. arrived = <<>>
    BY <1>1, <1>3, AtTheEnd
  <2>2. p_pending = <<>>
    BY <2>1, NothingWaits
  <2>3. UNCHANGED Waiting
    BY <1>1, <2>2, WaitingKept
  <2>4. QED BY <1>1, <1>2, <2>3 DEF Stutters
<1>4. CASE owner # "thrown"
  <2>1. /\ m_socket = "bound" /\ thread = "finished" /\ buffer = <<>> /\ ToCome = <<>>
    BY <1>1, <1>4, AtTheEnd
  <2>2. Status = "stopping"
    BY <1>1, <1>4, <2>1 DEF Status, Up
  <2>3. Waiting = p_current \o p_pending /\ Waiting' = p_current
    <3>1. /\ Waiting = ((p_current \o p_pending) \o <<>>) \o <<>>
          /\ p_current \in Seq(Contents) /\ p_pending \in Seq(Contents)
      BY <2>1, WaitingParts, ParsedEmpty
    <3>2. Waiting' = ((p_current \o <<>>) \o <<>>) \o <<>>
      BY <1>1, <2>1, WaitingNext, ParsedEmpty
    <3>3. QED BY <3>1, <3>2, ConcatProperties, ConcatEmptySeq
  <2>4. \E n \in 0..Len(Waiting) : Waiting' = SubSeq(Waiting, 1, n)
    <3>1. p_current \in Seq(Contents) /\ p_pending \in Seq(Contents)
      BY WaitingParts
    <3>2. QED BY <2>3, <3>1, DiscardRest
  <2>5. QED BY <1>1, <1>2, <2>2, <2>4 DEF E!Discard
<1>5. QED BY <1>3, <1>4

LEMMA JoinMaps ==
  ASSUME IInv, R!IInv, JoinTasks
  PROVE  E!End
<1>1. /\ main = "join_tasks"
      /\ main' = IF owner = "thrown" THEN "EXIT_FAILURE" ELSE "EXIT_SUCCESS"
      /\ p_phase = "shutdown" /\ p_current = <<>>
      /\ UNCHANGED <<owner, m_socket, thread, buffer, inbox, arrived, p_pending, p_current,
                     p_handled>>
  BY DEF JoinTasks, MainStep, Processor!Quiesce, receiverVars
<1>2. p_pending = <<>>
  BY <1>1 DEF IInv, Delivered
<1>3. UNCHANGED Waiting
  BY <1>1, WaitingKept
<1>4. CASE owner = "thrown"
  <2>1. Waiting = <<>>
    BY <1>1, <1>4, AtTheEnd, NothingWaits
  <2>2. Status = "failing" /\ Status' = "EXIT_FAILURE"
    BY <1>1, <1>4 DEF Status
  <2>3. QED BY <1>1, <1>3, <2>1, <2>2 DEF E!End, E!Become
<1>5. CASE owner # "thrown"
  <2>1. m_socket = "bound" /\ buffer = <<>> /\ ToCome = <<>>
    BY <1>1, <1>5, AtTheEnd
  <2>2. Waiting = <<>>
    <3>1. <<>> \o <<>> = <<>>
      BY EmptySeq, ConcatEmptySeq
    <3>2. QED BY <1>1, <1>2, <2>1, <3>1, WaitingParts, ParsedEmpty
  <2>3. Status = "stopping" /\ Status' = "EXIT_SUCCESS"
    BY <1>1, <1>5, <2>1 DEF Status, Up
  <2>4. QED BY <1>1, <1>3, <2>2, <2>3 DEF E!End, E!Become
<1>6. QED BY <1>4, <1>5

\* Only a task that the thread will still receive is one for the endpoint.
LEMMA NetworkMaps ==
  ASSUME IInv, R!IInv, Network
  PROVE  (\E t \in Contents : E!Arrive(t)) \/ Stutters
<1>1. PICK d \in R!Datagram : R!Arrive(d)
  BY DEF Network, R!Network
<1>2. /\ m_socket = "bound" /\ Len(arrived) < MaxArrivals
      /\ inbox' = Append(inbox, d)
      /\ UNCHANGED <<main, owner, m_socket, thread, buffer, p_pending, p_current, p_handled>>
  BY <1>1 DEF R!Arrive, Network, processorVars
<1>3. UNCHANGED Status
  BY <1>2 DEF Status
<1>4. inbox \in Seq(AnyDatagram) /\ arrived \in Seq(AnyDatagram) /\ d \in AnyDatagram
  BY DatagramsParse, SizesAreNatural DEF R!Datagram, AnyDatagram
<1>5. Parsed(inbox') = Parsed(inbox) \o TaskOf(d)
  BY <1>2, <1>4, ParsedAppend
<1>6. CASE thread = "finished"
  <2>1. ToCome' = ToCome
    BY <1>2, <1>6, WaitingNext DEF ToCome
  <2>2. UNCHANGED Waiting
    BY <1>2, <2>1, WaitingParts, WaitingNext
  <2>3. QED BY <1>2, <1>3, <2>2 DEF Stutters
<1>7. CASE thread # "finished"
  <2>1. ToCome' = ToCome \o TaskOf(d) /\ TaskOf(d) \in Seq(Contents)
    BY <1>2, <1>4, <1>5, <1>7, TaskOfTyped, WaitingNext DEF ToCome
  <2>2. Waiting' = Waiting \o TaskOf(d) /\ Waiting \in Seq(Contents)
    <3> DEFINE front == (p_current \o p_pending) \o Parsed(buffer)
    <3>1. /\ front \in Seq(Contents) /\ ToCome \in Seq(Contents)
          /\ Waiting = front \o ToCome /\ Waiting \in Seq(Contents)
      BY WaitingParts, ConcatProperties
    <3>2. Waiting' = front \o (ToCome \o TaskOf(d))
      BY <1>2, <2>1, WaitingNext
    <3> HIDE DEF front
    <3>3. QED BY <2>1, <3>1, <3>2, ConcatAssociative, SMTT(60)
  <2>3. CASE ~IsTask(d)
    <3>1. UNCHANGED Waiting
      BY <2>2, <2>3, ConcatEmptySeq DEF TaskOf
    <3>2. QED BY <1>2, <1>3, <3>1 DEF Stutters
  <2>4. CASE IsTask(d)
    <3>1. d.content \in Contents /\ Waiting' = Append(Waiting, d.content)
      BY <1>4, <2>2, <2>4, AppendIsConcat DEF TaskOf, AnyDatagram
    <3>2. /\ main \notin {"close_tasks", "join_tasks", "EXIT_SUCCESS", "EXIT_FAILURE"}
          /\ owner # "thrown"
      <4>1. owner # "thrown"
        <5>1. CASE owner = "thrown"
          BY <1>2, <5>1 DEF R!IInv, R!SocketLife
        <5>2. QED BY <5>1
      <4>2. QED BY <1>7, <4>1, AtTheEnd
    <3>3. Status \in {"up", "stopping"}
      BY <1>2, <3>2 DEF Status
    <3>4. Len(Waiting) + Len(p_handled) < MaxArrivals
      <4>1. main # "processor"
        BY <1>2 DEF IInv, ReceiverLife, R!IInv, R!SocketLife
      <4>2. p_phase # "shutdown"
        BY <3>2, <4>1 DEF IInv, TypeOK, Callable, MainPositions, Up, Stopping
      <4>3. Parsed(arrived) = p_handled \o Waiting
        BY <1>7, <4>2, ShownOrWaiting
      <4>4. p_handled \in Seq(Contents) /\ Waiting \in Seq(Contents)
        BY WaitingParts
      <4>5. /\ Len(Parsed(arrived)) = Len(p_handled) + Len(Waiting)
            /\ Len(p_handled) \in Nat /\ Len(Waiting) \in Nat /\ Len(arrived) \in Nat
        BY <1>4, <4>3, <4>4, ConcatProperties, LenProperties
      <4>6. Len(Parsed(arrived)) <= Len(arrived)
        BY <1>4, ParsedLen
      <4>7. QED BY <1>2, <4>5, <4>6, BoundsAreNatural
    <3>5. QED BY <1>2, <1>3, <3>1, <3>3, <3>4 DEF E!Arrive
  <2>5. QED BY <2>3, <2>4
<1>8. QED BY <1>6, <1>7

\* The receiver's thread gives up what is in the socket when it leaves its loop.
LEMMA LoopMaps ==
  ASSUME IInv, R!IInv, ReceiverLoop
  PROVE  E!Discard \/ Stutters
<1>1. UNCHANGED <<main, owner, m_socket, arrived, p_pending, p_current, p_handled>>
  BY DEF ReceiverLoop, R!ThreadStart, R!LoopCheck, R!RecvFails, R!Receive, R!ThreadStep,
         processorVars
<1>2. UNCHANGED Status
  BY <1>1 DEF Status
<1>3. CASE R!ThreadStart \/ R!RecvFails \/ (R!LoopCheck /\ m_running)
  <2>1. UNCHANGED <<buffer, inbox>> /\ thread # "finished" /\ thread' # "finished"
    BY <1>3 DEF R!ThreadStart, R!RecvFails, R!LoopCheck, R!ThreadStep
  <2>2. QED BY <1>1, <1>2, <2>1, WaitingKept DEF Stutters
<1>4. CASE R!LoopCheck /\ ~m_running
  <2>1. thread = "check" /\ thread' = "finished" /\ UNCHANGED <<buffer, inbox>>
    BY <1>4 DEF R!LoopCheck, R!ThreadStep
  <2>2. owner = "join"
    BY <1>4, <2>1
    DEF R!IInv, R!TypeOK, R!OwnerPositions, R!Constructing, R!ThreadLife, R!RunningFlag
  <2>3. main = "stop_receiver" /\ m_socket = "bound"
    BY <2>2 DEF IInv, TypeOK, MainPositions, Up, Stopping, ReceiverLife, R!Constructing,
                R!IInv, R!SocketLife
  <2>4. Status = "stopping"
    BY <2>2, <2>3 DEF Status, Up
  <2> DEFINE front == (p_current \o p_pending) \o Parsed(buffer)
  <2>5. /\ front \in Seq(Contents) /\ ToCome \in Seq(Contents) /\ Waiting = front \o ToCome
    BY WaitingParts, ConcatProperties
  <2>6. Waiting' = front \o <<>>
    BY <1>1, <2>1, WaitingNext
  <2> HIDE DEF front
  <2>7. Waiting' = front
    BY <2>5, <2>6, ConcatEmptySeq
  <2>8. \E n \in 0..Len(Waiting) : Waiting' = SubSeq(Waiting, 1, n)
    BY <2>5, <2>7, DiscardRest
  <2>9. QED BY <1>1, <1>2, <2>4, <2>8 DEF E!Discard
<1>5. CASE R!Receive
  <2>1. /\ thread = "recvfrom" /\ thread' = "notify" /\ inbox # <<>>
        /\ buffer' = <<R!Truncated(Head(inbox))>> /\ inbox' = Tail(inbox)
    BY <1>5 DEF R!Receive, R!ThreadStep
  <2>2. buffer = <<>>
    <3>1. buffer \in Seq(R!Received) /\ Len(buffer) = 0
      BY <2>1 DEF R!IInv, R!TypeOK, R!BufferUse
    <3>2. QED BY <3>1, EmptySeq
  <2>3. /\ Head(inbox) \in R!Datagram /\ Tail(inbox) \in Seq(R!Datagram)
        /\ Cut(inbox) = buffer' \o Cut(inbox') /\ inbox \in Seq(R!Datagram)
    BY <2>1, CutHeadTail DEF R!IInv, R!TypeOK
  <2>4. R!Truncated(Head(inbox)) \in AnyDatagram
    BY <2>3, TruncatedTyped, SizesAreNatural DEF R!Received, AnyDatagram
  <2>5. buffer' \in Seq(AnyDatagram)
    BY <2>1, <2>4
  <2>6. Parsed(inbox) = Parsed(buffer') \o Parsed(inbox')
    <3>1. /\ Parsed(Cut(inbox)) = Parsed(inbox) /\ Parsed(Cut(inbox')) = Parsed(inbox')
          /\ Cut(inbox') \in Seq(AnyDatagram)
      BY <2>1, <2>3, ParsedCut
    <3>2. Parsed(buffer' \o Cut(inbox')) = Parsed(buffer') \o Parsed(Cut(inbox'))
      BY <2>5, <3>1, ParsedConcat
    <3>3. QED BY <2>3, <3>1, <3>2
  <2>7. inbox' \in Seq(AnyDatagram)
    BY <2>1, <2>3, ParsedCut
  <2> DEFINE c == p_current \o p_pending
  <2>8. /\ c \in Seq(Contents) /\ Parsed(buffer') \in Seq(Contents)
        /\ Parsed(inbox') \in Seq(Contents)
    BY <2>5, <2>7, WaitingParts, ConcatProperties, ParsedTyped
  <2>9. Waiting = (c \o <<>>) \o Parsed(inbox)
    BY <2>1, <2>2, WaitingParts, ParsedEmpty DEF ToCome
  <2>10. Waiting' = (c \o Parsed(buffer')) \o Parsed(inbox')
    BY <1>1, <2>1, WaitingNext
  <2> HIDE DEF c
  <2>11. c \o <<>> = c
    BY <2>8, ConcatEmptySeq
  <2>12. (c \o Parsed(buffer')) \o Parsed(inbox') = c \o (Parsed(buffer') \o Parsed(inbox'))
    BY <2>8, ConcatAssociative, SMTT(60)
  <2>13. UNCHANGED Waiting
    BY <2>6, <2>9, <2>10, <2>11, <2>12
  <2>14. QED BY <1>1, <1>2, <2>13 DEF Stutters
<1>6. QED BY <1>3, <1>4, <1>5 DEF ReceiverLoop

\* A task goes from the thread to the processor's queue in its place.
LEMMA OnReceiveMaps ==
  ASSUME IInv, R!IInv, OnReceive
  PROVE  Stutters
<1>1. /\ thread = "notify" /\ thread' = "check" /\ buffer' = <<>>
      /\ UNCHANGED <<main, owner, m_socket, inbox>>
  BY DEF OnReceive, R!NotifyReturns, R!ThreadStep
<1>2. PICK d \in AnyDatagram : buffer = <<d>> /\ ToSet(buffer) = {d}
  BY <1>1, InHand
<1>3. /\ UNCHANGED <<p_handled, p_current>> /\ p_pending' = p_pending \o TaskOf(d)
  BY <1>1, <1>2, OnReceivePosts
<1>4. Parsed(buffer) = TaskOf(d)
  BY <1>2, ParsedOne
<1>5. /\ p_current \in Seq(Contents) /\ p_pending \in Seq(Contents)
      /\ TaskOf(d) \in Seq(Contents) /\ p_pending' \in Seq(Contents)
      /\ p_current \o p_pending' \in Seq(Contents)
  BY <1>3, WaitingParts, TaskOfTyped, ConcatProperties
<1>6. Waiting = ((p_current \o p_pending) \o TaskOf(d)) \o Parsed(inbox)
  BY <1>1, <1>4, WaitingParts DEF ToCome
<1>7. Waiting' = ((p_current \o p_pending') \o <<>>) \o Parsed(inbox)
  BY <1>1, <1>3, WaitingNext, ParsedEmpty
<1>8. (p_current \o p_pending) \o TaskOf(d) = p_current \o p_pending'
  BY <1>3, <1>5, ConcatAssociative
<1>9. (p_current \o p_pending') \o <<>> = p_current \o p_pending'
  BY <1>5, ConcatEmptySeq
<1>10. UNCHANGED Waiting
  BY <1>6, <1>7, <1>8, <1>9
<1>11. UNCHANGED Status
  BY <1>1 DEF Status
<1>12. QED BY <1>3, <1>10, <1>11 DEF Stutters

\* The endpoint shows a task when the processor's callback returns.
LEMMA ProcessorMaps ==
  ASSUME IInv, R!IInv, TakeTask \/ OnTask
  PROVE  E!Show \/ Stutters
<1>1. UNCHANGED <<main, owner, m_socket, thread, buffer, inbox, arrived>>
  BY DEF TakeTask, OnTask, receiverVars
<1>2. UNCHANGED Status
  BY <1>1 DEF Status
<1>3. ToCome' = ToCome
  BY <1>1, WaitingNext DEF ToCome
<1>4. /\ Waiting = ((p_current \o p_pending) \o Parsed(buffer)) \o ToCome
      /\ p_current \in Seq(Contents) /\ p_pending \in Seq(Contents)
      /\ Parsed(buffer) \in Seq(Contents) /\ ToCome \in Seq(Contents)
      /\ p_handled \in Seq(Contents)
  BY WaitingParts
<1>5. Waiting' = ((p_current' \o p_pending') \o Parsed(buffer)) \o ToCome
  BY <1>1, <1>3, WaitingNext
<1>6. CASE TakeTask
  <2>1. /\ p_current = <<>> /\ p_pending # <<>> /\ UNCHANGED p_handled
        /\ p_current' = <<Head(p_pending)>> /\ p_pending' = Tail(p_pending)
    BY <1>6 DEF TakeTask, Processor!Take
  <2>2. <<>> \o p_pending = p_current' \o p_pending'
    BY <1>4, <2>1, HeadThenTail, ConcatEmptySeq
  <2>3. QED BY <1>2, <1>4, <1>5, <2>1, <2>2 DEF Stutters
<1>7. CASE OnTask
  <2>1. /\ p_current # <<>> /\ p_handled' = p_handled \o p_current /\ p_current' = <<>>
        /\ UNCHANGED p_pending
    BY <1>7 DEF OnTask, Processor!Handle
  <2>2. PICK e \in Contents : p_current = <<e>>
    BY <1>4, <2>1, ShortSeq DEF IInv, TypeOK
  <2>3. p_handled' = Append(p_handled, e)
    BY <1>4, <2>1, <2>2, AppendIsConcat
  <2> DEFINE parsed == Parsed(buffer)
             rest == p_pending \o (parsed \o ToCome)
  <2>4. /\ rest \in Seq(Contents) /\ <<e>> \in Seq(Contents) /\ parsed \in Seq(Contents)
        /\ p_pending \in Seq(Contents) /\ ToCome \in Seq(Contents)
    BY <1>4, ConcatProperties
  <2> HIDE DEF parsed
  <2>5. ASSUME NEW s, s \in Seq(Contents)
        PROVE  ((s \o p_pending) \o parsed) \o ToCome = s \o rest
    <3> DEFINE front == s \o p_pending
               later == parsed \o ToCome
    <3>1. front \in Seq(Contents) /\ later \in Seq(Contents)
      BY <2>4, <2>5, ConcatProperties
    <3> HIDE DEF front, later
    <3>2. (s \o p_pending) \o later = s \o (p_pending \o later)
      BY <2>4, <2>5, <3>1, ConcatAssociative, SMTT(40)
    <3>3. (front \o parsed) \o ToCome = front \o (parsed \o ToCome)
      BY <2>4, <3>1, ConcatAssociative, SMTT(40)
    <3>4. QED BY <3>2, <3>3 DEF front, later
  <2>6. Waiting = <<e>> \o rest /\ Waiting' = <<>> \o rest
    <3> HIDE DEF rest
    <3>1. Waiting = ((<<e>> \o p_pending) \o parsed) \o ToCome
      BY <1>4, <2>2 DEF parsed
    <3>2. Waiting' = ((<<>> \o p_pending) \o parsed) \o ToCome
      BY <1>5, <2>1 DEF parsed
    <3>3. <<>> \in Seq(Contents)
      BY EmptySeq
    <3>4. QED BY <2>4, <2>5, <3>1, <3>2, <3>3
  <2> HIDE DEF rest
  <2>7. Waiting # <<>> /\ Head(Waiting) = e /\ Tail(Waiting) = rest
    BY <2>4, <2>6, HeadTailConcat
  <2>8. Waiting' = rest
    BY <2>4, <2>6, ConcatEmptySeq
  <2>9. QED BY <1>2, <2>3, <2>7, <2>8 DEF E!Show
<1>8. QED BY <1>6, <1>7

\* The three threads and their queues implement an endpoint that has none, for
\* every content, size and bound.
THEOREM RefinesEndpoint == SafeSpec => E!SafeSpec
<1>1. Init => E!Init
  <2> SUFFICES ASSUME Init PROVE E!Init
    OBVIOUS
  <2>1. /\ main = "processor" /\ owner = "socket" /\ m_socket = "none" /\ inbox = <<>>
        /\ buffer = <<>> /\ p_pending = <<>> /\ p_current = <<>> /\ p_handled = <<>>
        /\ thread = "none"
    BY DEF Init, R!Init, Processor!Init
  <2>2. <<>> \o <<>> = <<>>
    BY EmptySeq, ConcatEmptySeq
  <2>3. Waiting = <<>>
    BY <2>1, <2>2, ParsedEmpty DEF Waiting
  <2>4. Status = "starting"
    BY <2>1 DEF Status
  <2>5. QED BY <2>1, <2>3, <2>4 DEF E!Init
<1>2. IInv /\ R!IInv /\ [Next]_vars => [E!Next]_(E!endpointVars)
  <2> SUFFICES ASSUME IInv, R!IInv, [Next]_vars
               PROVE  E!Next \/ UNCHANGED E!endpointVars
    OBVIOUS
  <2>1. Stutters => UNCHANGED E!endpointVars
    BY DEF Stutters, E!endpointVars
  <2>2. CASE UNCHANGED vars
    <3>1. UNCHANGED <<main, owner, m_socket, thread, buffer, inbox, arrived, p_pending,
                      p_current, p_handled>>
      BY <2>2 DEF vars, receiverVars, processorVars
    <3>2. UNCHANGED Waiting
      BY <3>1, WaitingKept
    <3>3. UNCHANGED Status
      BY <3>1 DEF Status
    <3>4. QED BY <2>1, <3>1, <3>2, <3>3 DEF Stutters
  <2>3. QED
    BY <2>1, <2>2, StepCases, StartMaps, StopMaps, CloseMaps, JoinMaps, NetworkMaps, LoopMaps,
       OnReceiveMaps, ProcessorMaps
    DEF E!Next
<1>3. QED
  BY <1>1, <1>2, InductiveInvariant, ReceiverInvariantInside, PTL DEF SafeSpec, E!SafeSpec
=============================================================================
