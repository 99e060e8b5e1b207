-------------------------- MODULE EventStreamProofs --------------------------
(***************************************************************************)
(* Proofs about EventStream for every set of events and of producers: the  *)
(* invariant IInv is inductive and implies the invariants the runs check.  *)
(***************************************************************************)
EXTENDS EventStream, SequenceLemmas, TLAPS

Entries == Events \cup StateEntries

-----------------------------------------------------------------------------
(* Type correctness *)

LEMMA TypeInit == Init => TypeOK
<1>1. ASSUME Init PROVE TypeOK
  <2>1. <<>> \in Seq(Events) /\ <<>> \in Seq(Events \cup StateEntries)
    BY EmptySeq
  <2>2. QED BY <1>1, <2>1 DEF Init, TypeOK, OwnerPositions, LoopPositions
<1>2. QED BY <1>1

\* The tables of the owner's positions have positions in them.
LEMMA CallTables ==
  ASSUME NEW call \in Calls
  PROVE  /\ ToNotify[call] \in {"shut_notify", "dtor_notify"}
         /\ ToJoin[call] \in {"shut_join", "dtor_join"}
         /\ Returned[call] \in {"shut", "destroyed"}
         /\ MayCall[call] \subseteq {"constructed", "up", "shut"}
BY DEF Calls, ToNotify, ToJoin, Returned, MayCall

LEMMA PendingTyped ==
  ASSUME TypeOK, QueueShape
  PROVE  /\ PendingEvents \in Seq(Events)
         /\ \A i \in 1..Len(PendingEvents) : PendingEvents[i] \in Events
<1>0. m_queue \in Seq(Entries)
  BY DEF TypeOK, Entries
<1>1. CASE m_queue = <<>>
  BY <1>1, EmptySeq DEF PendingEvents
<1>2. CASE m_queue # <<>> /\ Head(m_queue) \in StateEntries
  <2>1. /\ Tail(m_queue) \in Seq(Entries) /\ Len(Tail(m_queue)) = Len(m_queue) - 1
        /\ \A i \in 1..Len(Tail(m_queue)) : Tail(m_queue)[i] = m_queue[i + 1]
    BY <1>0, <1>2, HeadTailProperties
  <2>2. Len(m_queue) \in Nat
    BY <1>0, LenProperties
  <2>3. \A i \in 1..Len(Tail(m_queue)) : Tail(m_queue)[i] \in Events
    BY <2>1, <2>2 DEF QueueShape
  <2>4. Tail(m_queue) \in Seq(Events)
    BY <2>1, <2>3, TypedByElements
  <2>5. QED BY <1>2, <2>3, <2>4 DEF PendingEvents
<1>3. CASE m_queue # <<>> /\ Head(m_queue) \notin StateEntries
  <2>1. Len(m_queue) \in Nat /\ Head(m_queue) = m_queue[1]
    BY <1>0, <1>3, LenProperties
  <2>2. m_queue[1] \in Events
    BY <1>0, <1>3, <2>1, HeadTailProperties DEF Entries
  <2>3. \A i \in 1..Len(m_queue) : m_queue[i] \in Events
    BY <2>1, <2>2 DEF QueueShape
  <2>4. m_queue \in Seq(Events)
    BY <1>0, <2>3, TypedByElements
  <2>5. QED BY <1>3, <2>3, <2>4 DEF PendingEvents
<1>4. QED BY <1>1, <1>2, <1>3

\* What the loop holds is an event while it dispatches one.
LEMMA DispatchedEvent ==
  ASSUME EntryShape, loop = "dispatch", Head(entry) \notin StateEntries
  PROVE  entry \in Seq(Events) /\ InHand = entry
<1>1. PICK x \in Events \cup StateEntries : entry = <<x>>
  BY DEF EntryShape
<1>2. Head(entry) = x
  BY <1>1
<1>3. QED BY <1>1, <1>2 DEF InHand

LEMMA TypeStep == TypeOK /\ QueueShape /\ EntryShape /\ [Next]_vars => TypeOK'
<1> SUFFICES ASSUME TypeOK, QueueShape, EntryShape, [Next]_vars
             PROVE  TypeOK'
  OBVIOUS
<1> USE DEF TypeOK, OwnerPositions, LoopPositions, histories
<1>1. CASE OwnerCalls
  <2>1. CASE QueueRun
    BY <2>1 DEF QueueRun, StateEntries
  <2>2. ASSUME NEW call \in Calls, QueueShutdown(call)
        PROVE  TypeOK'
    <3>1. PendingEvents \in Seq(Events)
      BY PendingTyped
    <3>2. <<"shutdown">> \in Seq(Events \cup StateEntries)
      BY DEF StateEntries
    <3>3. QED BY <2>2, <3>1, <3>2, CallTables DEF QueueShutdown
  <2>3. ASSUME NEW call \in Calls, QueueShutdownAgain(call)
        PROVE  TypeOK'
    BY <2>3, CallTables DEF QueueShutdownAgain
  <2>4. QED BY <1>1, <2>1, <2>2, <2>3 DEF OwnerCalls
<1>2. CASE OwnerInside
  <2>1. CASE RunNotify
    BY <2>1 DEF RunNotify, NotifyOne
  <2>2. CASE SpawnLoop
    BY <2>2 DEF SpawnLoop
  <2>3. CASE RunReturns
    BY <2>3 DEF RunReturns
  <2>4. ASSUME NEW call \in Calls, ShutdownNotify(call)
        PROVE  TypeOK'
    BY <2>4, CallTables DEF ShutdownNotify, NotifyOne
  <2>5. ASSUME NEW call \in Calls, Join(call)
        PROVE  TypeOK'
    BY <2>5, CallTables DEF Join
  <2>6. QED BY <1>2, <2>1, <2>2, <2>3, <2>4, <2>5 DEF OwnerInside
<1>3. CASE LoopWorks
  <2>1. CASE LoopStart
    BY <2>1 DEF LoopStart
  <2>2. CASE PullEntry
    <3>1. /\ Head(m_queue) \in Events \cup StateEntries
          /\ Tail(m_queue) \in Seq(Events \cup StateEntries)
      BY <2>2, HeadTailProperties DEF PullEntry
    <3>2. QED BY <2>2, <3>1 DEF PullEntry
  <2>3. CASE PullBlocks
    BY <2>3 DEF PullBlocks
  <2>4. CASE DispatchState
    BY <2>4, EmptySeq DEF DispatchState
  <2>5. CASE DispatchEvent
    <3>1. entry \in Seq(Events)
      BY <2>5, DispatchedEvent DEF DispatchEvent
    <3>2. delivered \o entry \in Seq(Events)
      BY <3>1, ConcatProperties
    <3>3. QED BY <2>5, <3>2, EmptySeq DEF DispatchEvent
  <2>6. QED BY <1>3, <2>1, <2>2, <2>3, <2>4, <2>5 DEF LoopWorks
<1>4. CASE SpuriousWakeup
  BY <1>4 DEF SpuriousWakeup
<1>5. ASSUME NEW p \in Producers, PushNotify(p)
      PROVE  TypeOK'
  BY <1>5 DEF PushNotify, NotifyOne
<1>6. ASSUME NEW p \in Producers, NEW e \in Events, Push(p, e)
      PROVE  TypeOK'
  <2>1. Append(m_queue, e) \in Seq(Events \cup StateEntries) /\ Append(accepted, e) \in Seq(Events)
    BY AppendProperties
  <2>2. /\ m_queue' \in Seq(Events \cup StateEntries)
        /\ accepted' \in Seq(Events)
        /\ pushing' \in [Producers -> {"outside", "notify"}]
        /\ unsent' \subseteq Events
    BY <1>6, <2>1 DEF Push
  <2>3. QED BY <1>6, <2>2 DEF Push
<1>7. CASE UNCHANGED vars
  BY <1>7 DEF vars
<1>8. QED BY <1>1, <1>2, <1>3, <1>4, <1>5, <1>6, <1>7 DEF Next, Finished

-----------------------------------------------------------------------------
(* The shapes of the queue and of the entry *)

LEMMA QueueShapeStep ==
  TypeOK /\ QueueShape /\ Positions /\ [Next]_vars => QueueShape'
<1> SUFFICES ASSUME TypeOK, QueueShape, Positions, [Next]_vars
             PROVE  QueueShape'
  OBVIOUS
<1> DEFINE Kept == UNCHANGED <<m_state, m_queue, discarded>>
<1>0. Kept => QueueShape'
  BY DEF QueueShape
<1>1. CASE QueueRun
  <2>1. m_queue = <<>> /\ discarded = <<>>
    BY <1>1 DEF QueueRun, QueueShape, Positions
  <2>2. m_queue' = <<"running">> /\ m_state' = "running" /\ discarded' = <<>>
    BY <1>1, <2>1 DEF QueueRun, histories
  <2>3. QED BY <2>2 DEF QueueShape
<1>2. ASSUME NEW call \in Calls, QueueShutdown(call)
      PROVE  QueueShape'
  <2>1. m_queue' = <<"shutdown">> /\ m_state' = "shutdown"
    BY <1>2 DEF QueueShutdown
  <2>2. QED BY <2>1 DEF QueueShape
<1>3. ASSUME NEW p \in Producers, NEW e \in Events, Push(p, e)
      PROVE  QueueShape'
  <2>1. CASE m_state # "running"
    BY <1>3, <2>1, <1>0 DEF Push
  <2>2. CASE m_state = "running"
    <3>1. m_queue' = Append(m_queue, e) /\ UNCHANGED <<m_state, discarded>>
      BY <1>3, <2>2 DEF Push
    <3>2. /\ Len(m_queue') = Len(m_queue) + 1 /\ Len(m_queue) \in Nat
          /\ \A i \in 1..Len(m_queue) : m_queue'[i] = m_queue[i]
          /\ m_queue'[Len(m_queue) + 1] = e
      BY <3>1, AppendProperties, LenProperties DEF TypeOK
    <3>3. \A i \in 2..Len(m_queue') : m_queue'[i] \in Events
      BY <3>2 DEF QueueShape
    <3>4. QED BY <2>2, <3>1, <3>3 DEF QueueShape
  <2>3. QED BY <2>1, <2>2
<1>4. CASE PullEntry
  <2>1. m_queue # <<>> /\ m_queue' = Tail(m_queue) /\ UNCHANGED <<m_state, discarded>>
    BY <1>4 DEF PullEntry, histories
  <2>2. /\ Len(m_queue') = Len(m_queue) - 1 /\ Len(m_queue) \in Nat
        /\ \A i \in 1..Len(m_queue') : m_queue'[i] = m_queue[i + 1]
    BY <2>1, HeadTailProperties, LenProperties DEF TypeOK
  <2>3. \A i \in 2..Len(m_queue') : m_queue'[i] \in Events
    BY <2>2 DEF QueueShape
  <2>4. ASSUME m_state = "shutdown" PROVE m_queue' = <<>>
    BY <2>1, <2>4 DEF QueueShape
  <2>5. QED BY <2>1, <2>3, <2>4 DEF QueueShape
<1>5. CASE OwnerInside
  BY <1>5, <1>0 DEF OwnerInside, RunNotify, SpawnLoop, RunReturns, ShutdownNotify, Join, histories
<1>6. CASE LoopStart \/ PullBlocks \/ DispatchState \/ DispatchEvent \/ SpuriousWakeup
  BY <1>6, <1>0 DEF LoopStart, PullBlocks, DispatchState, DispatchEvent, SpuriousWakeup, histories
<1>7. ASSUME NEW p \in Producers, PushNotify(p)
      PROVE  QueueShape'
  BY <1>7, <1>0 DEF PushNotify, histories
<1>8. ASSUME NEW call \in Calls, QueueShutdownAgain(call)
      PROVE  QueueShape'
  BY <1>8, <1>0 DEF QueueShutdownAgain, histories
<1>9. CASE UNCHANGED vars
  BY <1>9, <1>0 DEF vars
<1>10. QED
  BY <1>1, <1>2, <1>3, <1>4, <1>5, <1>6, <1>7, <1>8, <1>9
  DEF Next, OwnerCalls, LoopWorks, Finished

LEMMA EntryShapeStep == TypeOK /\ EntryShape /\ Positions /\ [Next]_vars => EntryShape'
<1> SUFFICES ASSUME TypeOK, EntryShape, Positions, [Next]_vars
             PROVE  EntryShape'
  OBVIOUS
<1> USE DEF EntryShape
<1>1. CASE OwnerCalls
  BY <1>1 DEF OwnerCalls, QueueRun, QueueShutdown, QueueShutdownAgain
<1>2. CASE OwnerInside
  BY <1>2 DEF OwnerInside, RunNotify, SpawnLoop, RunReturns, ShutdownNotify, Join, NotifyOne,
              Positions
<1>3. CASE PullEntry
  <2>1. Head(m_queue) \in Events \cup StateEntries
    BY <1>3, HeadTailProperties DEF PullEntry, TypeOK
  <2>2. QED BY <1>3, <2>1 DEF PullEntry
<1>4. CASE LoopStart \/ PullBlocks \/ DispatchState \/ DispatchEvent \/ SpuriousWakeup
  BY <1>4 DEF LoopStart, PullBlocks, DispatchState, DispatchEvent, SpuriousWakeup
<1>5. ASSUME NEW p \in Producers, PushNotify(p) \/ \E e \in Events : Push(p, e)
      PROVE  EntryShape'
  BY <1>5 DEF PushNotify, Push, NotifyOne
<1>6. CASE UNCHANGED vars
  BY <1>6 DEF vars
<1>7. QED BY <1>1, <1>2, <1>3, <1>4, <1>5, <1>6 DEF Next, LoopWorks, Finished

-----------------------------------------------------------------------------
(* Positions of the owner and of the loop thread *)

LEMMA PositionsStep == TypeOK /\ Positions /\ [Next]_vars => Positions'
<1> SUFFICES ASSUME TypeOK, Positions, [Next]_vars
             PROVE  Positions'
  OBVIOUS
<1> USE DEF Positions
<1>1. CASE QueueRun
  BY <1>1 DEF QueueRun
<1>2. ASSUME NEW call \in Calls, QueueShutdown(call) \/ QueueShutdownAgain(call)
      PROVE  Positions'
  BY <1>2, CallTables DEF QueueShutdown, QueueShutdownAgain
<1>3. CASE RunNotify \/ SpawnLoop \/ RunReturns
  BY <1>3 DEF RunNotify, SpawnLoop, RunReturns, NotifyOne
<1>4. ASSUME NEW call \in Calls, ShutdownNotify(call)
      PROVE  Positions'
  BY <1>4, CallTables DEF ShutdownNotify, NotifyOne
<1>5. ASSUME NEW call \in Calls, Join(call)
      PROVE  Positions'
  BY <1>5, CallTables DEF Join
<1>6. CASE LoopWorks \/ SpuriousWakeup
  BY <1>6 DEF LoopWorks, LoopStart, PullEntry, PullBlocks, DispatchState, DispatchEvent,
              SpuriousWakeup
<1>7. ASSUME NEW p \in Producers, PushNotify(p) \/ \E e \in Events : Push(p, e)
      PROVE  Positions'
  BY <1>7 DEF PushNotify, Push, NotifyOne
<1>8. CASE UNCHANGED vars
  BY <1>8 DEF vars
<1>9. QED
  BY <1>1, <1>2, <1>3, <1>4, <1>5, <1>6, <1>7, <1>8 DEF Next, OwnerCalls, OwnerInside, Finished

-----------------------------------------------------------------------------
(* No lost wakeup *)

LEMMA WakeupStep == TypeOK /\ Positions /\ NoLostWakeup /\ [Next]_vars => NoLostWakeup'
<1> SUFFICES ASSUME TypeOK, Positions, NoLostWakeup, [Next]_vars
             PROVE  NoLostWakeup'
  OBVIOUS
<1> USE DEF NoLostWakeup
<1>1. CASE QueueRun
  BY <1>1 DEF QueueRun
<1>2. ASSUME NEW call \in Calls, QueueShutdown(call)
      PROVE  NoLostWakeup'
  BY <1>2, CallTables DEF QueueShutdown
<1>3. ASSUME NEW call \in Calls, QueueShutdownAgain(call)
      PROVE  NoLostWakeup'
  BY <1>3, CallTables DEF QueueShutdownAgain
<1>4. CASE RunNotify \/ SpawnLoop \/ RunReturns
  BY <1>4 DEF RunNotify, SpawnLoop, RunReturns, NotifyOne
<1>5. ASSUME NEW call \in Calls, ShutdownNotify(call)
      PROVE  NoLostWakeup'
  BY <1>5 DEF ShutdownNotify, NotifyOne
<1>6. ASSUME NEW call \in Calls, Join(call)
      PROVE  NoLostWakeup'
  BY <1>6, CallTables DEF Join
<1>7. CASE LoopWorks \/ SpuriousWakeup
  BY <1>7 DEF LoopWorks, LoopStart, PullEntry, PullBlocks, DispatchState, DispatchEvent,
              SpuriousWakeup
<1>8. ASSUME NEW p \in Producers, PushNotify(p)
      PROVE  NoLostWakeup'
  BY <1>8 DEF PushNotify, NotifyOne
<1>9. ASSUME NEW p \in Producers, NEW e \in Events, Push(p, e)
      PROVE  NoLostWakeup'
  <2>1. CASE m_state = "running"
    <3>1. pushing'[p] = "notify"
      BY <1>9, <2>1 DEF Push, TypeOK
    <3>2. QED BY <3>1
  <2>2. CASE m_state # "running"
    BY <1>9, <2>2 DEF Push
  <2>3. QED BY <2>1, <2>2
<1>10. CASE UNCHANGED vars
  BY <1>10 DEF vars
<1>11. QED
  BY <1>1, <1>2, <1>3, <1>4, <1>5, <1>6, <1>7, <1>8, <1>9, <1>10
  DEF Next, OwnerCalls, OwnerInside, Finished

-----------------------------------------------------------------------------
(* What each operation does to the events in the queue *)

\* Opening the stream queues no event.
LEMMA RunQueuesNoEvent ==
  ASSUME QueueShape, Positions, QueueRun
  PROVE  PendingEvents = <<>> /\ PendingEvents' = <<>>
<1>1. m_queue = <<>>
  BY DEF QueueShape, Positions, QueueRun
<1>2. m_queue' = <<"running">>
  BY <1>1 DEF QueueRun
<1>3. QED BY <1>1, <1>2 DEF PendingEvents, StateEntries

\* Pushing an event appends it to the events in the queue.
LEMMA PushAppends ==
  ASSUME TypeOK, NEW e \in Events, m_queue' = Append(m_queue, e)
  PROVE  PendingEvents' = Append(PendingEvents, e)
<1>1. e \notin StateEntries
  BY EventsAreNotStates
<1>2. /\ Append(m_queue, e) # <<>>
      /\ Head(Append(m_queue, e)) = IF m_queue = <<>> THEN e ELSE Head(m_queue)
      /\ Tail(Append(m_queue, e)) = IF m_queue = <<>> THEN <<>> ELSE Append(Tail(m_queue), e)
  BY HeadTailAppend, AppendProperties DEF TypeOK
<1>3. QED BY <1>1, <1>2 DEF PendingEvents

\* Pulling an entry moves the oldest event, if the entry is one, from the queue
\* to the hands of the loop thread.
LEMMA PullMoves ==
  ASSUME TypeOK, QueueShape, EntryShape, PullEntry
  PROVE  /\ InHand = <<>>
         /\ \/ /\ Head(m_queue) \in StateEntries
               /\ InHand' = <<>>
               /\ PendingEvents' = PendingEvents
            \/ /\ PendingEvents # <<>>
               /\ InHand' = <<Head(PendingEvents)>>
               /\ PendingEvents' = Tail(PendingEvents)
<1>0. m_queue \in Seq(Entries) /\ m_queue # <<>>
  BY DEF TypeOK, Entries, PullEntry
<1>1. /\ Head(m_queue) \in Entries
      /\ Tail(m_queue) \in Seq(Entries)
      /\ Len(Tail(m_queue)) = Len(m_queue) - 1
      /\ \A i \in 1..Len(Tail(m_queue)) : Tail(m_queue)[i] = m_queue[i + 1]
  BY <1>0, HeadTailProperties
<1>2. InHand = <<>>
  BY DEF EntryShape, PullEntry, InHand
<1>3. m_queue' = Tail(m_queue) /\ entry' = <<Head(m_queue)>>
  BY DEF PullEntry
<1>4. Tail(m_queue) # <<>> => Head(Tail(m_queue)) \in Events
  <2>1. ASSUME Tail(m_queue) # <<>> PROVE Head(Tail(m_queue)) \in Events
    <3>1. Len(Tail(m_queue)) \in Nat \ {0} /\ Len(m_queue) \in Nat
      BY <2>1, <1>0, <1>1, EmptySeq, LenProperties
    <3>2. Head(Tail(m_queue)) = Tail(m_queue)[1]
      BY <2>1, <1>1
    <3>3. Tail(m_queue)[1] = m_queue[2] /\ 2 \in 2..Len(m_queue)
      BY <3>1, <1>1
    <3>4. QED BY <3>2, <3>3 DEF QueueShape
  <2>2. QED BY <2>1
<1>5. PendingEvents' = Tail(m_queue)
  BY <1>3, <1>4, EventsAreNotStates DEF PendingEvents
<1>6. CASE Head(m_queue) \in StateEntries
  BY <1>0, <1>2, <1>3, <1>5, <1>6, EventsAreNotStates DEF PendingEvents, InHand
<1>7. CASE Head(m_queue) \notin StateEntries
  <2>1. Head(m_queue) \in Events
    BY <1>1, <1>7 DEF Entries
  <2>2. InHand' = <<Head(m_queue)>>
    BY <1>3, <2>1 DEF InHand
  <2>3. QED BY <1>0, <1>2, <1>5, <1>7, <2>2 DEF PendingEvents
<1>8. QED BY <1>6, <1>7

\* Shutting down discards all the events in the queue, and it is the first to
\* discard any.
LEMMA ShutdownDiscards ==
  ASSUME QueueShape, NEW call \in Calls, QueueShutdown(call)
  PROVE  discarded = <<>> /\ discarded' = PendingEvents /\ PendingEvents' = <<>>
<1>1. discarded = <<>> /\ discarded' = PendingEvents
  BY DEF QueueShape, QueueShutdown
<1>2. m_queue' = <<"shutdown">>
  BY DEF QueueShutdown
<1>3. QED BY <1>1, <1>2 DEF PendingEvents, StateEntries

-----------------------------------------------------------------------------
(* Nothing is lost *)

LEMMA InHandTyped == EntryShape => InHand \in Seq(Events)
<1> SUFFICES ASSUME EntryShape PROVE InHand \in Seq(Events)
  OBVIOUS
<1>1. CASE entry = <<>>
  BY <1>1, EmptySeq DEF InHand
<1>2. ASSUME NEW x \in Events \cup StateEntries, entry = <<x>>
      PROVE  InHand \in Seq(Events)
  <2>1. CASE x \in Events
    BY <1>2, <2>1 DEF InHand
  <2>2. CASE x \notin Events
    BY <1>2, <2>2, EmptySeq DEF InHand
  <2>3. QED BY <2>1, <2>2
<1>3. QED BY <1>1, <1>2 DEF EntryShape

LEMMA NothingLostStep ==
  TypeOK /\ QueueShape /\ EntryShape /\ Positions /\ NothingLost /\ [Next]_vars => NothingLost'
<1> SUFFICES ASSUME TypeOK, QueueShape, EntryShape, Positions, NothingLost, [Next]_vars
             PROVE  NothingLost'
  OBVIOUS
<1> USE DEF NothingLost
<1>0. /\ delivered \in Seq(Events) /\ discarded \in Seq(Events)
      /\ InHand \in Seq(Events) /\ PendingEvents \in Seq(Events)
  BY InHandTyped, PendingTyped DEF TypeOK
<1> DEFINE Kept == UNCHANGED <<accepted, delivered, entry, m_queue, discarded>>
<1>1. Kept => NothingLost'
  BY DEF InHand, PendingEvents
<1>2. CASE QueueRun
  <2>1. UNCHANGED <<accepted, delivered, discarded, entry>>
    BY <1>2 DEF QueueRun, histories
  <2>2. PendingEvents' = PendingEvents
    BY <1>2, RunQueuesNoEvent
  <2>3. InHand' = InHand
    BY <2>1 DEF InHand
  <2>4. QED BY <2>1, <2>2, <2>3
<1>3. ASSUME NEW call \in Calls, QueueShutdown(call)
      PROVE  NothingLost'
  <2>1. UNCHANGED <<accepted, delivered, entry>>
    BY <1>3 DEF QueueShutdown
  <2>2. discarded = <<>> /\ discarded' = PendingEvents /\ PendingEvents' = <<>>
    BY <1>3, ShutdownDiscards
  <2>3. InHand' = InHand
    BY <2>1 DEF InHand
  <2>4. delivered \o InHand \in Seq(Events)
    BY <1>0, ConcatProperties
  <2>5. (delivered \o InHand) \o PendingEvents \in Seq(Events)
    BY <1>0, <2>4, ConcatProperties
  <2>6. accepted = (delivered \o InHand) \o PendingEvents
    BY <2>2, <2>5, ConcatEmptySeq
  <2>7. (delivered \o InHand) \o <<>> = delivered \o InHand
    BY <2>4, ConcatEmptySeq
  <2>8. QED BY <2>1, <2>2, <2>3, <2>6, <2>7
<1>4. ASSUME NEW p \in Producers, NEW e \in Events, Push(p, e)
      PROVE  NothingLost'
  <2>1. CASE m_state # "running"
    BY <1>4, <2>1, <1>1 DEF Push
  <2>2. CASE m_state = "running"
    <3>1. /\ m_queue' = Append(m_queue, e) /\ accepted' = Append(accepted, e)
          /\ UNCHANGED <<delivered, discarded, entry>>
      BY <1>4, <2>2 DEF Push
    <3>2. PendingEvents' = Append(PendingEvents, e)
      BY <3>1, PushAppends
    <3>3. InHand' = InHand
      BY <3>1 DEF InHand
    <3>4. discarded = <<>>
      BY <2>2 DEF QueueShape
    <3>5. delivered \o InHand \in Seq(Events)
      BY <1>0, ConcatProperties
    <3>6. (delivered \o InHand) \o PendingEvents \in Seq(Events)
      BY <1>0, <3>5, ConcatProperties
    <3>7. accepted = (delivered \o InHand) \o PendingEvents
      BY <3>4, <3>6, ConcatEmptySeq
    <3>8. accepted' = ((delivered \o InHand) \o PendingEvents) \o <<e>>
      BY <3>1, <3>6, <3>7, AppendIsConcat
    <3>9. PendingEvents' = PendingEvents \o <<e>>
      BY <3>2, <1>0, AppendIsConcat
    <3>10. <<e>> \in Seq(Events)
      OBVIOUS
    <3>11. accepted' = (delivered \o InHand) \o PendingEvents'
      BY <3>8, <3>9, <3>10, <3>5, <1>0, ConcatAssociative, SMTT(60)
    <3>12. accepted' \in Seq(Events)
      BY <3>1, AppendProperties DEF TypeOK
    <3>13. accepted' = ((delivered \o InHand) \o PendingEvents') \o <<>>
      BY <3>11, <3>12, ConcatEmptySeq
    <3>14. QED BY <3>1, <3>3, <3>4, <3>13
  <2>3. QED BY <2>1, <2>2
<1>5. CASE PullEntry
  <2>1. UNCHANGED <<accepted, delivered, discarded>>
    BY <1>5 DEF PullEntry, histories
  <2>2. (delivered \o InHand') \o PendingEvents' = (delivered \o InHand) \o PendingEvents
    <3>1. CASE InHand' = <<>> /\ InHand = <<>> /\ PendingEvents' = PendingEvents
      BY <3>1
    <3>2. CASE /\ InHand = <<>>
               /\ PendingEvents # <<>>
               /\ InHand' = <<Head(PendingEvents)>>
               /\ PendingEvents' = Tail(PendingEvents)
      <4>1. PendingEvents = InHand' \o PendingEvents'
        BY <1>0, <3>2, HeadThenTail
      <4>2. /\ <<Head(PendingEvents)>> \in Seq(Events)
            /\ Tail(PendingEvents) \in Seq(Events)
        BY <1>0, <3>2, HeadTailProperties
      <4>3. (delivered \o InHand') \o PendingEvents' = delivered \o (InHand' \o PendingEvents')
        BY <1>0, <3>2, <4>2, ConcatAssociative, SMTT(60)
      <4>4. delivered \o InHand = delivered
        BY <1>0, <3>2, ConcatEmptySeq
      <4>5. QED BY <4>1, <4>3, <4>4
    <3>3. QED BY <1>5, <3>1, <3>2, PullMoves
  <2>3. QED BY <2>1, <2>2
<1>6. CASE DispatchState
  <2>1. UNCHANGED <<accepted, delivered, discarded, m_queue>> /\ entry' = <<>>
    BY <1>6 DEF DispatchState, histories
  <2>2. InHand = <<>> /\ InHand' = <<>>
    BY <1>6, <2>1, EventsAreNotStates DEF DispatchState, InHand
  <2>3. QED BY <2>1, <2>2 DEF PendingEvents
<1>7. CASE DispatchEvent
  <2>1. /\ UNCHANGED <<accepted, discarded, m_queue>>
        /\ entry' = <<>> /\ delivered' = delivered \o entry
    BY <1>7 DEF DispatchEvent
  <2>2. InHand = entry /\ InHand' = <<>>
    BY <1>7, <2>1, DispatchedEvent DEF DispatchEvent, InHand
  <2>3. delivered \o InHand \in Seq(Events)
    BY <1>0, ConcatProperties
  <2>4. delivered' \o InHand' = delivered \o InHand
    BY <2>1, <2>2, <2>3, ConcatEmptySeq
  <2>5. QED BY <2>1, <2>4 DEF PendingEvents
<1>8. CASE OwnerInside
  BY <1>8, <1>1 DEF OwnerInside, RunNotify, SpawnLoop, RunReturns, ShutdownNotify, Join, histories
<1>9. CASE LoopStart \/ PullBlocks \/ SpuriousWakeup
  BY <1>9, <1>1 DEF LoopStart, PullBlocks, SpuriousWakeup, histories
<1>10. ASSUME NEW p \in Producers, PushNotify(p)
       PROVE  NothingLost'
  BY <1>10, <1>1 DEF PushNotify, histories
<1>11. ASSUME NEW call \in Calls, QueueShutdownAgain(call)
       PROVE  NothingLost'
  BY <1>11, <1>1 DEF QueueShutdownAgain, histories
<1>12. CASE UNCHANGED vars
  BY <1>12, <1>1 DEF vars
<1>13. QED
  BY <1>2, <1>3, <1>4, <1>5, <1>6, <1>7, <1>8, <1>9, <1>10, <1>11, <1>12
  DEF Next, OwnerCalls, LoopWorks, Finished

-----------------------------------------------------------------------------
(* The inductive invariant *)

LEMMA IInvInit == Init => IInv
<1> SUFFICES ASSUME Init PROVE IInv
  OBVIOUS
<1>1. TypeOK
  BY TypeInit
<1>2. QueueShape /\ EntryShape /\ Positions /\ NoLostWakeup
  BY EmptySeq DEF Init, QueueShape, EntryShape, Positions, NoLostWakeup
<1>3. NothingLost
  <2>1. <<>> \o <<>> = <<>>
    BY EmptySeq, ConcatEmptySeq
  <2>2. InHand = <<>> /\ PendingEvents = <<>>
    BY DEF Init, InHand, PendingEvents
  <2>3. QED BY <2>1, <2>2 DEF Init, NothingLost
<1>4. QED BY <1>1, <1>2, <1>3 DEF IInv

LEMMA IInvStep == IInv /\ [Next]_vars => IInv'
BY TypeStep, QueueShapeStep, EntryShapeStep, PositionsStep, NothingLostStep, WakeupStep DEF IInv

\* The invariant that the theorems below rest on: the shapes of the queue and
\* of the loop's entry and the positions of the threads, together with the
\* invariants on types, events and wakeups, are kept by every step of every
\* thread, whatever the events and the producers.
THEOREM InductiveInvariant == SafeSpec => []IInv
BY IInvInit, IInvStep, PTL DEF SafeSpec

\* The variables of event_queue_t and of the threads keep their types: only the
\* entries the code creates are ever queued or dispatched.
THEOREM TypeCorrect == SafeSpec => []TypeOK
<1>1. IInv => TypeOK
  BY DEF IInv
<1>2. QED BY InductiveInvariant, <1>1, PTL

\* push(), pull() and shutdown() neither lose nor double nor reorder an event:
\* those queued are those delivered, in hand, in the queue and discarded.
THEOREM NothingIsLost == SafeSpec => []NothingLost
<1>1. IInv => NothingLost
  BY DEF IInv
<1>2. QED BY InductiveInvariant, <1>1, PTL

\* notify_one() after the unlock, in run(), push() and shutdown(), never leaves
\* the loop thread asleep on a queue that has an entry.
THEOREM NoWakeupIsLost == SafeSpec => []NoLostWakeup
<1>1. IInv => NoLostWakeup
  BY DEF IInv
<1>2. QED BY InductiveInvariant, <1>1, PTL

\* When event_stream_t::shutdown() has returned no subscriber is being called
\* and none will be.
THEOREM SilentAfterShutdown == SafeSpec => []SilentOnceReturned
<1>1. IInv => SilentOnceReturned
  BY DEF IInv, EntryShape, Positions, SilentOnceReturned
<1>2. QED BY InductiveInvariant, <1>1, PTL

\* After shutdown() emptied the queue the loop thread pulls the shutdown entry
\* and nothing else.
THEOREM ShutdownEndsDelivery == SafeSpec => OnlyShutdownAfterShutdown
<1> DEFINE A == m_state = "shutdown" /\ loop = "pull" /\ loop' = "dispatch"
                  => entry' = <<"shutdown">>
<1>1. IInv /\ [Next]_vars => A
  <2> SUFFICES ASSUME IInv, [Next]_vars,
                      m_state = "shutdown", loop = "pull", loop' = "dispatch"
               PROVE  entry' = <<"shutdown">>
    OBVIOUS
  <2>1. CASE PullEntry
    <3>1. m_queue = <<"shutdown">> /\ entry' = <<Head(m_queue)>>
      BY <2>1 DEF PullEntry, IInv, QueueShape
    <3>2. QED BY <3>1
  <2>2. CASE LoopStart \/ PullBlocks \/ DispatchState \/ DispatchEvent \/ SpuriousWakeup
    BY <2>2 DEF LoopStart, PullBlocks, DispatchState, DispatchEvent, SpuriousWakeup
  <2>3. CASE OwnerCalls
    BY <2>3 DEF OwnerCalls, QueueRun, QueueShutdown, QueueShutdownAgain
  <2>4. CASE OwnerInside
    BY <2>4 DEF OwnerInside, RunNotify, SpawnLoop, RunReturns, ShutdownNotify, Join, NotifyOne
  <2>5. ASSUME NEW p \in Producers, PushNotify(p) \/ \E e \in Events : Push(p, e)
        PROVE  entry' = <<"shutdown">>
    BY <2>5 DEF PushNotify, Push, NotifyOne
  <2>6. CASE UNCHANGED vars
    BY <2>6 DEF vars
  <2>7. QED BY <2>1, <2>2, <2>3, <2>4, <2>5, <2>6 DEF Next, LoopWorks, Finished
<1>2. QED BY InductiveInvariant, <1>1, PTL DEF SafeSpec, OnlyShutdownAfterShutdown

-----------------------------------------------------------------------------
(* The stream implements the mailbox *)

LEMMA MailboxStep == IInv /\ [Next]_vars => [MB!Next]_(MB!mailboxVars)
<1> SUFFICES ASSUME IInv, [Next]_vars
             PROVE  [MB!Next]_(MB!mailboxVars)
  OBVIOUS
<1> USE DEF IInv, MB!mailboxVars
<1> DEFINE Kept == UNCHANGED <<m_state, m_queue, entry, delivered, joinable>>
<1>1. Kept => UNCHANGED MB!mailboxVars
  BY DEF PendingEvents, InHand
<1>2. CASE QueueRun
  <2>1. PendingEvents' = PendingEvents
    BY <1>2, RunQueuesNoEvent
  <2>2. m_state = "standby" /\ m_state' = "running" /\ UNCHANGED <<delivered, entry>>
    BY <1>2 DEF QueueRun, histories, Positions
  <2>3. MB!Open
    BY <2>1, <2>2 DEF MB!Open, InHand
  <2>4. QED BY <2>3 DEF MB!Next
<1>3. ASSUME NEW call \in Calls, QueueShutdown(call)
      PROVE  MB!Close
  <2>1. PendingEvents' = <<>>
    BY <1>3, ShutdownDiscards
  <2>2. /\ m_state # "shutdown" /\ m_state' = "shutdown"
        /\ UNCHANGED <<delivered, entry, joinable>>
    BY <1>3 DEF QueueShutdown
  <2>3. owner \in {"constructed", "up", "shut"}
    BY <1>3, CallTables DEF QueueShutdown
  <2>4. joinable <=> m_state # "standby"
    BY <2>2, <2>3 DEF Positions, TypeOK
  <2>5. QED BY <2>1, <2>2, <2>4 DEF MB!Close, InHand
<1>4. ASSUME NEW call \in Calls, Join(call)
      PROVE  [MB!Next]_(MB!mailboxVars)
  <2>1. UNCHANGED <<m_state, m_queue, entry, delivered>> /\ joinable' = FALSE
    BY <1>4 DEF Join, histories
  <2>2. UNCHANGED <<PendingEvents, InHand>>
    BY <2>1 DEF PendingEvents, InHand
  <2>3. CASE joinable
    <3>1. loop = "done" /\ owner \in {"shut_join", "dtor_join"}
      BY <1>4, <2>3, CallTables DEF Join
    <3>2. InHand = <<>>
      BY <3>1 DEF EntryShape, InHand
    <3>3. m_state = "shutdown"
      BY <3>1 DEF Positions, TypeOK
    <3>4. MB!Quiesce
      BY <2>1, <2>2, <2>3, <3>2, <3>3 DEF MB!Quiesce
    <3>5. QED BY <3>4 DEF MB!Next
  <2>4. CASE ~joinable
    BY <2>1, <2>4, <1>1 DEF TypeOK
  <2>5. QED BY <2>3, <2>4
<1>5. ASSUME NEW p \in Producers, NEW e \in Events, Push(p, e)
      PROVE  [MB!Next]_(MB!mailboxVars)
  <2>1. CASE m_state # "running"
    BY <1>5, <2>1, <1>1 DEF Push
  <2>2. CASE m_state = "running"
    <3>1. m_queue' = Append(m_queue, e) /\ UNCHANGED <<m_state, entry, delivered, joinable>>
      BY <1>5, <2>2 DEF Push
    <3>2. PendingEvents' = Append(PendingEvents, e)
      BY <3>1, PushAppends
    <3>3. MB!Post(e)
      BY <2>2, <3>1, <3>2 DEF MB!Post, InHand
    <3>4. QED BY <3>3 DEF MB!Next
  <2>3. QED BY <2>1, <2>2
<1>6. CASE PullEntry
  <2>1. UNCHANGED <<m_state, delivered, joinable>>
    BY <1>6 DEF PullEntry, histories
  <2>2. CASE InHand = <<>> /\ InHand' = <<>> /\ PendingEvents' = PendingEvents
    BY <2>1, <2>2
  <2>3. CASE /\ InHand = <<>>
             /\ PendingEvents # <<>>
             /\ InHand' = <<Head(PendingEvents)>>
             /\ PendingEvents' = Tail(PendingEvents)
    <3>1. MB!Take
      BY <2>1, <2>3 DEF MB!Take
    <3>2. QED BY <3>1 DEF MB!Next
  <2>4. QED BY <1>6, <2>2, <2>3, PullMoves
<1>7. CASE DispatchState
  <2>1. UNCHANGED <<m_state, delivered, joinable, m_queue>>
    BY <1>7 DEF DispatchState, histories
  <2>2. InHand = <<>> /\ InHand' = <<>>
    BY <1>7, EventsAreNotStates DEF DispatchState, InHand
  <2>3. QED BY <2>1, <2>2 DEF PendingEvents
<1>8. CASE DispatchEvent
  <2>1. /\ UNCHANGED <<m_state, joinable, m_queue>>
        /\ entry' = <<>> /\ delivered' = delivered \o entry
    BY <1>8 DEF DispatchEvent
  <2>2. InHand = entry /\ entry # <<>>
    BY <1>8, DispatchedEvent DEF DispatchEvent, EntryShape
  <2>3. InHand' = <<>>
    BY <2>1 DEF InHand
  <2>4. MB!Handle
    BY <2>1, <2>2, <2>3 DEF MB!Handle, PendingEvents
  <2>5. QED BY <2>4 DEF MB!Next
<1>9. CASE SpawnLoop
  <2>1. UNCHANGED <<m_state, m_queue, entry, delivered>> /\ m_state = "running"
    BY <1>9 DEF SpawnLoop, histories, Positions
  <2>2. QED BY <2>1 DEF PendingEvents, InHand
<1>10. CASE RunNotify \/ RunReturns
  BY <1>10, <1>1 DEF RunNotify, RunReturns, histories
<1>11. ASSUME NEW call \in Calls, ShutdownNotify(call) \/ QueueShutdownAgain(call)
       PROVE  UNCHANGED MB!mailboxVars
  BY <1>11, <1>1 DEF ShutdownNotify, QueueShutdownAgain, histories
<1>12. CASE LoopStart \/ PullBlocks \/ SpuriousWakeup
  BY <1>12, <1>1 DEF LoopStart, PullBlocks, SpuriousWakeup, histories
<1>13. ASSUME NEW p \in Producers, PushNotify(p)
       PROVE  UNCHANGED MB!mailboxVars
  BY <1>13, <1>1 DEF PushNotify, histories
<1>14. CASE UNCHANGED vars
  BY <1>14, <1>1 DEF vars
<1>15. QED
  BY <1>2, <1>3, <1>4, <1>5, <1>6, <1>7, <1>8, <1>9, <1>10, <1>11, <1>12, <1>13, <1>14
  DEF Next, OwnerCalls, OwnerInside, LoopWorks, Finished, MB!Next

\* For every set of events and of producers, whatever the threads do, the
\* stream does nothing that the mailbox would not do.
THEOREM RefinesMailbox == SafeSpec => MB!SafeSpec
<1>1. Init => MB!Init
  BY DEF Init, MB!Init, PendingEvents, InHand
<1>2. QED
  BY <1>1, InductiveInvariant, MailboxStep, PTL DEF SafeSpec, MB!SafeSpec
=============================================================================
