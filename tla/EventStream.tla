----------------------------- MODULE EventStream -----------------------------
(***************************************************************************)
(* core::event_queue_t and core::event_stream_t (src/core/event_stream.hpp) *)
(* with the three kinds of thread that touch them:                         *)
(*   - the owner, which constructs the stream, runs it, shuts it down and  *)
(*     destroys it (the constructor and destructor of socket_sender_t,     *)
(*     server::gateway_t and endpoint::task_processor);                    *)
(*   - the loop thread that run() starts and that calls on_event;          *)
(*   - the producers, which call push().                                   *)
(* m_state and m_queue are only touched under m_mutex, so a critical       *)
(* section is one step.  notify_one() comes after the unlock and is a step *)
(* of its own; everything may happen between the two.                      *)
(***************************************************************************)
EXTENDS Sequences, Functions

CONSTANTS
  Events,     \* the events pushed, each of them pushed once
  Producers   \* the threads that call push()

\* The two state_e values that run() and shutdown() put into the queue.
StateEntries == {"running", "shutdown"}

\* The static_assert of event_queue_t: an entry is a state or an event, never
\* both.
ASSUME EventsAreNotStates == Events \cap StateEntries = {}

VARIABLES
  m_state,    \* state of the queue: "standby", "running", "shutdown"
  m_queue,    \* the entries, oldest first
  owner,      \* where the owner thread is
  loop,       \* where the loop thread is
  joinable,   \* m_thread holds a thread that was not joined
  entry,      \* the entry of this turn of event_loop(), a sequence of length <= 1
  pushing,    \* where each producer is
  unsent,     \* the events no producer pushed yet
  accepted,   \* history: the events push() queued, in that order
  delivered,  \* history: the events on_event() was called with and returned from
  discarded   \* history: the events shutdown() threw away

histories == <<unsent, accepted, delivered, discarded>>
vars == <<m_state, m_queue, owner, loop, joinable, entry, pushing,
          unsent, accepted, delivered, discarded>>

-----------------------------------------------------------------------------
(* The owner's positions.  An owner calls shutdown() from its destructor    *)
(* body ("shut"), and the destructor of the stream calls it again ("dtor"). *)
Calls == {"shut", "dtor"}
ToNotify == [shut |-> "shut_notify", dtor |-> "dtor_notify"]
ToJoin == [shut |-> "shut_join", dtor |-> "dtor_join"]
Returned == [shut |-> "shut", dtor |-> "destroyed"]

OwnerPositions ==
  {"constructed", "run_notify", "run_spawn", "run_spin", "up",
   "shut_notify", "shut_join", "shut",
   "dtor_notify", "dtor_join", "destroyed"}

\* The positions from which a stream is shut down: an owner whose constructor
\* throws before run() destroys a stream that never ran.
MayCall == [shut |-> {"constructed", "up"}, dtor |-> {"constructed", "up", "shut"}]

\* From here on no other thread may be inside, or enter, a member function.
InDestructor == owner \in {"dtor_notify", "dtor_join", "destroyed"}

LoopPositions == {"none", "spawned", "pull", "waiting", "dispatch", "done"}

\* The events still in the queue: run() and shutdown() both leave their entry
\* at its head.
PendingEvents ==
  IF m_queue # <<>> /\ Head(m_queue) \in StateEntries THEN Tail(m_queue) ELSE m_queue

\* The event the loop took and did not finish with.
InHand == IF entry # <<>> /\ Head(entry) \in Events THEN entry ELSE <<>>

Init ==
  /\ m_state = "standby"
  /\ m_queue = <<>>
  /\ owner = "constructed"
  /\ loop = "none"
  /\ joinable = FALSE
  /\ entry = <<>>
  /\ pushing = [p \in Producers |-> "outside"]
  /\ unsent = Events
  /\ accepted = <<>>
  /\ delivered = <<>>
  /\ discarded = <<>>

\* notifier.notify_one(): only the loop thread ever waits.
NotifyOne == loop' = IF loop = "waiting" THEN "pull" ELSE loop

-----------------------------------------------------------------------------
(* event_stream_t::run() *)

QueueRun ==
  /\ owner = "constructed"
  /\ m_state' = "running"
  /\ m_queue' = Append(m_queue, m_state')
  /\ owner' = "run_notify"
  /\ UNCHANGED <<loop, joinable, entry, pushing, histories>>

RunNotify ==
  /\ owner = "run_notify"
  /\ NotifyOne
  /\ owner' = "run_spawn"
  /\ UNCHANGED <<m_state, m_queue, joinable, entry, pushing, histories>>

SpawnLoop ==
  /\ owner = "run_spawn"
  /\ loop' = "spawned"
  /\ joinable' = TRUE
  /\ owner' = "run_spin"
  /\ UNCHANGED <<m_state, m_queue, entry, pushing, histories>>

\* while( !running ) yield(): run() returns once the loop thread has begun.
RunReturns ==
  /\ owner = "run_spin"
  /\ loop # "spawned"
  /\ owner' = "up"
  /\ UNCHANGED <<m_state, m_queue, loop, joinable, entry, pushing, histories>>

-----------------------------------------------------------------------------
(* event_stream_t::shutdown(), from the owner's destructor or the stream's  *)

\* Slip: the queue is not swapped with an empty one.
QueueShutdownKeepsEvents(call) ==
  /\ owner \in MayCall[call]
  /\ call = "dtor" => \A p \in Producers : pushing[p] = "outside"
  /\ m_state # "shutdown"
  /\ m_state' = "shutdown"
  /\ m_queue' = Append(m_queue, m_state')
  /\ owner' = ToNotify[call]
  /\ UNCHANGED <<loop, joinable, entry, pushing, histories>>

\* Slip: shutdown() does not notify.
QueueShutdownSilent(call) ==
  /\ owner \in MayCall[call]
  /\ call = "dtor" => \A p \in Producers : pushing[p] = "outside"
  /\ m_state # "shutdown"
  /\ m_state' = "shutdown"
  /\ m_queue' = <<m_state'>>
  /\ discarded' = PendingEvents
  /\ owner' = ToJoin[call]
  /\ UNCHANGED <<loop, joinable, entry, pushing, unsent, accepted, delivered>>

\* The first call empties the queue and leaves the shutdown entry in it.
QueueShutdown(call) ==
  /\ owner \in MayCall[call]
  /\ call = "dtor" => \A p \in Producers : pushing[p] = "outside"
  /\ m_state # "shutdown"
  /\ m_state' = "shutdown"
  /\ m_queue' = <<m_state'>>
  /\ discarded' = PendingEvents
  /\ owner' = ToNotify[call]
  /\ UNCHANGED <<loop, joinable, entry, pushing, unsent, accepted, delivered>>

\* A later call finds the queue shut down, and changes and notifies nothing.
QueueShutdownAgain(call) ==
  /\ owner \in MayCall[call]
  /\ call = "dtor" => \A p \in Producers : pushing[p] = "outside"
  /\ m_state = "shutdown"
  /\ owner' = ToJoin[call]
  /\ UNCHANGED <<m_state, m_queue, loop, joinable, entry, pushing, histories>>

ShutdownNotify(call) ==
  /\ owner = ToNotify[call]
  /\ NotifyOne
  /\ owner' = ToJoin[call]
  /\ UNCHANGED <<m_state, m_queue, joinable, entry, pushing, histories>>

\* Slip: the loop thread is detached and not joined.
JoinDetached(call) ==
  /\ owner = ToJoin[call]
  /\ joinable' = FALSE
  /\ owner' = Returned[call]
  /\ UNCHANGED <<m_state, m_queue, loop, entry, pushing, histories>>

\* ~thread_join_guard: join the loop thread if there is one to join.
Join(call) ==
  /\ owner = ToJoin[call]
  /\ joinable => loop = "done"
  /\ joinable' = FALSE
  /\ owner' = Returned[call]
  /\ UNCHANGED <<m_state, m_queue, loop, entry, pushing, histories>>

-----------------------------------------------------------------------------
(* event_queue_t::push() *)

\* Slip: the state is not tested.
PushInAnyState(p, e) ==
  /\ ~InDestructor
  /\ pushing[p] = "outside"
  /\ e \in unsent
  /\ unsent' = unsent \ {e}
  /\ m_queue' = Append(m_queue, e)
  /\ accepted' = Append(accepted, e)
  /\ pushing' = [pushing EXCEPT ![p] = "notify"]
  /\ UNCHANGED <<m_state, owner, loop, joinable, entry, delivered, discarded>>

\* Slip: push() does not notify.
PushSilent(p, e) ==
  /\ ~InDestructor
  /\ pushing[p] = "outside"
  /\ e \in unsent
  /\ unsent' = unsent \ {e}
  /\ IF m_state = "running"
     THEN m_queue' = Append(m_queue, e) /\ accepted' = Append(accepted, e)
     ELSE UNCHANGED <<m_queue, accepted>>
  /\ UNCHANGED <<m_state, owner, loop, joinable, entry, pushing, delivered, discarded>>

Push(p, e) ==
  /\ ~InDestructor
  /\ pushing[p] = "outside"
  /\ e \in unsent
  /\ unsent' = unsent \ {e}
  /\ \/ /\ m_state = "running"
        /\ m_queue' = Append(m_queue, e)
        /\ accepted' = Append(accepted, e)
        /\ pushing' = [pushing EXCEPT ![p] = "notify"]
     \/ /\ m_state # "running"
        /\ UNCHANGED <<m_queue, accepted, pushing>>
  /\ UNCHANGED <<m_state, owner, loop, joinable, entry, delivered, discarded>>

PushNotify(p) ==
  /\ pushing[p] = "notify"
  /\ NotifyOne
  /\ pushing' = [pushing EXCEPT ![p] = "outside"]
  /\ UNCHANGED <<m_state, m_queue, owner, joinable, entry, histories>>

-----------------------------------------------------------------------------
(* The loop thread: event_loop() and pull() *)

LoopStart ==
  /\ loop = "spawned"
  /\ loop' = "pull"
  /\ UNCHANGED <<m_state, m_queue, owner, joinable, entry, pushing, histories>>

\* Slip: the front entry is read and not popped.
PullEntryNoPop ==
  /\ loop = "pull"
  /\ m_queue # <<>>
  /\ entry' = <<Head(m_queue)>>
  /\ loop' = "dispatch"
  /\ UNCHANGED <<m_state, m_queue, owner, joinable, pushing, histories>>

\* pull() with the predicate true: take the front entry.
PullEntry ==
  /\ loop = "pull"
  /\ m_queue # <<>>
  /\ entry' = <<Head(m_queue)>>
  /\ m_queue' = Tail(m_queue)
  /\ loop' = "dispatch"
  /\ UNCHANGED <<m_state, owner, joinable, pushing, histories>>

\* pull() with the predicate false: wait() releases the mutex and blocks in
\* one step.
PullBlocks ==
  /\ loop = "pull"
  /\ m_queue = <<>>
  /\ loop' = "waiting"
  /\ UNCHANGED <<m_state, m_queue, owner, joinable, entry, pushing, histories>>

\* A condition variable may wake for no reason; the predicate is tried again.
SpuriousWakeup ==
  /\ loop = "waiting"
  /\ loop' = "pull"
  /\ UNCHANGED <<m_state, m_queue, owner, joinable, entry, pushing, histories>>

\* The shutdown entry ends the loop; the running entry does nothing.
DispatchState ==
  /\ loop = "dispatch"
  /\ Head(entry) \in StateEntries
  /\ loop' = IF Head(entry) = "shutdown" THEN "done" ELSE "pull"
  /\ entry' = <<>>
  /\ UNCHANGED <<m_state, m_queue, owner, joinable, pushing, histories>>

\* The subscriber's on_event() returned.
DispatchEvent ==
  /\ loop = "dispatch"
  /\ Head(entry) \notin StateEntries
  /\ delivered' = delivered \o entry
  /\ entry' = <<>>
  /\ loop' = "pull"
  /\ UNCHANGED <<m_state, m_queue, owner, joinable, pushing, unsent, accepted, discarded>>

-----------------------------------------------------------------------------
OwnerInside ==
  \/ RunNotify
  \/ SpawnLoop
  \/ RunReturns
  \/ \E call \in Calls : ShutdownNotify(call) \/ Join(call)

OwnerCalls ==
  \/ QueueRun
  \/ \E call \in Calls : QueueShutdown(call) \/ QueueShutdownAgain(call)

LoopWorks ==
  \/ LoopStart
  \/ PullEntry
  \/ PullBlocks
  \/ DispatchState
  \/ DispatchEvent

\* The stream is gone and every thread is out of it.
Finished ==
  /\ owner = "destroyed"
  /\ UNCHANGED vars

Next ==
  \/ OwnerCalls
  \/ OwnerInside
  \/ LoopWorks
  \/ SpuriousWakeup
  \/ \E p \in Producers : PushNotify(p) \/ \E e \in Events : Push(p, e)
  \/ Finished

SafeSpec == Init /\ [][Next]_vars

\* The scheduler runs every thread that can run, and a call once begun goes
\* on; whether and when the users call run(), push() or shutdown() is theirs
\* to choose.
Fairness ==
  /\ WF_vars(OwnerInside)
  /\ WF_vars(LoopWorks)
  /\ \A p \in Producers : WF_vars(PushNotify(p))

Spec == SafeSpec /\ Fairness

-----------------------------------------------------------------------------
(* Safety *)

\* The variables hold what the code's types allow, and only the entries the
\* code creates are ever in the queue.
TypeOK ==
  /\ m_state \in {"standby", "running", "shutdown"}
  /\ m_queue \in Seq(Events \cup StateEntries)
  /\ owner \in OwnerPositions
  /\ loop \in LoopPositions
  /\ joinable \in BOOLEAN
  /\ entry \in Seq(Events \cup StateEntries)
  /\ pushing \in [Producers -> {"outside", "notify"}]
  /\ unsent \subseteq Events
  /\ accepted \in Seq(Events)
  /\ delivered \in Seq(Events)
  /\ discarded \in Seq(Events)

\* Every event push() queued is, exactly once and in the order of the pushes
\* of all the producers together, delivered, in the loop's hands, in the queue
\* or discarded by shutdown(): push(), pull() and shutdown() neither lose nor
\* double nor reorder an event.
NothingLost == accepted = delivered \o InHand \o PendingEvents \o discarded

\* The loop thread is never asleep on a non-empty queue unless a thread that
\* changed the queue is still to notify: notify_one() after the unlock loses
\* no wakeup.
NoLostWakeup ==
  loop = "waiting" /\ m_queue # <<>> =>
    \/ owner \in {"run_notify", "shut_notify", "dtor_notify"}
    \/ \E p \in Producers : pushing[p] = "notify"

\* Once shutdown() returned no handler runs and none will: the owner may
\* destroy what on_event() uses (socket_sender_t closes its socket next).
SilentOnceReturned ==
  owner \in {"shut", "destroyed"} => loop \in {"none", "done"} /\ entry = <<>>

\* From shutdown() on, the loop is handed nothing but the shutdown entry: at
\* most the event it already held is still delivered.
OnlyShutdownAfterShutdown ==
  [][m_state = "shutdown" /\ loop = "pull" /\ loop' = "dispatch"
       => entry' = <<"shutdown">>]_vars

-----------------------------------------------------------------------------
(* The inductive invariant behind the four invariants above *)

\* run() and shutdown() leave their entry at the head of the queue only, and
\* the queue holds nothing else before run() and after shutdown().
QueueShape ==
  /\ \A i \in 2..Len(m_queue) : m_queue[i] \in Events
  /\ m_state = "standby" => m_queue = <<>>
  /\ m_state = "shutdown" => m_queue \in {<<>>, <<"shutdown">>}
  /\ m_state # "shutdown" => discarded = <<>>

\* The loop holds an entry exactly while it dispatches it.
EntryShape ==
  /\ entry = <<>> \/ \E x \in Events \cup StateEntries : entry = <<x>>
  /\ loop = "dispatch" <=> entry # <<>>

\* What the position of the owner says of the queue and of the loop thread.
Positions ==
  /\ owner = "constructed" <=> m_state = "standby"
  /\ owner \in {"run_notify", "run_spawn", "run_spin", "up"} <=> m_state = "running"
  /\ owner \in {"constructed", "run_notify", "run_spawn"} => loop = "none"
  /\ loop = "none" => ~joinable
  /\ owner \in {"run_spin", "up"} => joinable
  /\ owner \in {"shut", "destroyed"} => ~joinable
  /\ ~joinable => loop \in {"none", "done"}

IInv == TypeOK /\ QueueShape /\ EntryShape /\ Positions /\ NothingLost /\ NoLostWakeup

-----------------------------------------------------------------------------
(* Liveness *)

\* shutdown() unblocks the loop and comes back, with events waiting or with
\* none, from a subscriber that is being called or from an idle stream.
ShutdownReturns ==
  \A call \in Calls : owner \in {ToNotify[call], ToJoin[call]} ~> owner = Returned[call]

\* An event that push() queued is delivered unless the stream is shut down.
DeliveredOrShutDown ==
  \A e \in Events :
    e \in Range(accepted) ~> e \in Range(delivered) \/ m_state = "shutdown"

-----------------------------------------------------------------------------
(* Refinement: the stream is a mailbox. *)

MB == INSTANCE Mailbox
        WITH phase <- m_state,
             pending <- PendingEvents,
             current <- InHand,
             handled <- delivered,
             quiet <- m_state = "shutdown" /\ ~joinable

\* The queue, its condition variable and the loop thread implement the mailbox,
\* its liveness included.
ImplementsMailbox == MB!Spec
=============================================================================
