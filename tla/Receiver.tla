------------------------------ MODULE Receiver ------------------------------
(***************************************************************************)
(* core::socket_receiver_t (src/core/socket.cpp): a UDP socket and a       *)
(* thread that takes datagrams from it and notifies the subscriber.        *)
(*                                                                         *)
(* The owner constructs it (which may throw), may run it, and destroys it. *)
(* The atomic m_running is all that the two threads share; recvfrom() has  *)
(* a timeout only so that the thread looks at it again.                    *)
(***************************************************************************)
EXTENDS Datagrams

VARIABLES
  owner,          \* where the owner is
  m_socket,       \* "none", "open", "bound" or "closed"
  m_subscriber,   \* the pointer is not null
  m_running,      \* the atomic flag
  thread,         \* where the receiving thread is
  buffer,         \* the datagram being notified, a sequence of length at most one
  inbox,          \* the kernel's buffer of the socket, oldest first
  arrived,        \* history: the datagrams the kernel put into it
  notified        \* history: the datagrams whose notification returned

receiverVars == <<owner, m_socket, m_subscriber, m_running, thread, buffer, inbox,
                  arrived, notified>>
kernelVars == <<inbox, arrived>>

Constructing == {"socket", "setsockopt", "bind"}
OwnerPositions == Constructing \cup {"thrown", "built", "on_run", "spin", "running", "join",
                                     "destroyed"}
ThreadPositions == {"none", "spawned", "check", "recvfrom", "notify", "finished"}

Init ==
  /\ owner = "socket"
  /\ m_socket = "none"
  /\ m_subscriber = FALSE
  /\ m_running = FALSE
  /\ thread = "none"
  /\ buffer = <<>>
  /\ inbox = <<>>
  /\ arrived = <<>>
  /\ notified = <<>>

-----------------------------------------------------------------------------
(* The network *)

\* A datagram that finds the socket bound and room in its buffer.  Any may come
\* at any time and more than once: it may be late, out of order or doubled; one
\* that is lost is no step.
Arrive(d) ==
  /\ m_socket = "bound"
  /\ Len(inbox) < MaxInbox
  /\ Len(arrived) < MaxArrivals
  /\ inbox' = Append(inbox, d)
  /\ arrived' = Append(arrived, d)
  /\ UNCHANGED <<owner, m_socket, m_subscriber, m_running, thread, buffer, notified>>

-----------------------------------------------------------------------------
(* The owner *)

OwnerStep(from, to) ==
  /\ owner = from
  /\ owner' = to
  /\ UNCHANGED <<kernelVars, buffer, notified>>

OpenSocket ==
  /\ OwnerStep("socket", "setsockopt")
  /\ m_socket' = "open"
  /\ UNCHANGED <<m_subscriber, m_running, thread>>

SetTimeout ==
  /\ OwnerStep("setsockopt", "bind")
  /\ UNCHANGED <<m_socket, m_subscriber, m_running, thread>>

Bind ==
  /\ OwnerStep("bind", "built")
  /\ m_socket' = "bound"
  /\ UNCHANGED <<m_subscriber, m_running, thread>>

\* Any of the three calls may fail; the constructor closes what it opened.
ConstructorThrows ==
  /\ \E step \in Constructing : OwnerStep(step, "thrown")
  /\ m_socket' = IF m_socket = "open" THEN "closed" ELSE m_socket
  /\ UNCHANGED <<m_subscriber, m_running, thread>>

\* run() stores the subscriber and then starts the thread.
Subscribe ==
  /\ OwnerStep("built", "on_run")
  /\ m_subscriber' = TRUE
  /\ UNCHANGED <<m_socket, m_running, thread>>

Spawn ==
  /\ OwnerStep("on_run", "spin")
  /\ thread' = "spawned"
  /\ UNCHANGED <<m_socket, m_subscriber, m_running>>

\* while( !m_running ) yield()
RunReturns ==
  /\ m_running
  /\ OwnerStep("spin", "running")
  /\ UNCHANGED <<m_socket, m_subscriber, m_running, thread>>

\* Slip: the destructor closes the socket, before the thread ended.
StopCloses ==
  /\ OwnerStep("built", "join") \/ OwnerStep("running", "join")
  /\ m_running' = FALSE
  /\ m_socket' = "closed"
  /\ UNCHANGED <<m_subscriber, thread>>

\* The destructor.  It never closes the socket, which stays bound until the
\* process ends.
Stop ==
  /\ OwnerStep("built", "join") \/ OwnerStep("running", "join")
  /\ m_running' = FALSE
  /\ UNCHANGED <<m_socket, m_subscriber, thread>>

\* The guard joins the thread if there is one.
Join ==
  /\ thread \in {"none", "finished"}
  /\ OwnerStep("join", "destroyed")
  /\ UNCHANGED <<m_socket, m_subscriber, m_running, thread>>

-----------------------------------------------------------------------------
(* The receiving thread *)

ThreadStep(from, to) ==
  /\ thread = from
  /\ thread' = to
  /\ UNCHANGED <<owner, m_socket, m_subscriber, arrived>>

ThreadStart ==
  /\ ThreadStep("spawned", "check")
  /\ m_running' = TRUE
  /\ UNCHANGED <<buffer, inbox, notified>>

LoopCheck ==
  /\ ThreadStep("check", IF m_running THEN "recvfrom" ELSE "finished")
  /\ UNCHANGED <<m_running, buffer, inbox, notified>>

\* The ten milliseconds are over, or another error: both only continue.
RecvFails ==
  /\ ThreadStep("recvfrom", "check")
  /\ UNCHANGED <<m_running, buffer, inbox, notified>>

Truncated(d) == [d EXCEPT !.size = IF @ > k_max_size THEN k_max_size ELSE @]

\* Slip: the datagram stays in the socket (MSG_PEEK).
ReceivePeeks ==
  /\ inbox # <<>>
  /\ ThreadStep("recvfrom", "notify")
  /\ buffer' = <<Truncated(Head(inbox))>>
  /\ UNCHANGED <<m_running, inbox, notified>>

\* recvfrom() cuts a datagram to the buffer, so that the code's test of the size
\* never fires and datagram_t never throws.
Receive ==
  /\ inbox # <<>>
  /\ ThreadStep("recvfrom", "notify")
  /\ buffer' = <<Truncated(Head(inbox))>>
  /\ inbox' = Tail(inbox)
  /\ UNCHANGED <<m_running, notified>>

\* on_receive() returned to the loop.
NotifyReturns ==
  /\ ThreadStep("notify", "check")
  /\ notified' = notified \o buffer
  /\ buffer' = <<>>
  /\ UNCHANGED <<m_running, inbox>>

-----------------------------------------------------------------------------
Network == \E d \in Datagram : Arrive(d)

Construct == OpenSocket \/ SetTimeout \/ Bind \/ ConstructorThrows
OwnerInside == Construct \/ Spawn \/ RunReturns \/ Join
OwnerCalls == Subscribe \/ Stop

ThreadWorks == ThreadStart \/ LoopCheck \/ RecvFails \/ Receive \/ NotifyReturns

Finished ==
  /\ owner \in {"thrown", "destroyed"}
  /\ UNCHANGED receiverVars

Next == Network \/ OwnerInside \/ OwnerCalls \/ ThreadWorks \/ Finished

SafeSpec == Init /\ [][Next]_receiverVars

-----------------------------------------------------------------------------
(* Safety *)

\* The variables hold what the code's types allow; a datagram_t has at most
\* k_max_size bytes.
TypeOK ==
  /\ owner \in OwnerPositions
  /\ m_socket \in {"none", "open", "bound", "closed"}
  /\ m_subscriber \in BOOLEAN
  /\ m_running \in BOOLEAN
  /\ thread \in ThreadPositions
  /\ inbox \in Seq(Datagram)
  /\ arrived \in Seq(Datagram)
  /\ buffer \in Seq(Received)
  /\ notified \in Seq(Received)

\* assert( m_subscriber ) in notify(): the thread finds the subscriber that
\* run() stored before it started the thread.
NotifiesASubscriber == thread = "notify" => m_subscriber

\* The thread never calls recvfrom() on a descriptor that is not its socket.
SocketBoundInUse == thread \notin {"none", "finished"} => m_socket = "bound"

\* Once the destructor returned no notification is running or to come: the
\* subscriber and the receiver may go.
SilentOnceDestroyed == owner = "destroyed" => thread \in {"none", "finished"}

\* A constructor that throws leaves no open socket, as no destructor will run.
ThrowLeavesNothing == owner = "thrown" => m_socket \in {"none", "closed"}

\* What the kernel put into the socket is notified, being notified or still
\* there: once each, in order, cut to the buffer.
NothingLostAfterKernel ==
  [i \in DOMAIN arrived |-> Truncated(arrived[i])]
    = notified \o buffer \o [i \in DOMAIN inbox |-> Truncated(inbox[i])]

\* The thread's m_running = true never undoes the destructor's m_running = false.
NoRevival == [][m_running' /\ ~m_running => owner = "spin"]_receiverVars

-----------------------------------------------------------------------------
(* The inductive invariant behind the properties above *)

\* The socket is what the constructor left.
SocketLife ==
  CASE owner = "socket" -> m_socket = "none"
    [] owner \in {"setsockopt", "bind"} -> m_socket = "open"
    [] owner = "thrown" -> m_socket \in {"none", "closed"}
    [] OTHER -> m_socket = "bound"

\* The thread exists from run() on, finds the subscriber stored, and ends only
\* when it is told to.
ThreadLife ==
  /\ owner \in Constructing \cup {"thrown", "built", "on_run"} => thread = "none"
  /\ owner \in {"on_run", "spin", "running"} => m_subscriber
  /\ owner \in {"spin", "running"} => thread \notin {"none", "finished"}
  /\ thread # "none" => m_subscriber
  /\ owner = "destroyed" => thread \in {"none", "finished"}

\* m_running is set once, by the thread, before run() returns.
RunningFlag ==
  /\ thread \in {"none", "spawned"} => ~m_running
  /\ owner = "spin" => (m_running <=> thread # "spawned")
  /\ owner = "running" => m_running
  /\ owner \in {"join", "destroyed"} => ~m_running /\ thread # "spawned"

BufferUse == Len(buffer) = IF thread = "notify" THEN 1 ELSE 0

IInv == TypeOK /\ SocketLife /\ ThreadLife /\ RunningFlag /\ BufferUse /\ NothingLostAfterKernel
=============================================================================
