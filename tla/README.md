# A verification project for arrival-udp

Two programs on one Linux host. The *server* broadcasts its time over UDP every
100 ms; an *endpoint* receives it and prints its own time, the server's and the
difference. Both block their main thread until SIGUSR2 arrives and then end.
Everything interesting happens between threads: a server process has five of
them, and which object outlives which is decided by the order of declarations.

## Inventory

Paths are relative to `src/` of the repository, line numbers are in
`PROJECT.json`.

| Component | State | Operations | Talks to | Hard about it | Correct means |
|---|---|---|---|---|---|
| `event_queue_t`, `event_stream_t` (`src/core/event_stream.hpp`) | `m_state`, `m_queue` under a mutex; a condition variable; a loop thread | `run`, `shutdown`, `push`, `pull`, `event_loop` | every object that receives data; its subscriber's `on_event` | notify after unlock, two shutdowns, events behind a shutdown | nothing lost, doubled or reordered; no wakeup lost; silence after `shutdown()`; `shutdown()` returns |
| `application_t`, `signal_handler_t` (`src/core/application.cpp`, `signal_handler.cpp`) | `m_state` under a mutex; `m_running`; observers; a detached thread; the signal mask | construct, `await`, `shutdown`, `run`, `sigwait` | kernel, main thread | signal at any moment, detached thread and a local object, spurious wakeups | the signal ends the process, once, and nothing else does |
| `timer_t` (`src/core/timer.cpp`) | two `once_flag`s, atomic `m_running`, a thread | `run`, `shutdown`, destructor, `run_loop` | its callback | start against stop, callback against join, a sleep nobody interrupts | one thread, no callback after `shutdown()`, not too soon, `shutdown()` returns |
| `task_generator_t` (`src/server/task_generator.cpp`) | the timer | `run` (first task on the main thread), `on_timer` | server gateway | two threads post | order |
| `server::gateway_t` (`src/server/gateway.cpp`) | a stream of tasks, the sender | construct, `post`, `on_event`, destroy | sender | member order | sender outlives the thread that uses it |
| `socket_sender_t` (`src/core/socket.cpp`) | a stream of datagrams, a socket | construct (may throw), `send`, `on_event` (`sendto`), destroy | kernel | failure of `sendto`, closing | the socket outlives the thread that uses it; no retry, no reorder |
| `socket_receiver_t` (`src/core/socket.cpp`) | a socket, atomic `m_running`, a thread | construct (may throw), `run`, `receive_loop`, destroy | endpoint gateway | 10 ms timeout against stop, truncation, no `SO_REUSEADDR`, socket never closed | no notification after destruction |
| `endpoint::gateway_t`, `endpoint::task_processor` (`src/endpoint`) | receiver; a stream of tasks | `run`, `on_receive`, `operator()`, `on_event` | receiver, log | order of declarations; time taken when processed | each datagram that parses is reported once, in order |
| `task_t`, `datagram_t`, `timestamp_t` (`src/core`) | values | to and from 8 big-endian bytes, printing | gateways | width, sign, overflow, padding | round trip; readable difference |
| `main()` of both | the locals | build, wait, destroy in reverse | all | a constructor that throws, partial construction | as above, for the whole process |
| `logger_t` (`src/core/logger.cpp`), with `timestamp_t::to_string()` | a line per object; two mutexes and the `std::tm` behind `std::localtime()` | construct, insert, destroy (writes the line) | every thread | static data of the C library, two writes per line | a line says its own thread's times and is whole |
| `address_t`, tests, scripts, googletest | – | – | – | – | not modelled: values, users of the program, third-party code |

How they interact in the server: timer thread → `gateway.post()` → task stream →
gateway thread → `sender.send()` → datagram stream → sender thread → `sendto()`.
In the endpoint: receiver thread → `gateway.on_receive()` → task stream →
processor thread. The signal thread only ever calls `application_t::shutdown()`.

## Modules

| Module | What it is |
|---|---|
| `Mailbox` | what a stream promises, with no thread and no lock: open, post, take, handle, close, quiesce |
| `EventStream` | the stream as the code has it, step by step for the owner, the loop thread and the producers |
| `Application` | one process's life: main thread, signal thread, kernel |
| `Timer` | the timer, its callers and its thread |
| `ServerProcess` | the server: `Timer`, two `Mailbox`es and the main thread that builds and destroys them |
| `Datagrams` | the datagrams that the next two speak of, and their bounds |
| `Receiver` | the receiver: its owner, its thread, the kernel's buffer and the network |
| `EndpointProcess` | the endpoint: `Receiver`, a `Mailbox` and the main thread |
| `Endpoint` | what an endpoint promises its user, with no thread and no queue |
| `DataPath` | what happens to one time from the server's clock to the endpoint's console |
| `Timestamp` | how a time is printed, as operators |
| `Logger` | the threads that log, the shared `std::tm` and the two mutexes |
| `Numerals` | numbers as digits of a base, for `DataPath` (bytes) and `Timestamp` (decimal digits) |
| `EventStreamProofs`, `ApplicationProofs`, `TimerProofs`, `ServerProofs`, `EndpointProofs`, `LoggerProofs`, `DataPathProofs` | the proofs about the module each is named after; those about `Receiver` are in `EndpointProofs` |
| `SequenceLemmas` | facts about sequences, division and numerals, and induction and recursion, that several proofs cite |
| `MCEventStream`, `MCTimer` | instances for TLC; the other modules have constants that a `.cfg` can give |

```
Mailbox <-- refines -- EventStream          Endpoint <-- refines -- EndpointProcess
   |                                                                 |     |
   +-- twice --> ServerProcess <-- Timer          Mailbox -- once ---+     +--- Receiver

Numerals --> Timestamp --> Logger          Numerals --> DataPath          Application
```

### How the models correspond to the code

* A critical section under a mutex is one step. What follows the unlock (every
  `notify_one()`) is a step of its own. `application_t::m_mutex` and the two
  mutexes of the log are variables, because what happens inside is several
  steps; the queue's mutex protects steps that have no inside.
* `wait()` with a predicate is three steps: test, release-and-block, wake and
  retest. A condition variable may wake spuriously, at any time.
* A spin (`while( !running ) yield()`) is a step with the condition as guard.
* `thread_join_guard` is a step guarded by the end of the thread.
* Threads, events, tasks and the contents of datagrams are model values or
  numbers. Events are pushed once each, so that an event's identity tells a
  duplicate from a loss. Addresses are left out; bytes are in `DataPath` only,
  printed text in `DataPath` (the difference) and `Logger` (the times) only.
* History variables (`accepted`, `delivered`, `discarded`, `told`, `wire`,
  `arrived`, `notified`, `handled`, `said`, `console`) only record; no guard reads
  them but the bounds `MaxArrivals` and `MaxLines`.
* Slips: an operator whose comment begins with *Slip* is the operator after it
  with a plausible mistake. No specification uses it; substituted for the
  original, it violates the property that guards against it (`PROJECT.json`,
  `mutants`).

**EventStream.** The owner constructs, may `run`, and shuts down from its own
destructor (`shut`) and from the stream's (`dtor`), or from the latter alone;
`MayCall` is the discipline of the three classes that own a stream. Producers
push at any time until the stream's destructor begins. A push to a stream that
does not run is dropped, as in the code. `on_event()` is the interval in which
`loop = "dispatch"`, so it can take arbitrarily long.

**Application.** `unblocked` is the set of threads whose mask lets SIGUSR2
through; a new thread inherits the main thread's mask. `pending` does not count:
signals of one number do not queue. `ndebug` is the build: with assertions, a
failed one aborts; without, it is nothing. Calling a member of the application
after its destruction is undefined, and modelled as nothing happening or a
crash. The components between construction and destruction are one step each;
`ServerProcess` and `EndpointProcess` have their inside.

**Timer.** Three callers may call `run()` and `shutdown()` concurrently, as the
`once_flag`s are there to allow, and one of them destroys the timer when the
others are out. They keep one rule (`RunFirst`): no `shutdown()` before `run()`
has returned, except from the destructor of a timer nobody ran. `main()` of the
server keeps it. The code does not defend itself against a program that breaks
it: `shutdown()` first uses up the flag, so that the thread of a later `run()`
is never joined and its destruction calls `std::terminate()`; and a `shutdown()`
during `run()` may have its `m_running = false` overwritten by the starting
thread and then join for ever, or leave `run()` spinning for ever.

**ServerProcess.** Each stream is a `Mailbox`, which is sound for the safety
properties because `RefinesMailbox` proves that the stream implements it, and
for the liveness properties because TLC checks the fair version
(`ImplementsMailbox`). That `main()` and the two gateways use the timer and the
streams as their modules demand is proved as well (`TimerInside`,
`TaskStreamInside`, `DatagramStreamInside`). The gateway's `on_event()` and the `push()` inside it are
one step: between the end of the push and the return nothing is shared. A task
is its number in the order of making.

**Receiver.** The constructor is its three system calls, each of which may fail.
`m_running` is the one variable both threads write. `recvfrom()` either takes the
oldest datagram of the socket's buffer, cut to 512 bytes, or fails; the ten
milliseconds of `SO_RCVTIMEO` and any other error are that same failure, after
which the loop only looks at `m_running` again. The network puts any datagram
into the buffer at any time and more than once, which covers delay, doubling and
reordering; loss is the absence of the step. The socket is never closed by the
destructor, so that datagrams keep arriving at a process that stops.

**EndpointProcess.** The receiver is an instance of `Receiver` whose notification
ends in `gateway_t::on_receive()`: a datagram of another size than a task's
throws in `task_t()` and costs nothing else; a task goes through the callback to
the processor's stream, an instance of `Mailbox`. `on_receive()`, the callback and
`push()` are one step, the return of the notification; the receiver's thread is in
`notify` from the datagram on until then, and the properties about what it may
meet hold over that whole interval. `MakeReceiver` may throw, which destroys the
processor and ends in `EXIT_FAILURE`.

**Endpoint.** Starting, up, stopping, ended, and a queue of tasks that reached it.
The refinement mapping concatenates what three threads and the kernel hold; the
endpoint discards from the newest task on when it stops.

**DataPath.** One time takes the whole way. Words have `k_msec_count_size` bytes
of `ByteBase` values and arithmetic on them wraps, `htobe64()` and `be64toh()`
reverse the bytes of a little-endian host, and the hosts have a byte order each.
The clock may show anything whenever it is read, as `system_clock` may be set. A
second kind of behaviour begins with a datagram of another program.

**Logger.** A line is collected by its thread, one `to_string()` per time, and
written in two pieces. `to_string()` calls `std::localtime()`, which writes the
one static `std::tm`, and copies it, both under a mutex. The date and time of day
that `put_time()` prints stand as one number of seconds; what is modelled of the
text is the milliseconds behind it, as digits.

## Runs

| Run | Bounds | Shows |
|---|---|---|
| `eventstream` | 3 events, 2 producers | nothing lost, doubled or reordered, no wakeup lost, silence after `shutdown()`, `shutdown()` returns, and the stream implements the fair mailbox |
| `application_life` | none needed (204 states) | the life of a process under any number of signals, in both builds; `SignalEndsProcess` is that it ends, and the next two runs are about how |
| `application_assert` | none | **violation**: the assertion in `await()` |
| `application_notify` | none | **violation**: `notify_one()` on a destroyed condition variable |
| `timer` | 3 callers, period 2 | silence after `shutdown()`, nothing left to `std::terminate()`, callbacks a period apart, calls return, the timer keeps calling |
| `server_process` | 4 tasks, period 2 | the whole server, stopped at any moment |
| `endpoint_process` | 2 contents, sizes 0, 8 and 513, inbox of 2, 3 arrivals | the whole endpoint, failing or stopped at any moment, and that it implements `Endpoint` |
| `datapath` | words of 5 bits, buffer of 6, 3 ns per ms | every time of the word arrives; a foreign count loses only what overflows; only times are shown; the difference on one host |
| `datapath_difference` | the same | **violation**: the difference has two signs |
| `datapath_reception` | the same | **violation**: the endpoint's time is not that of reception |
| `logger` | 2 threads, times 7, 1099 and 2500, 2 times a line, 2 lines | times are the thread's own, lines are whole, printed times are right to the second |
| `logger_millis` | the same | **violation**: milliseconds below 100 read as others |

Why the bounds are enough. Three events let one be in the loop's hands, one in
the queue and one come later, from either of two producers, which is every
relation the properties speak of; the theorems remove the bound for safety. Two
callers besides the owner let one do the work of a `once_flag`, one wait for it
and one arrive later. A period of 2 distinguishes “just started to sleep”, “in
the middle” and “done”. Four tasks fill both streams, both hands and the wire at
once; past `MaxTasks` the callback makes none, so that stopping is still
reached from every state. The sizes of datagrams are one that is too short, that
of a task, and one that is cut: with three arrivals each place of the endpoint can
hold one, and a datagram that does not parse can stand before, between and
behind tasks. A word of five bits has every case of the 64-bit one: negative times, a
multiplication by `NsPerMs` that wraps and one that does not, a difference that
overflows, bytes that reverse to something else. A buffer of one
byte more than a task separates “too short”, “right”, “too long” and “cut”. Two
threads and two times a line let one thread convert its second time while the
other is anywhere; 7, 1099 and 2500 have milliseconds of one, two and three
digits. `CHECK_DEADLOCK` is on everywhere: the end of each component's life is
an explicit stuttering step.

### Fairness, and why the code justifies it

* Weak fairness for each thread's own steps: the scheduler runs a thread that
  can run. A blocked thread's step is disabled, so nothing is assumed of it.
* Weak fairness for a call once begun, not for making it: nobody has to push,
  shut down, send a datagram or send a signal.
* Weak fairness of `DispatchEvent` and `CallbackReturns`: the subscribers and the
  callback of the repository push to another queue or call `sendto()`, and return.
* Weak fairness of the clock.
* Strong fairness of `ShutdownLock`: the signal thread wants a mutex that the
  main thread may take again and again if it wakes spuriously for ever; a mutex
  that is free infinitely often is eventually given to the waiter.
* Strong fairness of `R!Receive` in the endpoint: `recvfrom()` does not fail for
  ever while there is a datagram. A receive timeout with data in the buffer
  cannot repeat, and an error that does is not one the loop could do anything
  about. Only the refinement of `Endpoint` needs it, not `CallsReturn`.

### Findings

1. `await()` starts the signal thread, then takes the mutex, then asserts that
   the application is in standby. SIGUSR2 in between makes the assertion fail
   (`application_assert`). Without assertions the program ends correctly:
   the predicate is tested before blocking.
2. `application_t::shutdown()` notifies after its unlock. If `await()` saw the
   new state by itself, `main()` may return and destroy the condition variable
   first (`application_notify`). `ObserverOnLiveApp` shows that the critical
   section itself is safe: only the notification is late.
3. If the server's clock is ahead, the endpoint prints a minus sign before a
   number that is already negative (`datapath_difference`). On one host whose
   clock is not set back this does not happen (`DifferenceOnOneHost`).
4. The README says that the client prints its time at the moment the packet is
   received; the code reads the clock when the processor's thread comes to the
   task (`datapath_reception`).
5. Milliseconds below 100 are printed with a zero behind instead of before them,
   so that 70 ms and 700 ms print alike (`logger_millis`). From 100 on, and for the second,
   what is printed is right (`ReadsWithinSecond`).

Two things were seen and are not checked as findings. The receiver's socket is never
closed, of which no document says anything. And a second endpoint on a host cannot
bind the port (there is no `SO_REUSEADDR`) and ends with `EXIT_FAILURE`; the
repository's README speaks of clients, in the plural, and of one Linux machine
(`src/README.md` lines 5 and 15), but does not say that they share the machine's one
port. The endpoint's model has it as a failing `bind()`; two endpoints at once are
not modelled.

## Proofs

TLAPS checks the eight proof modules completely. Each specification has an
inductive invariant `IInv`, a conjunction of named parts, and a lemma for each
part that says the steps preserve it. The type invariants are part of them.

*EventStream*, for every set of events and of producers, assuming only
`EventsAreNotStates` (the code's `static_assert`). Neither `NothingLost` nor
`SilentOnceReturned` is inductive: that a pulled event is the oldest one needs
that state entries are at the head of the queue only (`QueueShape`), and that
the loop is silent after the join needs how the owner's position, `m_state`,
`joinable` and the loop's position go together (`EntryShape`, `Positions`).
`RunQueuesNoEvent`, `PushAppends`, `PullMoves` and `ShutdownDiscards` say what an
operation does to the pending events, for `NothingLost` and for the refinement
alike. From it follow type correctness, `NothingLost`, `NoLostWakeup`,
`SilentOnceReturned`, `OnlyShutdownAfterShutdown` and `RefinesMailbox`:
`SafeSpec => MB!SafeSpec`.

*Timer*, for every set of callers and every period, assuming `PeriodIsPositive`
(the constructor's assertion) and `OwnerIsACaller`. `IInv` adds to the types
that one caller at a time does the work of a flag (`OnceFlags`), which part of
its life the thread is in by the flags (`ThreadLife`), that a shutdown comes
after `run()` or to a timer that never runs (`ShutdownLast`), and that the time
since the last callback covers the sleep (`SleepCovered`). `OneThread` and
`NoRevival` are proved and not run.

*Application* has no constants; its theorems add to the run a reason for each
property. `SignalProgress` says what the signal thread has done by where it is,
`AwaitSaw` that `await()` sleeps on a state it saw under the mutex, and
`MutexHolders` joins the two. `ShutdownOnce`, `ObserverOnLiveApp`,
`SuccessMeansSignalled` and `NeverKilledOnceMasked` follow.

*ServerProcess*, for every period and every number of tasks. The property that
carries the others is about one sequence, `Chain`: the tasks that are handled,
in hand or queued, in both streams, are 1, 2, 3, … without a gap
(`TasksInOrder`). Every step of the gateway moves a task inside of the chain,
and stopping cuts it at the end, or in front of the gateway's part when nobody
is left to move that. `WireInOrder` is inductive only together with the
statement that what was sent was handled (`WireBehind`). The lifetimes of the
three components are a function of the position of the main thread
(`Lifetimes`), from which `SocketOpenInUse`, `SenderOutlivesGateway` and
`PostsAreAccepted` follow.

Its parts are then shown to be used as their modules demand: the timer with
`main` as its only caller is a `Timer` (`TimerInside`), and both streams are
`Mailbox`es (`TaskStreamInside`, `DatagramStreamInside`). So what is proved about
`Timer` holds for the timer of the server (`TimerStaysSound`). The assumptions are
`MaxTasksIsNatural` and `PeriodIsPositive`.

*Receiver*, for every set of contents and sizes and every bound. The control part
(`SocketLife`, `ThreadLife`, `RunningFlag`) does not depend on the data, and the
data part is `NothingLostAfterKernel` with `BufferUse`. These proofs are the first
part of `EndpointProofs`, about the instance `R` that the endpoint has of the
receiver; they use nothing of the endpoint.

*EndpointProcess*, under `CutIsNoTask` and the assumptions of `Datagrams`, is proved
from its components. `ReceiverInside` says that a behaviour of the endpoint is one
of `Receiver`, and `ProcessorInside` that it is one of `Mailbox`: `main()` keeps to
the order of calls both rely on. So everything that is proved about a receiver
holds in the endpoint (`ReceiverInvariantInside`, and `ReceiverIsSound` from it),
and only what relates the two remains: where the receiver is by the position of
the main thread (`ReceiverLife`), when the callback and the processor can be called
(`Callable`), that nothing arrives before there is a socket (`ReceiverUse`), and
that what the receiver notified, less what does not parse, is what the
processor's side of the endpoint has or had (`Delivered`). From these,
`TasksAreAccepted` and `CallbackOutlivesReceiver`; and `NothingLostInside` and
`StopsAtATask`, as the receiver passes on each datagram once and in order, `Parsed`
of a concatenation is the concatenation of the `Parsed`, and a datagram that was
cut does not parse before or after (`CutIsNoTask`).

`RefinesEndpoint`, `SafeSpec => E!SafeSpec`, has a lemma for each group of steps
(`StartMaps` to `ProcessorMaps`). A step that moves a task from one place to the next
leaves the concatenation `Waiting` as it is and stutters; a datagram that parses is
appended to it, until the receiver's thread has ended; the end of `on_event()` takes
its first task; the receiver's last look at `m_running` and `Close` of the
processor's stream cut it at the end, which is the abstract `Discard`. The last
join ends in `End`, as nothing waits then (`JoinMaps`).

*Logger*, for every set of threads, of times (`TimesAreIntegers`) and for every
`std::size_t` of 16 bits or more (`SizeIsLarge`), which is all the language
promises. Mutual exclusion of both mutexes, the owner of the static `std::tm`
(`OwnTm`) and the open line (`OpenLine`) give `TimesAreOwn` and `LinesAreWhole`. With
`LineIsKept`, whatever a thread's line says is `Text` of a time it was given, and
`ReadsWithinSecond` is a fact about `Text`: the digits that `std::to_string()` prints
have the value of the number (`MillisAsDigits`), and with one, two or three of
them and the zero behind, their value over the weight of their places is
below one second (`TextReads`).

*DataPath*, for words of any length in bytes, bytes of any even number of values,
any number of nanoseconds in a millisecond, hosts of any two byte orders and
clocks that show anything (`WordsAreProper`). The invariant says for each stage
what the one before has made of the time: the datagram has the digits of the
count (`Conveyed`), the task is the time of these digits (`Parsed`), the line is that
time, a reading of the clock and their difference (`Shown`). The rest is
arithmetic: reversing the bytes, or not, on either side comes to the digits of
the word with the most significant first (`BigEndianInMemory`,
`BigEndianFromMemory`); digits of a number have its value and those of a value are
the same digits (`ValueOfDigits`, `DigitsOfValue`); a signed count comes back out of
an unsigned word (`WrapOfUnsigned`); and cutting to milliseconds and back wraps
nowhere (`QuotientCuts`, `WrapKeeps`), while a product that overflows loses whole words only
(`WrapLosesWords`). From these, `RoundTrip`, `CountIsKept`,
`OnlyTimesAreShown` and `DifferenceOnOneHost`.

Several of these proofs are by induction over data, on operators that are
recursive functions. The library states induction for an operator, which the
provers cannot instantiate, so `SequenceLemmas` states it for a set: one that
holds 0 and the successor of each of its numbers holds all (`SetInduction`, from
the well-foundedness of the natural numbers). From it follow that a function
given by a first value and a table of steps exists (`Recursion`), which is what a
recursive definition needs to mean anything, and induction on sequences that
grow at the end (`AppendInduction`).

Every invariant and every action property of the runs is proved, but for those of
the runs that expect a violation. Only model-checked:

* all liveness: `ShutdownReturns`, `DeliveredOrShutDown`, `SignalEndsProcess`,
  `CallsReturn` of the timer and the endpoint, `CalledUntilShutdown`, `MadeIsSent`,
  `StopEnds`;
* the fair halves of the two refinements (`ImplementsMailbox`,
  `ImplementsEndpoint`), whose safe halves are `RefinesMailbox` and
  `RefinesEndpoint`. Fairness and `ENABLED` are beyond the prover.

## Not modelled

* googletest is vendored and is 98 % of the lines of the repository; neither program links
  it. The share of all lines that the project covers is therefore small, and
  the share of the programs' own files is not.
* `address_t`: functions of values (`inet_pton()`, `inet_ntop()`, `==`); both
  programs build theirs from literals. The unit tests and the two scripts use
  the programs, and were read for what they expect.
* Several processes on one host, and a network between server and endpoints with
  a state of its own. Nothing flows back from an endpoint, so that the two meet
  only in what a datagram says (`DataPath`) and in the order and number of
  datagrams, where the endpoint allows all (`Arrive`).
* The unbounded growth of a queue whose consumer blocks: nothing bounds it in
  the code, so that there is no property.
* `get_status()` (a read nobody calls), the exception handlers of `event_loop()`
  and `receive_loop()` (every function they call is `noexcept`), log lines other
  than those above, and the build.
