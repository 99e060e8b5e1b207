------------------------------ MODULE DataPath ------------------------------
(***************************************************************************)
(* What one time goes through from the server's clock to the endpoint's    *)
(* console: a task with a time point, eight big-endian bytes of            *)
(* milliseconds (src/core/task.cpp), a datagram cut to the receiver's      *)
(* buffer, a task again, and the line that the task processor prints.      *)
(*                                                                         *)
(* A time point is a signed count of nanoseconds of the width of a word.   *)
(* Words are modular: what overflows wraps, which is what the compiled     *)
(* code does where the language leaves it undefined.  The two hosts have a *)
(* byte order each.  system_clock may be set, so that it shows any time    *)
(* whenever it is read.                                                    *)
(***************************************************************************)
EXTENDS Numerals, SequencesExt

CONSTANTS
  ByteBase,           \* how many values a byte has
  k_msec_count_size,  \* bytes in a word
  k_max_size,         \* bytes in the receiver's buffer
  NsPerMs             \* nanoseconds in a millisecond

ASSUME WordsAreProper ==
  /\ ByteBase \in Nat /\ ByteBase % 2 = 0 /\ ByteBase > 0
  /\ k_msec_count_size \in Nat \ {0}
  /\ k_max_size \in Nat /\ k_max_size > k_msec_count_size
  /\ NsPerMs \in Nat \ {0}

VARIABLES
  order,       \* the byte order of each host; never changes
  stage,       \* how far the time came
  foreign,     \* the datagram is another program's; never changes
  m_timestamp, \* the server's task: a time point, or none, as an optional
  length,      \* history: how long the datagram was that was sent
  bytes,       \* the datagram
  received,    \* history: the endpoint's clock when recvfrom() returned, once it did
  task,        \* the time point of the task the endpoint parsed, once it did
  report       \* the line it printed, once it did

vars == <<order, stage, foreign, m_timestamp, length, bytes, received, task, report>>

\* std::optional: a sequence of length at most one.
Optional(S) == {<<>>} \cup {<<value>> : value \in S}

-----------------------------------------------------------------------------
(* Words, as signed and unsigned numbers *)

Word == Weight(ByteBase, k_msec_count_size)
Bytes == 0..(ByteBase - 1)
Times == -(Word \div 2)..(Word \div 2 - 1)

Unsigned(i) == i % Word
Wrap(i) == ((i + Word \div 2) % Word) - Word \div 2

\* The division of C++, and of duration_cast.
Quotient(a, b) == IF a >= 0 THEN a \div b ELSE -((-a) \div b)

\* The bytes of a word in memory, and the word they are.
Memory(host, word) ==
  LET big == Digits(ByteBase, k_msec_count_size, word)
  IN  IF order[host] = "big" THEN big ELSE Reverse(big)

Load(host, memory) ==
  Value(ByteBase, IF order[host] = "big" THEN memory ELSE Reverse(memory))

\* htobe64() and be64toh(), which are one function.
be64(host, word) ==
  IF order[host] = "big" THEN word ELSE Load(host, Reverse(Memory(host, word)))

-----------------------------------------------------------------------------
(* The task *)

\* Slip: rounded and not cut.
CountRounded(time) == Unsigned(Quotient(time + NsPerMs \div 2, NsPerMs))

\* time_point_cast< milliseconds >, in an unsigned word.
Count(time) == Unsigned(Quotient(time, NsPerMs))

\* Slip: be64toh() is forgotten.
TimeOfHostOrder(memory) == Wrap(Wrap(Load("endpoint", memory)) * NsPerMs)

\* Slip: the count is taken for nanoseconds.
TimeOfNanoseconds(memory) == Wrap(be64("endpoint", Load("endpoint", memory)))

\* task_t( datagram_t ): milliseconds of any size, multiplied to nanoseconds.
TimeOf(memory) == Wrap(Wrap(be64("endpoint", Load("endpoint", memory))) * NsPerMs)

Init ==
  /\ order \in [{"server", "endpoint"} -> {"little", "big"}]
  /\ stage = "made"
  /\ foreign \in BOOLEAN
  /\ m_timestamp \in IF foreign THEN {<<>>} ELSE Optional(Times)
  /\ length = 0
  /\ bytes = <<>>
  /\ received = <<>>
  /\ task = <<>>
  /\ report = <<>>

Advance(from, to) ==
  /\ stage = from
  /\ stage' = to
  /\ UNCHANGED <<order, foreign, m_timestamp>>

\* server::gateway_t::on_event(): to_datagram() and send().
ToDatagram ==
  /\ m_timestamp # <<>>
  /\ Advance("made", "sent")
  /\ bytes' = Memory("server", be64("server", Count(m_timestamp[1])))
  /\ length' = k_msec_count_size
  /\ UNCHANGED <<received, task, report>>

\* to_datagram() throws for a task without a time; nothing is sent.
ToDatagramThrows ==
  /\ ~foreign /\ m_timestamp = <<>>
  /\ Advance("made", "dropped")
  /\ UNCHANGED <<length, bytes, received, task, report>>

\* Another program sends a datagram to the port, of any size and content; those
\* of another size than a task's are represented by one of each length.
Foreign ==
  /\ foreign
  /\ Advance("made", "sent")
  /\ length' \in 0..(k_max_size + 1)
  /\ bytes' \in IF length' = k_msec_count_size
                THEN [1..k_msec_count_size -> Bytes]
                ELSE {[i \in 1..length' |-> 1]}
  /\ UNCHANGED <<received, task, report>>

\* recvfrom(), which cuts the datagram to the buffer.
Receive(now) ==
  /\ Advance("sent", "received")
  /\ bytes' = SubSeq(bytes, 1, IF Len(bytes) > k_max_size THEN k_max_size ELSE Len(bytes))
  /\ received' = <<now>>
  /\ UNCHANGED <<length, task, report>>

\* endpoint::gateway_t::on_receive(): a task, for the processor's stream.
FromDatagram ==
  /\ Len(bytes) = k_msec_count_size
  /\ Advance("received", "queued")
  /\ task' = <<TimeOf(bytes)>>
  /\ UNCHANGED <<length, bytes, received, report>>

\* Slip: only a datagram that is too short is refused, and the rest not looked at.
FromDatagramThrowsIfShort ==
  \/ /\ Len(bytes) < k_msec_count_size
     /\ Advance("received", "dropped")
     /\ UNCHANGED <<length, bytes, received, task, report>>
  \/ /\ Len(bytes) > k_msec_count_size
     /\ Advance("received", "queued")
     /\ task' = <<TimeOf(SubSeq(bytes, 1, k_msec_count_size))>>
     /\ UNCHANGED <<length, bytes, received, report>>

\* task_t() throws for another size; the datagram is only logged.
FromDatagramThrows ==
  /\ Len(bytes) # k_msec_count_size
  /\ Advance("received", "dropped")
  /\ UNCHANGED <<length, bytes, received, task, report>>

\* The text of the difference: a sign, and the signed number with its own.
Difference(server, endpoint) ==
  LET diff == Quotient(Wrap(endpoint - server), NsPerMs)
  IN  [signs |-> <<IF server > endpoint THEN "-" ELSE "+">>
                 \o (IF diff < 0 THEN <<"-">> ELSE <<>>),
       magnitude |-> IF diff < 0 THEN -diff ELSE diff]

\* task_processor::on_event() reads the endpoint's clock itself.
OnEvent(now) ==
  /\ Advance("queued", "shown")
  /\ report' = <<[endpoint |-> now, server |-> task[1], difference |-> Difference(task[1], now)]>>
  /\ UNCHANGED <<length, bytes, received, task>>

Finished ==
  /\ stage \in {"shown", "dropped"}
  /\ UNCHANGED vars

Next ==
  \/ ToDatagram \/ ToDatagramThrows \/ Foreign
  \/ \E now \in Times : Receive(now)
  \/ FromDatagram \/ FromDatagramThrows
  \/ \E now \in Times : OnEvent(now)
  \/ Finished

Spec == Init /\ [][Next]_vars

-----------------------------------------------------------------------------
\* Between hosts of any byte order the endpoint gets the server's time, cut to a
\* millisecond, also from before the epoch, when it travels as a huge unsigned
\* number.
RoundTrip ==
  task # <<>> /\ m_timestamp # <<>> =>
    task[1] = Quotient(m_timestamp[1], NsPerMs) * NsPerMs

\* A word from anybody is taken for the milliseconds it counts as a signed number.
\* Where no time point holds that many nanoseconds, the multiplication overflows, and
\* that loses whole words and nothing else.
CountIsKept ==
  LET count == Value(ByteBase, bytes)
      signed == IF 2 * count >= Word THEN count - Word ELSE count
  IN  task # <<>> =>
        /\ (task[1] - count * NsPerMs) % Word = 0
        /\ signed * NsPerMs \in Times => task[1] = signed * NsPerMs

\* A line is printed for a time of the server or a foreign datagram of exactly a
\* word, never for a task without a time or a longer datagram that was cut.
OnlyTimesAreShown ==
  stage = "shown" => length = k_msec_count_size /\ (foreign \/ m_timestamp # <<>>)

\* A text with one sign is read as a number; one with two is not a number.
Reads(text, number) ==
  /\ Len(text.signs) = 1
  /\ number = IF text.signs[1] = "-" THEN -text.magnitude ELSE text.magnitude

\* On one host whose clock is not set back between the two readings, the printed
\* difference has one sign, a plus, and is the time since the server made the
\* task, to a millisecond.
DifferenceOnOneHost ==
  \A line \in ToSet(report), made \in ToSet(m_timestamp) :
    0 <= made /\ made <= line.endpoint =>
      LET text == line.difference
      IN  /\ text.signs = <<"+">>
          /\ text.magnitude * NsPerMs < line.endpoint - made + NsPerMs
          /\ line.endpoint - made < (text.magnitude + 1) * NsPerMs

\* The README promises the difference of the two times.  The code does not keep
\* it when the server is ahead: a minus sign goes before the negative number.
DifferenceReads ==
  \A line \in ToSet(report) :
    ~foreign /\ 0 <= line.server /\ 0 <= line.endpoint =>
      Reads(line.difference, Quotient(line.endpoint - line.server, NsPerMs))

\* The README promises the endpoint's time at the moment the packet is received.
\* The code prints the time at which the processor came to it, which is another
\* although the clock was not set.
ShownAtReception ==
  \A line \in ToSet(report), made \in ToSet(m_timestamp) :
    0 <= made /\ made <= received[1] /\ received[1] <= line.endpoint =>
      line.endpoint \div NsPerMs = received[1] \div NsPerMs

-----------------------------------------------------------------------------
(* The inductive invariant behind the properties *)

\* The variables hold what the code's types allow.
TypeOK ==
  /\ order \in [{"server", "endpoint"} -> {"little", "big"}]
  /\ stage \in {"made", "sent", "received", "queued", "shown", "dropped"}
  /\ foreign \in BOOLEAN
  /\ m_timestamp \in Optional(Times)
  /\ length \in Nat
  /\ bytes \in Seq(Bytes)
  /\ received \in Optional(Times)
  /\ task \in Optional(Times)

\* A datagram of the server's is a word with its task's count; whatever was sent is
\* of the length it was sent with, up to the receiver's buffer.
Conveyed ==
  /\ foreign => m_timestamp = <<>>
  /\ stage \notin {"made", "dropped"} /\ ~foreign =>
       /\ m_timestamp # <<>>
       /\ bytes = Digits(ByteBase, k_msec_count_size, Count(m_timestamp[1]))
  /\ stage = "sent" => Len(bytes) = length
  /\ stage = "received" => Len(bytes) = IF length > k_max_size THEN k_max_size ELSE length

\* Only a word becomes a task, and only a task becomes a line.
Parsed ==
  IF stage \in {"queued", "shown"}
  THEN /\ length = k_msec_count_size /\ Len(bytes) = k_msec_count_size
       /\ task = <<TimeOf(bytes)>>
  ELSE task = <<>>

Shown ==
  IF stage = "shown"
  THEN \E now \in Times :
         report = <<[endpoint |-> now, server |-> task[1],
                     difference |-> Difference(task[1], now)]>>
  ELSE report = <<>>

IInv == TypeOK /\ Conveyed /\ Parsed /\ Shown
=============================================================================
