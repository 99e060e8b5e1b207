------------------------------- MODULE Logger -------------------------------
(***************************************************************************)
(* core::logger_t (src/core/logger.cpp), through which every thread of     *)
(* both programs writes to the console, and the conversion of a time that  *)
(* it calls (timestamp_t::to_string() in src/core/timestamp.cpp).          *)
(*                                                                         *)
(* A line is collected in an object of its thread: the time at which it    *)
(* was begun, then what is inserted, of which only the times matter here.  *)
(* Two mutexes are shared: one guards the static std::tm behind            *)
(* std::localtime(), the other the two writes that make a line.            *)
(***************************************************************************)
EXTENDS Timestamp

CONSTANTS
  Threads,   \* those that log
  Times,     \* what the clock shows, and what a line may say
  MaxTimes,  \* bound: how many times a line says
  MaxLines   \* bound: once they are on the console no line is begun

ASSUME TimesAreIntegers == Times \subseteq Int

VARIABLES
  pos,          \* of each thread, where it is in its line
  said,         \* history: of each thread, the times its line is to say
  m_content,    \* of each thread, the times in its line, as printed
  static_tm,    \* the seconds of the std::tm that std::localtime() points to
  time_mutex,   \* to_string()'s g_mutex: the set of its holders
  line_mutex,   \* ~logger_t()'s g_mutex: the set of its holders
  console       \* history: what was written, one item each << and endl

vars == <<pos, said, m_content, static_tm, time_mutex, line_mutex, console>>

Positions == {"idle", "to_string", "localtime", "copy", "insert", "write", "endl"}

Init ==
  /\ pos = [t \in Threads |-> "idle"]
  /\ said = [t \in Threads |-> <<>>]
  /\ m_content = [t \in Threads |-> <<>>]
  /\ static_tm = 0
  /\ time_mutex = {}
  /\ line_mutex = {}
  /\ console = <<>>

Move(t, from, to) ==
  /\ pos[t] = from
  /\ pos' = [pos EXCEPT ![t] = to]

Item(t, kind, text) == [thread |-> t, kind |-> kind, text |-> text]

-----------------------------------------------------------------------------
(* The line *)

\* logger_t(): the clock, which may be set, is read first.
Begin(t, now) ==
  /\ Len(console) < 2 * MaxLines
  /\ Move(t, "idle", "to_string")
  /\ said' = [said EXCEPT ![t] = <<now>>]
  /\ m_content' = [m_content EXCEPT ![t] = <<>>]
  /\ UNCHANGED <<static_tm, time_mutex, line_mutex, console>>

\* operator<< of a time.
Insert(t, time) ==
  /\ Len(said[t]) < MaxTimes
  /\ Move(t, "insert", "to_string")
  /\ said' = [said EXCEPT ![t] = Append(@, time)]
  /\ UNCHANGED <<m_content, static_tm, time_mutex, line_mutex, console>>

\* Slip: the guard has no name and is gone at once.
LockLineUnnamed(t) ==
  /\ Move(t, "insert", "write")
  /\ UNCHANGED <<said, m_content, static_tm, time_mutex, line_mutex, console>>

\* ~logger_t()
LockLine(t) ==
  /\ line_mutex = {}
  /\ Move(t, "insert", "write")
  /\ line_mutex' = {t}
  /\ UNCHANGED <<said, m_content, static_tm, time_mutex, console>>

WriteText(t) ==
  /\ Move(t, "write", "endl")
  /\ console' = Append(console, Item(t, "text", m_content[t]))
  /\ UNCHANGED <<said, m_content, static_tm, time_mutex, line_mutex>>

WriteEndl(t) ==
  /\ Move(t, "endl", "idle")
  /\ console' = Append(console, Item(t, "endl", <<>>))
  /\ line_mutex' = line_mutex \ {t}
  /\ UNCHANGED <<said, m_content, static_tm, time_mutex>>

-----------------------------------------------------------------------------
(* to_string() *)

\* Slip: one mutex per call, not one for all (the keyword static is missing).
LockTimeOwn(t) ==
  /\ Move(t, "to_string", "localtime")
  /\ UNCHANGED <<said, m_content, static_tm, time_mutex, line_mutex, console>>

LockTime(t) ==
  /\ time_mutex = {}
  /\ Move(t, "to_string", "localtime")
  /\ time_mutex' = {t}
  /\ UNCHANGED <<said, m_content, static_tm, line_mutex, console>>

Localtime(t) ==
  /\ Move(t, "localtime", "copy")
  /\ static_tm' = Seconds(Last(said[t]))
  /\ UNCHANGED <<said, m_content, time_mutex, line_mutex, console>>

\* The copy of the static std::tm and the end of the guard, and the text from the
\* copy and the thread's own time.
Copy(t) ==
  /\ Move(t, "copy", "insert")
  /\ m_content' = [m_content EXCEPT ![t] = Append(@, Text(static_tm, Last(said[t])))]
  /\ time_mutex' = time_mutex \ {t}
  /\ UNCHANGED <<said, static_tm, line_mutex, console>>

-----------------------------------------------------------------------------
Works(t) == LockLine(t) \/ WriteText(t) \/ WriteEndl(t) \/ LockTime(t) \/ Localtime(t) \/ Copy(t)

Finished ==
  /\ \A t \in Threads : pos[t] = "idle"
  /\ Len(console) >= 2 * MaxLines
  /\ UNCHANGED vars

Next ==
  \/ \E t \in Threads :
       \/ Works(t)
       \/ \E time \in Times : Begin(t, time) \/ Insert(t, time)
  \/ Finished

Spec == Init /\ [][Next]_vars

-----------------------------------------------------------------------------
(* Safety *)

Texts == {Text(tm, time) : tm \in Int, time \in Times}

Items == [thread : Threads, kind : {"text"}, text : Seq(Texts)]
           \cup [thread : Threads, kind : {"endl"}, text : {<<>>}]

\* The variables hold what the code's types allow.
TypeOK ==
  /\ pos \in [Threads -> Positions]
  /\ said \in [Threads -> Seq(Times)]
  /\ m_content \in [Threads -> Seq(Texts)]
  /\ static_tm \in Int
  /\ time_mutex \subseteq Threads
  /\ line_mutex \subseteq Threads
  /\ console \in Seq(Items)

\* A line says the times its own thread put into it, whatever other threads convert
\* meanwhile through the one static std::tm.
TimesAreOwn ==
  \A t \in Threads :
    pos[t] \in {"insert", "write", "endl"} =>
      m_content[t] = [i \in DOMAIN said[t] |-> Text(Seconds(said[t][i]), said[t][i])]

\* Lines are whole: what follows a text is the end of its line, by the same thread,
\* and what follows that is a text.
LinesAreWhole ==
  \A i \in 1..(Len(console) - 1) :
    IF console[i].kind = "text"
    THEN console[i + 1] = Item(console[i].thread, "endl", <<>>)
    ELSE console[i + 1].kind = "text"

\* A time since the epoch is printed so that a reader takes it for a time within
\* its second and not before it; from 100 milliseconds on, and on the second, for
\* itself.
ReadsWithinSecond ==
  \A t \in Threads : \A i \in DOMAIN m_content[t] :
    LET time == said[t][i]
        read == ReadBack(m_content[t][i])
    IN  time >= 0 =>
          /\ time <= read /\ read < (time \div 1000 + 1) * 1000
          /\ time % 1000 >= 100 \/ time % 1000 = 0 => read = time

\* The README promises time stamps in milliseconds on the console.  The code does
\* not keep it below 100 of them: the zero goes behind the digits, not before.
ReadsBack ==
  \A t \in Threads : \A i \in DOMAIN m_content[t] :
    said[t][i] >= 0 => ReadBack(m_content[t][i]) = said[t][i]

-----------------------------------------------------------------------------
(* The inductive invariant behind the properties *)

\* Each mutex has at most one holder, which is in its critical section.
MutualExclusion ==
  /\ \A t \in Threads : t \in time_mutex <=> pos[t] \in {"localtime", "copy"}
  /\ \A t \in Threads : t \in line_mutex <=> pos[t] \in {"write", "endl"}
  /\ \A t, u \in time_mutex : t = u
  /\ \A t, u \in line_mutex : t = u

\* The static std::tm is that of the thread which is about to copy it.
OwnTm == \A t \in Threads : pos[t] = "copy" => static_tm = Seconds(Last(said[t]))

\* All but the last time of a line are printed while that one is converted.
Converted ==
  \A t \in Threads :
    pos[t] \in {"to_string", "localtime", "copy"} =>
      /\ said[t] # <<>>
      /\ m_content[t] = [i \in 1..(Len(said[t]) - 1) |-> Text(Seconds(said[t][i]), said[t][i])]

\* A thread that wrote its line still knows what the line said.
LineIsKept ==
  \A t \in Threads :
    pos[t] = "idle" =>
      m_content[t] = [i \in DOMAIN said[t] |-> Text(Seconds(said[t][i]), said[t][i])]

\* A line is open on the console while its thread is between the two writes.
OpenLine ==
  \A t \in Threads :
    pos[t] = "endl"
      <=> console # <<>> /\ Last(console).kind = "text" /\ Last(console).thread = t

IInv ==
  /\ TypeOK /\ MutualExclusion
  /\ OwnTm /\ Converted /\ TimesAreOwn /\ LineIsKept
  /\ OpenLine /\ LinesAreWhole
=============================================================================
