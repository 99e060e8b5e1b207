---------------------------- MODULE LoggerProofs ----------------------------
(***************************************************************************)
(* Proofs about Logger, for any threads and any times.  Up to the last     *)
(* section what to_string() prints of a time (Text) does not matter, only  *)
(* which time it is.                                                       *)
(***************************************************************************)
EXTENDS Logger, SequenceLemmas

\* Every step of the specification, one disjunct for each action.
LEMMA StepCases ==
  ASSUME [Next]_vars
  PROVE  \/ \E t \in Threads, time \in Times : Begin(t, time) \/ Insert(t, time)
         \/ \E t \in Threads :
              \/ LockLine(t) \/ WriteText(t) \/ WriteEndl(t)
              \/ LockTime(t) \/ Localtime(t) \/ Copy(t)
         \/ UNCHANGED vars
BY DEF Next, Works, Finished

\* The last time a thread is to say is a time, and its second a number.
LEMMA LastSaid ==
  ASSUME TypeOK, NEW t \in Threads, said[t] # <<>>
  PROVE  Last(said[t]) \in Times /\ Seconds(Last(said[t])) \in Int
<1>1. said[t] \in Seq(Times) /\ Len(said[t]) \in Nat /\ Len(said[t]) # 0
  BY EmptySeq, LenProperties DEF TypeOK
<1>2. Last(said[t]) \in Times
  BY <1>1, ElementOfSeq DEF Last
<1>3. \A n \in Int : n \div 1000 \in Int
  OBVIOUS
<1>4. Last(said[t]) \in Int
  BY <1>2, TimesAreIntegers
<1>5. QED BY <1>2, <1>3, <1>4 DEF Seconds

\* The variables keep to their types.
LEMMA TypeStep ==
  ASSUME TypeOK, Converted, [Next]_vars
  PROVE  TypeOK'
<1> USE DEF TypeOK, Move, Positions
<1>1. ASSUME NEW t \in Threads, NEW time \in Times, Begin(t, time)
      PROVE  TypeOK'
  <2>1. <<time>> \in Seq(Times) /\ <<>> \in Seq(Texts)
    BY EmptySeq
  <2>2. QED BY <1>1, <2>1 DEF Begin
<1>2. ASSUME NEW t \in Threads, NEW time \in Times, Insert(t, time)
      PROVE  TypeOK'
  <2>1. Append(said[t], time) \in Seq(Times)
    BY AppendProperties
  <2>2. QED BY <1>2, <2>1 DEF Insert
<1>3. ASSUME NEW t \in Threads, LockLine(t) \/ LockTime(t)
      PROVE  TypeOK'
  BY <1>3 DEF LockLine, LockTime
<1>4. ASSUME NEW t \in Threads, WriteText(t)
      PROVE  TypeOK'
  <2>1. Item(t, "text", m_content[t]) \in Items
    BY DEF Item, Items
  <2>2. Append(console, Item(t, "text", m_content[t])) \in Seq(Items)
    BY <2>1, AppendProperties
  <2>3. QED BY <1>4, <2>2 DEF WriteText
<1>5. ASSUME NEW t \in Threads, WriteEndl(t)
      PROVE  TypeOK'
  <2>1. Item(t, "endl", <<>>) \in Items
    BY DEF Item, Items
  <2>2. Append(console, Item(t, "endl", <<>>)) \in Seq(Items)
    BY <2>1, AppendProperties
  <2>3. QED BY <1>5, <2>2 DEF WriteEndl
<1>6. ASSUME NEW t \in Threads, Localtime(t)
      PROVE  TypeOK'
  <2>1. said[t] # <<>>
    BY <1>6 DEF Localtime, Converted
  <2>2. Seconds(Last(said[t])) \in Int
    BY <2>1, LastSaid
  <2>3. QED BY <1>6, <2>2 DEF Localtime
<1>7. ASSUME NEW t \in Threads, Copy(t)
      PROVE  TypeOK'
  <2>1. said[t] # <<>>
    BY <1>7 DEF Copy, Converted
  <2>2. Text(static_tm, Last(said[t])) \in Texts
    BY <2>1, LastSaid DEF Texts
  <2>3. Append(m_content[t], Text(static_tm, Last(said[t]))) \in Seq(Texts)
    BY <2>2, AppendProperties
  <2>4. QED BY <1>7, <2>3 DEF Copy
<1>8. CASE UNCHANGED vars
  BY <1>8 DEF vars
<1>9. QED BY <1>1, <1>2, <1>3, <1>4, <1>5, <1>6, <1>7, <1>8, StepCases

\* A mutex is taken by one thread at a time and given back by that thread.
LEMMA ExclusionStep ==
  ASSUME TypeOK, MutualExclusion, [Next]_vars
  PROVE  MutualExclusion'
<1> USE DEF TypeOK, MutualExclusion, Move
<1>1. ASSUME NEW t \in Threads, NEW time \in Times, Begin(t, time) \/ Insert(t, time)
      PROVE  MutualExclusion'
  BY <1>1 DEF Begin, Insert
<1>2. ASSUME NEW t \in Threads, LockLine(t)
      PROVE  MutualExclusion'
  BY <1>2 DEF LockLine
<1>3. ASSUME NEW t \in Threads, WriteText(t) \/ WriteEndl(t)
      PROVE  MutualExclusion'
  BY <1>3 DEF WriteText, WriteEndl
<1>4. ASSUME NEW t \in Threads, LockTime(t)
      PROVE  MutualExclusion'
  BY <1>4 DEF LockTime
<1>5. ASSUME NEW t \in Threads, Localtime(t) \/ Copy(t)
      PROVE  MutualExclusion'
  BY <1>5 DEF Localtime, Copy
<1>6. CASE UNCHANGED vars
  BY <1>6 DEF vars
<1>7. QED BY <1>1, <1>2, <1>3, <1>4, <1>5, <1>6, StepCases

\* Between localtime() and the copy no other thread writes the static std::tm.
LEMMA OwnTmStep ==
  ASSUME TypeOK, MutualExclusion, OwnTm, [Next]_vars
  PROVE  OwnTm'
<1> SUFFICES ASSUME NEW u \in Threads, pos'[u] = "copy"
             PROVE  static_tm' = Seconds(Last(said'[u]))
  BY DEF OwnTm
<1> USE DEF TypeOK, Move
<1>1. ASSUME NEW t \in Threads, NEW time \in Times, Begin(t, time) \/ Insert(t, time)
      PROVE  static_tm' = Seconds(Last(said'[u]))
  BY <1>1 DEF Begin, Insert, OwnTm
<1>2. ASSUME NEW t \in Threads,
             LockLine(t) \/ WriteText(t) \/ WriteEndl(t) \/ LockTime(t) \/ Copy(t)
      PROVE  static_tm' = Seconds(Last(said'[u]))
  BY <1>2 DEF LockLine, WriteText, WriteEndl, LockTime, Copy, OwnTm
<1>3. ASSUME NEW t \in Threads, Localtime(t)
      PROVE  static_tm' = Seconds(Last(said'[u]))
  <2>1. u = t
    BY <1>3 DEF Localtime, MutualExclusion
  <2>2. QED BY <1>3, <2>1 DEF Localtime
<1>4. CASE UNCHANGED vars
  BY <1>4 DEF vars, OwnTm
<1>5. QED BY <1>1, <1>2, <1>3, <1>4, StepCases

\* A sequence that holds all but the last value of a function, and then that one.
LEMMA AppendLast ==
  ASSUME NEW S, NEW s \in Seq(S), NEW n \in Nat \ {0}, NEW f,
         s = [i \in 1..(n - 1) |-> f[i]]
  PROVE  Append(s, f[n]) = [i \in 1..n |-> f[i]]
<1>1. Len(s) = n - 1
  BY LenProperties
<1>2. Append(s, f[n]) = [i \in 1..(Len(s) + 1) |-> IF i = Len(s) + 1 THEN f[n] ELSE s[i]]
  OBVIOUS
<1>3. Len(s) + 1 = n
  BY <1>1
<1>4. Append(s, f[n]) = [i \in 1..n |-> IF i = n THEN f[n] ELSE s[i]]
  BY <1>2, <1>3
<1>5. \A i \in 1..n : (IF i = n THEN f[n] ELSE s[i]) = f[i]
  BY <1>1
<1>6. QED BY <1>4, <1>5

\* Printing the last time completes what the thread has printed of its line.
LEMMA ContentStep ==
  ASSUME TypeOK, OwnTm, Converted, TimesAreOwn, LineIsKept, [Next]_vars
  PROVE  Converted' /\ TimesAreOwn' /\ LineIsKept'
<1> USE DEF TypeOK, Move
<1>1. ASSUME NEW t \in Threads, NEW time \in Times, Begin(t, time)
      PROVE  Converted' /\ TimesAreOwn' /\ LineIsKept'
  <2>1. said'[t] = <<time>> /\ m_content'[t] = <<>> /\ pos'[t] = "to_string"
    BY <1>1 DEF Begin
  <2>2. /\ said'[t] # <<>>
        /\ m_content'[t] =
             [i \in 1..(Len(said'[t]) - 1) |-> Text(Seconds(said'[t][i]), said'[t][i])]
    <3>1. said'[t] # <<>> /\ Len(said'[t]) = 1
      BY <2>1
    <3>2. 1..(Len(said'[t]) - 1) = {}
      BY <3>1
    <3>3. <<>> = [i \in {} |-> Text(Seconds(said'[t][i]), said'[t][i])]
      OBVIOUS
    <3>4. QED BY <2>1, <3>1, <3>2, <3>3
  <2>3. \A u \in Threads : u # t =>
          said'[u] = said[u] /\ m_content'[u] = m_content[u] /\ pos'[u] = pos[u]
    BY <1>1 DEF Begin
  <2>4. TimesAreOwn' /\ LineIsKept'
    BY <2>1, <2>3 DEF TimesAreOwn, LineIsKept
  <2>5. Converted'
    <3> SUFFICES ASSUME NEW u \in Threads, pos'[u] \in {"to_string", "localtime", "copy"}
                 PROVE  /\ said'[u] # <<>>
                        /\ m_content'[u] = [i \in 1..(Len(said'[u]) - 1) |->
                                             Text(Seconds(said'[u][i]), said'[u][i])]
      BY DEF Converted
    <3>1. CASE u = t
      BY <2>1, <2>2, <3>1
    <3>2. CASE u # t
      BY <2>3, <3>2 DEF Converted
    <3>3. QED BY <3>1, <3>2
  <2>6. QED BY <2>4, <2>5
<1>2. ASSUME NEW t \in Threads, NEW time \in Times, Insert(t, time)
      PROVE  Converted' /\ TimesAreOwn' /\ LineIsKept'
  <2>1. /\ said'[t] = Append(said[t], time) /\ m_content' = m_content
        /\ pos[t] = "insert" /\ pos'[t] = "to_string"
    BY <1>2 DEF Insert
  <2>2. /\ said'[t] # <<>> /\ Len(said'[t]) - 1 = Len(said[t])
        /\ \A i \in 1..Len(said[t]) : said'[t][i] = said[t][i]
    BY <2>1, AppendProperties, SMTT(60)
  <2>3. m_content[t] = [i \in 1..Len(said[t]) |-> Text(Seconds(said[t][i]), said[t][i])]
    <3>1. DOMAIN said[t] = 1..Len(said[t])
      BY LenProperties
    <3>2. QED BY <2>1, <3>1 DEF TimesAreOwn
  <2>4. m_content'[t] = [i \in 1..(Len(said'[t]) - 1) |-> Text(Seconds(said'[t][i]), said'[t][i])]
    BY <2>1, <2>2, <2>3
  <2>5. \A u \in Threads : u # t => said'[u] = said[u] /\ pos'[u] = pos[u]
    BY <1>2 DEF Insert
  <2>6. TimesAreOwn' /\ LineIsKept'
    BY <2>1, <2>5 DEF TimesAreOwn, LineIsKept
  <2>7. Converted'
    <3> SUFFICES ASSUME NEW u \in Threads, pos'[u] \in {"to_string", "localtime", "copy"}
                 PROVE  /\ said'[u] # <<>>
                        /\ m_content'[u] = [i \in 1..(Len(said'[u]) - 1) |->
                                             Text(Seconds(said'[u][i]), said'[u][i])]
      BY DEF Converted
    <3>1. CASE u = t
      BY <2>2, <2>4, <3>1
    <3>2. CASE u # t
      BY <2>1, <2>5, <3>2 DEF Converted
    <3>3. QED BY <3>1, <3>2
  <2>8. QED BY <2>6, <2>7
<1>3. ASSUME NEW t \in Threads,
             LockLine(t) \/ WriteText(t) \/ WriteEndl(t) \/ LockTime(t) \/ Localtime(t)
      PROVE  Converted' /\ TimesAreOwn' /\ LineIsKept'
  <2>1. UNCHANGED <<said, m_content>>
    BY <1>3 DEF LockLine, WriteText, WriteEndl, LockTime, Localtime
  <2>2. \A u \in Threads :
          /\ pos'[u] \in {"to_string", "localtime", "copy"} =>
               pos[u] \in {"to_string", "localtime", "copy"}
          /\ pos'[u] \in {"insert", "write", "endl"} => pos[u] \in {"insert", "write", "endl"}
          /\ pos'[u] = "idle" => pos[u] \in {"endl", "idle"}
    BY <1>3 DEF LockLine, WriteText, WriteEndl, LockTime, Localtime
  <2>3. QED BY <2>1, <2>2 DEF Converted, TimesAreOwn, LineIsKept
<1>4. ASSUME NEW t \in Threads, Copy(t)
      PROVE  Converted' /\ TimesAreOwn' /\ LineIsKept'
  <2> DEFINE n == Len(said[t])
             text == [i \in 1..n |-> Text(Seconds(said[t][i]), said[t][i])]
  <2>1. /\ pos[t] = "copy" /\ pos'[t] = "insert" /\ said' = said
        /\ m_content'[t] = Append(m_content[t], Text(static_tm, Last(said[t])))
    BY <1>4 DEF Copy
  <2>2. n \in Nat \ {0} /\ DOMAIN said[t] = 1..n
    BY <2>1, EmptySeq, LenProperties DEF Converted
  <2>3. Text(static_tm, Last(said[t])) = text[n]
    BY <2>1, <2>2 DEF OwnTm, Last
  <2>4. m_content[t] = [i \in 1..(n - 1) |-> text[i]]
    <3>1. \A i \in 1..(n - 1) : text[i] = Text(Seconds(said[t][i]), said[t][i])
      BY <2>2
    <3>2. m_content[t] = [i \in 1..(n - 1) |-> Text(Seconds(said[t][i]), said[t][i])]
      BY <2>1 DEF Converted
    <3> HIDE DEF text
    <3>3. QED BY <3>1, <3>2
  <2>5. [i \in 1..n |-> text[i]] = text
    OBVIOUS
  <2>6. Append(m_content[t], text[n]) = text
    <3> HIDE DEF text, n
    <3>1. QED BY <2>2, <2>4, <2>5, AppendLast, SMTT(60)
  <2>7. m_content'[t] = [i \in DOMAIN said'[t] |-> Text(Seconds(said'[t][i]), said'[t][i])]
    BY <2>1, <2>2, <2>3, <2>6
  <2>8. \A u \in Threads : u # t => m_content'[u] = m_content[u] /\ pos'[u] = pos[u]
    BY <1>4 DEF Copy
  <2>9. Converted'
    BY <2>1, <2>8 DEF Converted
  <2>10. TimesAreOwn'
    BY <2>1, <2>7, <2>8 DEF TimesAreOwn
  <2>11. LineIsKept'
    BY <2>1, <2>8 DEF LineIsKept
  <2>12. QED BY <2>9, <2>10, <2>11
<1>5. CASE UNCHANGED vars
  BY <1>5 DEF vars, Converted, TimesAreOwn, LineIsKept
<1>6. QED BY <1>1, <1>2, <1>3, <1>4, <1>5, StepCases

\* The thread that writes is the only one between its two writes, and finds the
\* line before it ended or its own text.
LEMMA LineStep ==
  ASSUME TypeOK, MutualExclusion, OpenLine, LinesAreWhole, [Next]_vars
  PROVE  OpenLine' /\ LinesAreWhole'
<1> USE DEF TypeOK, Move
<1>1. ASSUME UNCHANGED console, \A u \in Threads : pos'[u] = "endl" <=> pos[u] = "endl"
      PROVE  OpenLine' /\ LinesAreWhole'
  BY <1>1 DEF OpenLine, LinesAreWhole
<1>2. ASSUME NEW t \in Threads, NEW time \in Times, Begin(t, time) \/ Insert(t, time)
      PROVE  OpenLine' /\ LinesAreWhole'
  BY <1>1, <1>2 DEF Begin, Insert
<1>3. ASSUME NEW t \in Threads, LockLine(t) \/ LockTime(t) \/ Localtime(t) \/ Copy(t)
      PROVE  OpenLine' /\ LinesAreWhole'
  BY <1>1, <1>3 DEF LockLine, LockTime, Localtime, Copy
<1>4. CASE UNCHANGED vars
  BY <1>1, <1>4 DEF vars
<1>5. ASSUME NEW item \in Items, console' = Append(console, item),
             console # <<>> => IF Last(console).kind = "text"
                               THEN item = Item(Last(console).thread, "endl", <<>>)
                               ELSE item.kind = "text"
      PROVE  LinesAreWhole' /\ console' # <<>> /\ Last(console') = item
  <2>1. /\ Len(console) \in Nat /\ Len(console') = Len(console) + 1
        /\ \A i \in 1..Len(console) : console'[i] = console[i]
        /\ console'[Len(console) + 1] = item
    BY <1>5, AppendProperties, LenProperties
  <2>2. console' # <<>> /\ Last(console') = item
    BY <1>5, <2>1, AppendProperties DEF Last
  <2>3. LinesAreWhole'
    <3> SUFFICES ASSUME NEW i \in 1..(Len(console') - 1)
                 PROVE  IF console'[i].kind = "text"
                        THEN console'[i + 1] = Item(console'[i].thread, "endl", <<>>)
                        ELSE console'[i + 1].kind = "text"
      BY DEF LinesAreWhole, Item
    <3>1. CASE i = Len(console)
      BY <1>5, <2>1, <3>1, EmptySeq DEF Last
    <3>2. CASE i # Len(console)
      <4>1. i \in 1..(Len(console) - 1) /\ i + 1 \in 1..Len(console) /\ i \in 1..Len(console)
        BY <2>1, <3>2
      <4>2. QED BY <2>1, <4>1 DEF LinesAreWhole
    <3>3. QED BY <3>1, <3>2
  <2>4. QED BY <2>2, <2>3
<1>6. console # <<>> => Last(console) \in Items
  BY EmptySeq, LenProperties, ElementOfSeq DEF Last
<1>7. ASSUME NEW t \in Threads, WriteText(t)
      PROVE  OpenLine' /\ LinesAreWhole'
  <2> DEFINE item == Item(t, "text", m_content[t])
  <2>1. /\ pos[t] = "write" /\ pos' = [pos EXCEPT ![t] = "endl"]
        /\ console' = Append(console, item)
    BY <1>7 DEF WriteText
  <2>2. item \in Items /\ item.kind = "text" /\ item.thread = t
    BY DEF Item, Items
  <2>3. \A u \in Threads : pos[u] # "endl"
    BY <2>1 DEF MutualExclusion
  <2>4. console # <<>> => Last(console).kind # "text"
    BY <1>6, <2>3 DEF OpenLine, Items
  <2> HIDE DEF item
  <2>5. LinesAreWhole' /\ console' # <<>> /\ Last(console') = item
    BY <1>5, <2>1, <2>2, <2>4
  <2>6. \A u \in Threads : pos'[u] = "endl" <=> u = t
    BY <2>1, <2>3
  <2>7. QED BY <2>2, <2>5, <2>6 DEF OpenLine
<1>8. ASSUME NEW t \in Threads, WriteEndl(t)
      PROVE  OpenLine' /\ LinesAreWhole'
  <2> DEFINE item == Item(t, "endl", <<>>)
  <2>1. /\ pos[t] = "endl" /\ pos' = [pos EXCEPT ![t] = "idle"]
        /\ console' = Append(console, item)
    BY <1>8 DEF WriteEndl
  <2>2. item \in Items /\ item.kind = "endl"
    BY DEF Item, Items
  <2>3. console # <<>> /\ Last(console).kind = "text" /\ Last(console).thread = t
    BY <2>1 DEF OpenLine
  <2>4. \A u \in Threads : u # t => pos[u] # "endl"
    BY <2>1 DEF MutualExclusion
  <2>5. item = Item(Last(console).thread, "endl", <<>>)
    BY <2>3
  <2> HIDE DEF item
  <2>6. LinesAreWhole' /\ console' # <<>> /\ Last(console') = item
    BY <1>5, <2>1, <2>2, <2>3, <2>5
  <2>7. \A u \in Threads : pos'[u] # "endl"
    BY <2>1, <2>4
  <2>8. QED BY <2>2, <2>6, <2>7 DEF OpenLine
<1>9. QED BY <1>2, <1>3, <1>4, <1>7, <1>8, StepCases

-----------------------------------------------------------------------------
\* The invariant that the results below follow from: the two mutexes exclude, and
\* what each thread has printed is what it was to say.
THEOREM InductiveInvariant == Spec => []IInv
<1>1. Init => IInv
  <2> SUFFICES ASSUME Init PROVE IInv
    OBVIOUS
  <2>1. <<>> \in Seq(Times) /\ <<>> \in Seq(Texts) /\ <<>> \in Seq(Items)
    BY EmptySeq
  <2>2. TypeOK
    BY <2>1 DEF Init, TypeOK, Positions
  <2>3. MutualExclusion /\ OwnTm /\ Converted /\ TimesAreOwn /\ OpenLine
    BY DEF Init, MutualExclusion, OwnTm, Converted, TimesAreOwn, OpenLine
  <2>4. Len(console) = 0
    BY EmptySeq DEF Init
  <2>5. LinesAreWhole
    BY <2>4 DEF LinesAreWhole
  <2>6. LineIsKept
    <3>1. Len(<<>>) = 0 /\ 1..0 = {}
      OBVIOUS
    <3>2. QED BY <3>1 DEF Init, LineIsKept
  <2>7. QED BY <2>2, <2>3, <2>5, <2>6 DEF IInv
<1>2. IInv /\ [Next]_vars => IInv'
  BY TypeStep, ExclusionStep, OwnTmStep, ContentStep, LineStep DEF IInv
<1>3. QED BY <1>1, <1>2, PTL DEF Spec

\* The logger's variables keep to their types.
THEOREM TypeCorrect == Spec => []TypeOK
<1>1. IInv => TypeOK
  BY DEF IInv
<1>2. QED BY <1>1, InductiveInvariant, PTL

\* However many threads convert times through the one std::tm of std::localtime(),
\* each line says the times its own thread put into it.
THEOREM LinesSayOwnTimes == Spec => []TimesAreOwn
<1>1. IInv => TimesAreOwn
  BY DEF IInv
<1>2. QED BY <1>1, InductiveInvariant, PTL

\* However many threads log, a line on the console is the text of one of them and
\* its end.
THEOREM LinesStayWhole == Spec => []LinesAreWhole
<1>1. IInv => LinesAreWhole
  BY DEF IInv
<1>2. QED BY <1>1, InductiveInvariant, PTL
-----------------------------------------------------------------------------
(* What a reader takes from the text of a time *)

\* std::to_string() of milliseconds within a second: up to three digits, whose
\* value is the number.
LEMMA MillisAsDigits ==
  ASSUME NEW n \in 0..999
  PROVE  /\ to_string(n) \in Seq(Nat) /\ Value(10, to_string(n)) = n
         /\ Len(to_string(n)) = IF n < 10 THEN 1 ELSE IF n < 100 THEN 2 ELSE 3
<1> DEFINE Defines(f) ==
             f = [m \in 0..n |-> IF m < 10 THEN <<m>> ELSE Append(f[m \div 10], m % 10)]
           one(m) == <<m>>
           two(m) == Append(one(m \div 10), m % 10)
           three(m) == Append(two(m \div 10), m % 10)
           f == [m \in 0..n |-> IF m < 10 THEN one(m) ELSE IF m < 100 THEN two(m) ELSE three(m)]
           g == CHOOSE g : Defines(g)
<1>1. ASSUME NEW m \in 0..n
      PROVE  /\ m % 10 \in Nat /\ m = 10 * (m \div 10) + (m % 10)
             /\ m \div 10 \in Nat
             /\ m >= 10 => m \div 10 \in 0..n
             /\ m < 100 => m \div 10 < 10
             /\ m >= 10 => m \div 10 < 100 /\ m \div 10 >= 1
             /\ m >= 100 => m \div 10 >= 10
  OBVIOUS
<1>2. Defines(f)
  <2>1. ASSUME NEW m \in 0..n
        PROVE  f[m] = IF m < 10 THEN <<m>> ELSE Append(f[m \div 10], m % 10)
    <3>1. CASE m < 10
      BY <3>1
    <3>2. CASE m >= 10 /\ m < 100
      <4>1. f[m \div 10] = one(m \div 10)
        BY <1>1, <3>2
      <4>2. f[m] = two(m)
        BY <3>2
      <4> HIDE DEF f, one
      <4>3. QED BY <3>2, <4>1, <4>2
    <3>3. CASE m >= 100
      <4>1. f[m \div 10] = two(m \div 10)
        <5>1. m \div 10 \in 0..n /\ ~ m \div 10 < 10 /\ m \div 10 < 100
          BY <1>1, <3>3
        <5> HIDE DEF one, two, three
        <5>2. QED BY <5>1
      <4>2. f[m] = three(m)
        <5>1. ~ m < 10 /\ ~ m < 100
          BY <3>3
        <5> HIDE DEF one, two, three
        <5>2. QED BY <5>1
      <4> HIDE DEF f, two
      <4>3. QED BY <3>3, <4>1, <4>2
    <3>4. QED BY <3>1, <3>2, <3>3
  <2>2. f = [m \in 0..n |-> f[m]]
    OBVIOUS
  <2> HIDE DEF f
  <2>3. QED BY <2>1, <2>2, ZenonT(60)
<1> HIDE DEF f
<1>3. Defines(g)
  BY <1>2
<1>4. to_string(n) = g[n]
  BY DEF to_string
<1> HIDE DEF g
<1>5. \A m \in 0..n : g[m] = IF m < 10 THEN <<m>> ELSE Append(g[m \div 10], m % 10)
  BY <1>3, Zenon
<1> DEFINE Prints(m, k) == g[m] \in Seq(Nat) /\ Value(10, g[m]) = m /\ Len(g[m]) = k
<1>6. ASSUME NEW m \in 0..n, m >= 10, NEW k \in Nat, Prints(m \div 10, k)
      PROVE  Prints(m, k + 1)
  <2> DEFINE q == m \div 10
             r == m % 10
  <2>1. g[m] = Append(g[q], r)
    <3>1. ~ m < 10
      BY <1>6
    <3>2. QED BY <1>5, <3>1, Zenon
  <2>2. r \in Nat /\ m = 10 * q + r /\ g[q] \in Seq(Nat) /\ Value(10, g[q]) = q /\ Len(g[q]) = k
    BY <1>1, <1>6
  <2> HIDE DEF q, r
  <2>3. Value(10, Append(g[q], r)) = 10 * Value(10, g[q]) + r
    BY <2>2, ValueAppend
  <2>4. Append(g[q], r) \in Seq(Nat) /\ Len(Append(g[q], r)) = k + 1
    BY <2>2, AppendProperties
  <2>5. QED BY <2>1, <2>2, <2>3, <2>4
<1>7. ASSUME NEW m \in 0..n, m < 10
      PROVE  Prints(m, 1)
  <2>1. g[m] = <<m>>
    BY <1>5, <1>7
  <2>2. m \in Nat /\ <<>> \in Seq(Nat) /\ <<m>> = Append(<<>>, m)
    OBVIOUS
  <2>3. Value(10, Append(<<>>, m)) = 10 * Value(10, <<>>) + m
    BY <2>2, ValueAppend
  <2>4. Value(10, <<>>) = 0
    BY ValueEmpty
  <2>5. <<m>> \in Seq(Nat) /\ Len(<<m>>) = 1
    BY <2>2
  <2>6. QED BY <2>1, <2>2, <2>3, <2>4, <2>5
<1>8. ASSUME NEW m \in 0..n, m >= 10, m < 100
      PROVE  Prints(m, 2)
  <2>1. m \div 10 \in 0..n /\ m \div 10 < 10
    BY <1>1, <1>8
  <2> HIDE DEF Prints
  <2>2. Prints(m \div 10, 1)
    BY <1>7, <2>1
  <2>3. 1 \in Nat /\ 1 + 1 = 2
    OBVIOUS
  <2>4. QED BY <1>6, <1>8, <2>2, <2>3
<1>9. CASE n >= 100
  <2>1. n \in 0..n /\ n \div 10 \in 0..n /\ n \div 10 >= 10 /\ n \div 10 < 100 /\ n >= 10
    BY <1>1, <1>9
  <2> HIDE DEF Prints
  <2>2. Prints(n \div 10, 2)
    BY <1>8, <2>1
  <2>3. 2 \in Nat /\ 2 + 1 = 3
    OBVIOUS
  <2>4. Prints(n, 3)
    BY <1>6, <2>1, <2>2, <2>3
  <2>5. ~ n < 10 /\ ~ n < 100
    BY <1>9
  <2>6. QED BY <1>4, <2>4, <2>5 DEF Prints
<1>10. n \in 0..n
  OBVIOUS
<1>11. CASE n < 10
  BY <1>4, <1>7, <1>10, <1>11
<1>12. CASE n >= 10 /\ n < 100
  <2>1. ~ n < 10 /\ n < 100
    BY <1>12
  <2>2. Prints(n, 2)
    BY <1>8, <1>10, <1>12
  <2> HIDE DEF Defines
  <2>3. QED BY <1>4, <2>1, <2>2
<1>13. QED BY <1>9, <1>11, <1>12

\* The weights of the digits behind the point.
LEMMA TenthsToThousandths == Weight(10, 2) = 100 /\ Weight(10, 3) = 1000
<1>1. Weight(10, 0) = 1 /\ Weight(10, 0 + 1) = 10 * Weight(10, 0)
  BY Weights
<1>2. Weight(10, 1 + 1) = 10 * Weight(10, 1)
  BY Weights
<1>3. Weight(10, 2 + 1) = 10 * Weight(10, 2)
  BY Weights
<1>4. QED BY <1>1, <1>2, <1>3

\* The text of a time, with its second, reads as a time within the second and not
\* before it; from 100 milliseconds on, and on the second, as the time.
LEMMA TextReads ==
  ASSUME NEW time \in Nat
  PROVE  LET read == ReadBack(Text(Seconds(time), time))
         IN  /\ time <= read /\ read < (time \div 1000 + 1) * 1000
             /\ time % 1000 >= 100 \/ time % 1000 = 0 => read = time
<1> DEFINE second == time \div 1000
           millis == time % 1000
           digits == to_string(millis)
           fraction == digits \o (IF millis < 100 THEN <<0>> ELSE <<>>)
<1>1. second \in Nat /\ millis \in 0..999 /\ time = 1000 * second + millis
  BY Division
<1>2. Seconds(time) = second
  BY DEF Seconds
<1>3. millis_since_second(time) = millis
  <2>1. time - second * 1000 = millis
    BY <1>1
  <2>2. MaxSize + 1 > 999 /\ MaxSize \in Nat
    BY SizeIsLarge
  <2>3. \A m \in 0..999, size \in Nat : size > 999 => m % size = m
    BY SMTT(60)
  <2>4. millis % (MaxSize + 1) = millis
    BY <1>1, <2>2, <2>3
  <2> HIDE DEF millis, second
  <2>5. QED BY <1>2, <2>1, <2>4 DEF millis_since_second
<1>4. Text(Seconds(time), time) = [second |-> second, fraction |-> fraction]
  BY <1>2, <1>3 DEF Text
<1> HIDE DEF fraction, digits, millis, second
<1>5. ReadBack(Text(Seconds(time), time))
        = second * 1000 + (Value(10, fraction) * 1000) \div Weight(10, Len(fraction))
  BY <1>4 DEF ReadBack
<1>6. /\ digits \in Seq(Nat) /\ Value(10, digits) = millis
      /\ Len(digits) = IF millis < 10 THEN 1 ELSE IF millis < 100 THEN 2 ELSE 3
  BY <1>1, MillisAsDigits, ZenonT(60) DEF digits
<1>7. CASE millis >= 100
  <2>1. fraction = digits /\ Len(digits) = 3
    <3>1. ~ millis < 100 /\ ~ millis < 10
      BY <1>1, <1>7
    <3>2. digits \o <<>> = digits
      BY <1>6, ConcatEmptySeq
    <3>3. QED BY <1>6, <3>1, <3>2 DEF fraction
  <2>2. (Value(10, fraction) * 1000) \div Weight(10, Len(fraction)) = (millis * 1000) \div 1000
    <3>1. Value(10, fraction) = millis
      BY <1>6, <2>1, Zenon
    <3>2. Weight(10, Len(fraction)) = Weight(10, 3)
      BY <2>1, Zenon
    <3>3. Weight(10, 3) = 1000
      BY TenthsToThousandths
    <3>4. QED BY <3>1, <3>2, <3>3
  <2>3. \A m \in 0..999 : (m * 1000) \div 1000 = m
    OBVIOUS
  <2>4. ReadBack(Text(Seconds(time), time)) = time
    BY <1>1, <1>5, <2>2, <2>3
  <2>5. QED BY <1>1, <2>4 DEF second, millis
<1>8. CASE millis < 100
  <2>1. fraction = Append(digits, 0)
    <3>1. fraction = digits \o <<0>>
      BY <1>8 DEF fraction
    <3>2. Append(digits, 0) = digits \o <<0>>
      BY <1>6, AppendIsConcat
    <3>3. QED BY <3>1, <3>2
  <2>2. Value(10, fraction) = 10 * millis /\ Len(fraction) = Len(digits) + 1
    <3>1. Value(10, Append(digits, 0)) = 10 * Value(10, digits) + 0
      BY <1>6, ValueAppend
    <3>2. Len(Append(digits, 0)) = Len(digits) + 1
      <4>1. 0 \in Nat
        OBVIOUS
      <4>2. QED BY <1>6, <4>1, AppendProperties, Zenon
    <3>3. QED BY <1>1, <1>6, <2>1, <3>1, <3>2
  <2>3. CASE millis >= 10
    <3>1. Len(fraction) = 3
      BY <1>1, <1>6, <1>8, <2>2, <2>3
    <3>2. (Value(10, fraction) * 1000) \div Weight(10, Len(fraction)) = 10 * millis
      <4>1. Value(10, fraction) = 10 * millis
        BY <2>2
      <4>2. Weight(10, Len(fraction)) = Weight(10, 3)
        BY <3>1, Zenon
      <4>3. Weight(10, 3) = 1000
        BY TenthsToThousandths
      <4>4. \A m \in 0..999 : (10 * m * 1000) \div 1000 = 10 * m
        OBVIOUS
      <4>5. QED BY <1>1, <4>1, <4>2, <4>3, <4>4
    <3>3. ReadBack(Text(Seconds(time), time)) = second * 1000 + 10 * millis
      BY <1>5, <3>2
    <3>4. QED BY <1>1, <1>8, <2>3, <3>3 DEF second, millis
  <2>4. CASE millis < 10
    <3>1. Len(fraction) = 2
      BY <1>1, <1>6, <2>2, <2>4
    <3>2. (Value(10, fraction) * 1000) \div Weight(10, Len(fraction)) = 100 * millis
      <4>1. Value(10, fraction) = 10 * millis /\ Weight(10, Len(fraction)) = 100
        BY <2>2, <3>1, TenthsToThousandths
      <4>2. \A m \in 0..999 : (10 * m * 1000) \div 100 = 100 * m
        OBVIOUS
      <4>3. QED BY <1>1, <4>1, <4>2
    <3>3. ReadBack(Text(Seconds(time), time)) = second * 1000 + 100 * millis
      BY <1>5, <3>2
    <3>4. QED BY <1>1, <2>4, <3>3 DEF second, millis
  <2>5. QED BY <1>1, <2>3, <2>4
<1>9. QED BY <1>1, <1>7, <1>8

\* What a thread has printed are the texts of times it was to say.
LEMMA ContentIsPrinted ==
  ASSUME IInv, NEW t \in Threads, NEW i \in DOMAIN m_content[t]
  PROVE  /\ said[t][i] \in Int
         /\ m_content[t][i] = Text(Seconds(said[t][i]), said[t][i])
<1>1. said[t] \in Seq(Times) /\ Len(said[t]) \in Nat /\ DOMAIN said[t] = 1..Len(said[t])
  BY LenProperties DEF IInv, TypeOK
<1>2. i \in 1..Len(said[t]) /\ m_content[t][i] = Text(Seconds(said[t][i]), said[t][i])
  <2>1. CASE pos[t] \in {"to_string", "localtime", "copy"}
    <3>1. m_content[t] = [j \in 1..(Len(said[t]) - 1) |-> Text(Seconds(said[t][j]), said[t][j])]
      BY <2>1 DEF IInv, Converted
    <3>2. i \in 1..(Len(said[t]) - 1)
      BY <3>1
    <3>3. QED BY <1>1, <3>1, <3>2
  <2>2. CASE pos[t] \in {"idle", "insert", "write", "endl"}
    <3>1. m_content[t] = [j \in DOMAIN said[t] |-> Text(Seconds(said[t][j]), said[t][j])]
      BY <2>2 DEF IInv, TimesAreOwn, LineIsKept
    <3>2. i \in DOMAIN said[t]
      BY <3>1
    <3>3. QED BY <1>1, <3>1, <3>2
  <2>3. pos[t] \in Positions
    BY DEF IInv, TypeOK
  <2>4. QED BY <2>1, <2>2, <2>3 DEF Positions
<1>3. said[t][i] \in Times
  BY <1>1, <1>2, ElementOfSeq
<1>4. QED BY <1>2, <1>3, TimesAreIntegers

\* Every time since the epoch is printed so that it reads as a time within its
\* second and not before it, although the zero goes behind the digits.
THEOREM TimesReadWithinSecond == Spec => []ReadsWithinSecond
<1>1. IInv => ReadsWithinSecond
  <2> SUFFICES ASSUME IInv, NEW t \in Threads, NEW i \in DOMAIN m_content[t], said[t][i] >= 0
               PROVE  LET time == said[t][i]
                          read == ReadBack(m_content[t][i])
                      IN  /\ time <= read /\ read < (time \div 1000 + 1) * 1000
                          /\ time % 1000 >= 100 \/ time % 1000 = 0 => read = time
    BY DEF ReadsWithinSecond
  <2>1. said[t][i] \in Nat /\ m_content[t][i] = Text(Seconds(said[t][i]), said[t][i])
    BY ContentIsPrinted
  <2>2. QED BY <2>1, TextReads
<1>2. QED BY <1>1, InductiveInvariant, PTL
=============================================================================
