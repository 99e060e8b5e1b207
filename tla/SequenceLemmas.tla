--------------------------- MODULE SequenceLemmas ---------------------------
(***************************************************************************)
(* Facts about sequences and numbers that the proofs about several modules *)
(* need.                                                                   *)
(***************************************************************************)
EXTENDS Numerals, SequenceTheorems, WellFoundedInduction, TLAPS

\* A sequence that is not empty is its head followed by its tail.
LEMMA HeadThenTail ==
  ASSUME NEW S, NEW s \in Seq(S), s # <<>>
  PROVE  /\ Head(s) \in S /\ Tail(s) \in Seq(S) /\ <<Head(s)>> \in Seq(S)
         /\ s = <<Head(s)>> \o Tail(s)
<1>1. /\ Head(s) \in S /\ Tail(s) \in Seq(S) /\ Len(Tail(s)) = Len(s) - 1
      /\ \A i \in 1..Len(Tail(s)) : Tail(s)[i] = s[i + 1]
  BY HeadTailProperties
<1>2. Head(s) = s[1] /\ Len(s) \in Nat /\ Len(s) # 0
  BY EmptySeq, LenProperties
<1>3. <<Head(s)>> \in Seq(S) /\ Len(<<Head(s)>>) = 1 /\ <<Head(s)>>[1] = Head(s)
  BY <1>1
<1> DEFINE t == <<Head(s)>> \o Tail(s)
<1>4. /\ t \in Seq(S) /\ Len(t) = 1 + Len(Tail(s))
      /\ \A i \in 1..(1 + Len(Tail(s))) :
           t[i] = IF i <= 1 THEN <<Head(s)>>[i] ELSE Tail(s)[i - 1]
  BY <1>1, <1>3, ConcatProperties
<1>5. Len(s) = Len(t)
  BY <1>1, <1>2, <1>4
<1>6. ASSUME NEW i \in 1..Len(s)
      PROVE  s[i] = t[i]
  <2>1. CASE i = 1
    BY <2>1, <1>2, <1>3, <1>4, <1>5
  <2>2. CASE i # 1
    <3>1. i - 1 \in 1..Len(Tail(s))
      BY <2>2, <1>1, <1>2
    <3>2. Tail(s)[i - 1] = s[(i - 1) + 1]
      BY <3>1, <1>1
    <3>3. t[i] = Tail(s)[i - 1]
      BY <2>2, <1>2, <1>4, <1>5
    <3>4. QED BY <3>2, <3>3, <1>2
  <2>3. QED BY <2>1, <2>2
<1> HIDE DEF t
<1>7. s = t
  BY <1>4, <1>5, <1>6, SeqEqual
<1>8. QED BY <1>1, <1>3, <1>7 DEF t

\* What an element in front of a sequence is.
LEMMA HeadTailConcat ==
  ASSUME NEW S, NEW e \in S, NEW s \in Seq(S)
  PROVE  <<e>> \o s # <<>> /\ Head(<<e>> \o s) = e /\ Tail(<<e>> \o s) = s
<1> DEFINE t == <<e>> \o s
<1>1. <<e>> \in Seq(S) /\ Len(<<e>>) = 1 /\ Len(s) \in Nat
  BY LenProperties
<1>2. /\ t \in Seq(S) /\ Len(t) = 1 + Len(s)
      /\ \A i \in 1..(1 + Len(s)) : t[i] = IF i <= 1 THEN <<e>>[i] ELSE s[i - 1]
  BY <1>1, ConcatProperties
<1> HIDE DEF t
<1>3. t # <<>> /\ Head(t) = t[1]
  BY <1>1, <1>2, EmptySeq
<1>4. t[1] = e
  BY <1>1, <1>2
<1>5. /\ Tail(t) \in Seq(S) /\ Len(Tail(t)) = Len(t) - 1
      /\ \A i \in 1..Len(Tail(t)) : Tail(t)[i] = t[i + 1]
  BY <1>2, <1>3, HeadTailProperties
<1>6. Len(Tail(t)) = Len(s)
  BY <1>1, <1>2, <1>5
<1>7. ASSUME NEW i \in 1..Len(s)
      PROVE  Tail(t)[i] = s[i]
  <2>1. i + 1 \in 1..(1 + Len(s)) /\ ~ i + 1 <= 1 /\ (i + 1) - 1 = i /\ i \in 1..Len(Tail(t))
    BY <1>1, <1>6
  <2>2. QED BY <1>2, <1>5, <2>1
<1>8. Tail(t) = s
  BY <1>5, <1>6, <1>7, SeqEqual
<1>9. QED BY <1>3, <1>4, <1>8 DEF t

\* A sequence of length one at most is empty or holds its head alone.
LEMMA ShortSeq ==
  ASSUME NEW S, NEW s \in Seq(S), Len(s) <= 1, s # <<>>
  PROVE  s = <<Head(s)>> /\ Head(s) \in S
<1>1. s = <<Head(s)>> \o Tail(s) /\ Tail(s) \in Seq(S) /\ Head(s) \in S
      /\ <<Head(s)>> \in Seq(S)
  BY HeadThenTail
<1>2. Len(Tail(s)) = Len(s) - 1 /\ Len(s) \in Nat /\ Len(s) # 0 /\ Len(Tail(s)) \in Nat
  BY <1>1, HeadTailProperties, LenProperties, EmptySeq
<1>3. Len(Tail(s)) = 0
  BY <1>2
<1>4. Tail(s) = <<>>
  BY <1>1, <1>3, EmptySeq
<1>5. QED BY <1>1, <1>4, ConcatEmptySeq

\* A sequence is one over T if its elements are in T.
LEMMA TypedByElements ==
  ASSUME NEW S, NEW T, NEW s \in Seq(S), \A i \in 1..Len(s) : s[i] \in T
  PROVE  s \in Seq(T)
<1>1. Len(s) \in Nat /\ s \in [1..Len(s) -> S]
  BY LenProperties
<1>2. s \in [1..Len(s) -> T]
  BY <1>1
<1>3. QED BY <1>1, <1>2, SeqDef

\* A function on 1..n is a sequence of length n.
LEMMA FunctionIsSeq ==
  ASSUME NEW S, NEW n \in Nat, NEW s \in [1..n -> S]
  PROVE  s \in Seq(S) /\ Len(s) = n
<1>1. s \in Seq(S)
  BY SeqDef
<1>2. Len(s) \in Nat /\ DOMAIN s = 1..Len(s)
  BY <1>1, LenProperties
<1>3. 1..n = 1..Len(s)
  BY <1>2
<1>4. Len(s) = n
  <2>1. CASE Len(s) > n
    <3>1. Len(s) \in 1..Len(s) /\ Len(s) \notin 1..n
      BY <1>2, <2>1
    <3>2. QED BY <1>3, <3>1
  <2>2. CASE Len(s) < n
    <3>1. n \in 1..n /\ n \notin 1..Len(s)
      BY <1>2, <2>2
    <3>2. QED BY <1>3, <3>1
  <2>3. QED BY <1>2, <2>1, <2>2
<1>5. QED BY <1>1, <1>4

-----------------------------------------------------------------------------
(* Induction and recursion on the natural numbers, for sets and functions  *)
(* in the place of operators.                                              *)

\* A set that holds 0 and with each number the next one holds all.
LEMMA SetInduction ==
  ASSUME NEW S, 0 \in S, \A n \in Nat : n \in S => n + 1 \in S
  PROVE  Nat \subseteq S
<1> DEFINE T == Nat \ S
           R == OpToRel(<, Nat)
<1> SUFFICES ASSUME T # {} PROVE FALSE
  OBVIOUS
<1>1. PICK x \in T : \A y \in T : ~(<<y, x>> \in R)
  <2> HIDE DEF R, T
  <2>1. IsWellFoundedOn(R, Nat)
    BY NatLessThanWellFounded DEF R
  <2>2. T \subseteq Nat
    BY DEF T
  <2>3. QED BY <2>1, <2>2, WFMin
<1>2. x \in Nat \ {0}
  OBVIOUS
<1>3. x - 1 \in Nat /\ x - 1 \notin S
  BY <1>2
<1>4. <<x - 1, x>> \in R
  BY <1>2, <1>3 DEF OpToRel
<1>5. QED BY <1>1, <1>3, <1>4

\* There is a function over V that begins with first and goes on, n times, as the
\* table next says.
Unfolds(V, first, n, next) ==
  \E f \in [0..n -> V] : f[0] = first /\ \A i \in 1..n : f[i] = next[i][f[i - 1]]

\* Every first value and every table have one.
LEMMA Recursion ==
  ASSUME NEW V, NEW first \in V, NEW n \in Nat, NEW next \in [1..n -> [V -> V]]
  PROVE  Unfolds(V, first, n, next)
<1> USE DEF Unfolds
<1> DEFINE S == {m \in Nat : m <= n => Unfolds(V, first, m, next)}
<1>1. 0 \in S
  <2> DEFINE f == [i \in 0..0 |-> first]
  <2>1. f \in [0..0 -> V] /\ f[0] = first
    OBVIOUS
  <2>2. \A i \in 1..0 : f[i] = next[i][f[i - 1]]
    OBVIOUS
  <2> HIDE DEF f
  <2>3. QED BY <2>1, <2>2
<1>2. ASSUME NEW m \in Nat, m \in S
      PROVE  m + 1 \in S
  <2> SUFFICES ASSUME m + 1 <= n
               PROVE  Unfolds(V, first, m + 1, next)
    OBVIOUS
  <2>1. PICK f \in [0..m -> V] : f[0] = first /\ \A i \in 1..m : f[i] = next[i][f[i - 1]]
    BY <1>2
  <2> DEFINE g == [i \in 0..(m + 1) |-> IF i = m + 1 THEN next[m + 1][f[m]] ELSE f[i]]
  <2>2. next[m + 1][f[m]] \in V
    <3>1. m + 1 \in 1..n /\ m \in 0..m
      OBVIOUS
    <3>2. QED BY <3>1, <2>1
  <2>3. g \in [0..(m + 1) -> V]
    BY <2>1, <2>2
  <2>4. g[0] = first
    BY <2>1
  <2>5. ASSUME NEW i \in 1..(m + 1)
        PROVE  g[i] = next[i][g[i - 1]]
    <3>1. CASE i = m + 1
      BY <3>1
    <3>2. CASE i # m + 1
      <4>1. /\ i \in 1..m /\ i - 1 \in 0..m
            /\ i \in 0..(m + 1) /\ i - 1 \in 0..(m + 1) /\ i - 1 # m + 1
        BY <3>2
      <4>2. g[i] = f[i] /\ g[i - 1] = f[i - 1]
        BY <3>2, <4>1
      <4>3. QED BY <2>1, <4>1, <4>2
    <3>3. QED BY <3>1, <3>2
  <2> HIDE DEF g
  <2>6. QED BY <2>3, <2>4, <2>5
<1> HIDE DEF S
<1>3. n \in S
  BY <1>1, <1>2, SetInduction
<1>4. QED BY <1>3 DEF S

\* Induction on sequences that grow at their end.
LEMMA AppendInduction ==
  ASSUME NEW S, NEW T, <<>> \in T,
         \A s \in Seq(S), e \in S : s \in T => Append(s, e) \in T
  PROVE  Seq(S) \subseteq T
<1> DEFINE L == {n \in Nat : \A s \in Seq(S) : Len(s) = n => s \in T}
<1>1. 0 \in L
  BY EmptySeq
<1>2. ASSUME NEW n \in Nat, n \in L
      PROVE  n + 1 \in L
  <2> SUFFICES ASSUME NEW s \in Seq(S), Len(s) = n + 1
               PROVE  s \in T
    OBVIOUS
  <2>1. s # <<>>
    BY EmptySeq
  <2>2. PICK u \in Seq(S), e \in S : s = Append(u, e)
    BY <2>1, SequenceEmptyOrAppend
  <2>3. Len(u) \in Nat /\ Len(s) = Len(u) + 1
    BY <2>2, AppendProperties, LenProperties
  <2>4. u \in T
    BY <1>2, <2>3
  <2>5. QED BY <2>2, <2>4
<1> HIDE DEF L
<1>3. Nat \subseteq L
  BY <1>1, <1>2, SetInduction
<1>4. \A s \in Seq(S) : Len(s) \in Nat
  BY LenProperties
<1>5. QED BY <1>3, <1>4 DEF L

-----------------------------------------------------------------------------
(* Division, and the digits of a number *)

\* The quotient and the remainder ...
LEMMA Division ==
  ASSUME NEW a \in Int, NEW b \in Nat \ {0}
  PROVE  /\ a \div b \in Int /\ a % b \in 0..(b - 1)
         /\ a = b * (a \div b) + (a % b)
OBVIOUS

\* ... are the only ones there are.
LEMMA DivisionIsUnique ==
  ASSUME NEW a \in Int, NEW b \in Nat \ {0}, NEW q \in Int, NEW r \in 0..(b - 1),
         a = b * q + r
  PROVE  a \div b = q /\ a % b = r
<1> DEFINE p == a \div b
           s == a % b
<1>1. p \in Int /\ s \in 0..(b - 1) /\ a = b * p + s
  BY Division
<1> HIDE DEF p, s
<1>2. b * (q - p) = s - r
  BY <1>1
<1>3. q - p = 0
  <2>1. CASE q - p >= 1
    <3>1. b * (q - p) >= b
      BY <1>1, <2>1
    <3>2. QED BY <1>1, <1>2, <3>1
  <2>2. CASE q - p <= -1
    <3>1. b * (q - p) <= -b
      BY <1>1, <2>2
    <3>2. QED BY <1>1, <1>2, <3>1
  <2>3. QED BY <1>1, <2>1, <2>2
<1>4. q = p /\ r = s
  BY <1>1, <1>2, <1>3
<1>5. QED BY <1>4 DEF p, s

\* Dividing twice.
LEMMA DivisionOfDivision ==
  ASSUME NEW a \in Int, NEW b \in Nat \ {0}, NEW c \in Nat \ {0}
  PROVE  (a \div b) \div c = a \div (b * c)
<1> DEFINE q == a \div b
           r == a % b
<1>1. q \in Int /\ r \in 0..(b - 1) /\ a = b * q + r
  BY Division
<1> HIDE DEF q, r
<1> DEFINE p == q \div c
           s == q % c
<1>2. p \in Int /\ s \in 0..(c - 1) /\ q = c * p + s
  BY <1>1, Division
<1> HIDE DEF p, s
<1>3. a = (b * c) * p + (b * s + r)
  BY <1>1, <1>2
<1>4. b * c \in Nat \ {0} /\ b * s + r \in 0..(b * c - 1)
  <2>1. b * s <= b * (c - 1) /\ b * s >= 0 /\ b * s \in Int
    BY <1>2
  <2>2. b * (c - 1) = b * c - b /\ b * c \in Nat /\ b * c # 0
    OBVIOUS
  <2>3. QED BY <1>1, <2>1, <2>2
<1>5. a \div (b * c) = p
  <2> DEFINE d == b * c
             t == b * s + r
  <2>1. d \in Nat \ {0} /\ t \in 0..(d - 1) /\ a = d * p + t
    BY <1>3, <1>4
  <2> HIDE DEF d, t
  <2>2. a \div d = p
    BY <1>2, <2>1, DivisionIsUnique
  <2>3. QED BY <2>2 DEF d
<1>6. QED BY <1>5 DEF p, q

\* Value conforms to the equation it is defined by.
LEMMA ValueDef ==
  ASSUME NEW base \in Nat, NEW s \in Seq(Nat)
  PROVE  \E f \in [0..Len(s) -> Nat] :
           /\ f[0] = 0
           /\ \A i \in 1..Len(s) : f[i] = base * f[i - 1] + s[i]
           /\ Value(base, s) = f[Len(s)]
<1> DEFINE Defines(f) ==
             f = [i \in 0..Len(s) |-> IF i = 0 THEN 0 ELSE base * f[i - 1] + s[i]]
<1>1. Len(s) \in Nat /\ \A i \in 1..Len(s) : s[i] \in Nat
  BY LenProperties, ElementOfSeq
<1>2. PICK next \in [1..Len(s) -> [Nat -> Nat]] :
         \A i \in 1..Len(s), v \in Nat : next[i][v] = base * v + s[i]
  <2> DEFINE table == [i \in 1..Len(s) |-> [v \in Nat |-> base * v + s[i]]]
  <2>1. table \in [1..Len(s) -> [Nat -> Nat]]
    BY <1>1
  <2>2. \A i \in 1..Len(s), v \in Nat : table[i][v] = base * v + s[i]
    OBVIOUS
  <2> HIDE DEF table
  <2>3. QED BY <2>1, <2>2
<1>3. PICK f \in [0..Len(s) -> Nat] : f[0] = 0 /\ \A i \in 1..Len(s) : f[i] = next[i][f[i - 1]]
  <2>1. 0 \in Nat /\ Len(s) \in Nat /\ next \in [1..Len(s) -> [Nat -> Nat]]
    BY <1>1, <1>2
  <2>2. Unfolds(Nat, 0, Len(s), next)
    BY <2>1, Recursion, Zenon
  <2>3. QED BY <2>2 DEF Unfolds
<1>4. \A i \in 1..Len(s) : f[i] = base * f[i - 1] + s[i]
  <2> TAKE i \in 1..Len(s)
  <2>1. i - 1 \in 0..Len(s)
    BY <1>1
  <2>2. f[i - 1] \in Nat
    BY <2>1
  <2>3. QED BY <1>2, <1>3, <2>2, Zenon
<1>5. Defines(f)
  <2>1. f = [i \in 0..Len(s) |-> f[i]]
    BY <1>3
  <2>2. ASSUME NEW i \in 0..Len(s)
        PROVE  f[i] = IF i = 0 THEN 0 ELSE base * f[i - 1] + s[i]
    <3>1. CASE i = 0
      BY <1>3, <3>1
    <3>2. CASE i # 0
      <4>1. i \in 1..Len(s)
        BY <1>1, <3>2
      <4>2. QED BY <1>4, <3>2, <4>1, Zenon
    <3>3. QED BY <3>1, <3>2
  <2>3. QED BY <2>1, <2>2, Zenon
<1> DEFINE g == CHOOSE g : Defines(g)
<1>6. Defines(g)
  BY <1>5
<1>7. Value(base, s) = g[Len(s)]
  BY DEF Value
<1> HIDE DEF g
<1>8. g[0] = 0 /\ \A i \in 1..Len(s) : g[i] = base * g[i - 1] + s[i]
  <2>1. \A i \in 0..Len(s) : g[i] = IF i = 0 THEN 0 ELSE base * g[i - 1] + s[i]
    BY <1>6, Zenon
  <2>2. 0 \in 0..Len(s) /\ \A i \in 1..Len(s) : i \in 0..Len(s) /\ i # 0
    BY <1>1
  <2>3. QED BY <2>1, <2>2, Zenon
<1>9. g \in [0..Len(s) -> Nat]
  <2> DEFINE S == {i \in Nat : i <= Len(s) => g[i] \in Nat}
  <2>1. 0 \in S
    BY <1>8
  <2>2. ASSUME NEW i \in Nat, i \in S
        PROVE  i + 1 \in S
    <3> SUFFICES ASSUME i + 1 <= Len(s)
                 PROVE  g[i + 1] \in Nat
      OBVIOUS
    <3>1. g[i] \in Nat /\ i + 1 \in 1..Len(s) /\ (i + 1) - 1 = i
      BY <1>1, <2>2
    <3>2. g[i + 1] = base * g[i] + s[i + 1]
      BY <1>8, <3>1
    <3>3. QED BY <1>1, <3>1, <3>2, SMTT(60)
  <2> HIDE DEF S
  <2>3. Nat \subseteq S
    BY <2>1, <2>2, SetInduction
  <2>4. \A i \in 0..Len(s) : g[i] \in Nat
    BY <1>1, <2>3 DEF S
  <2>5. g = [i \in 0..Len(s) |-> g[i]]
    BY <1>6
  <2>6. QED BY <2>4, <2>5
<1>10. QED BY <1>7, <1>8, <1>9

\* Digits are a number.
LEMMA ValueTyped ==
  ASSUME NEW base \in Nat, NEW s \in Seq(Nat)
  PROVE  Value(base, s) \in Nat
<1>1. PICK f \in [0..Len(s) -> Nat] : Value(base, s) = f[Len(s)]
  BY ValueDef
<1>2. Len(s) \in 0..Len(s)
  BY LenProperties
<1>3. QED BY <1>1, <1>2

\* No digits.
LEMMA ValueEmpty ==
  ASSUME NEW base \in Nat
  PROVE  Value(base, <<>>) = 0
<1>1. <<>> \in Seq(Nat) /\ Len(<<>>) = 0
  BY EmptySeq
<1>2. QED BY <1>1, ValueDef, ZenonT(60)

\* One more digit.
LEMMA ValueAppend ==
  ASSUME NEW base \in Nat, NEW s \in Seq(Nat), NEW d \in Nat
  PROVE  Value(base, Append(s, d)) = base * Value(base, s) + d
<1> DEFINE longer == Append(s, d)
           n == Len(s)
<1>1. /\ longer \in Seq(Nat) /\ Len(longer) = n + 1 /\ n \in Nat
      /\ longer[n + 1] = d /\ \A i \in 1..n : longer[i] = s[i]
  BY AppendProperties, LenProperties
<1>2. PICK f \in [0..n -> Nat] : /\ f[0] = 0 /\ Value(base, s) = f[n]
                                 /\ \A i \in 1..n : f[i] = base * f[i - 1] + s[i]
  BY ValueDef
<1> HIDE DEF longer
<1>3. PICK g \in [0..Len(longer) -> Nat] :
         /\ g[0] = 0 /\ Value(base, longer) = g[Len(longer)]
         /\ \A i \in 1..Len(longer) : g[i] = base * g[i - 1] + longer[i]
  BY <1>1, ValueDef
<1> HIDE DEF n
<1> DEFINE S == {i \in Nat : i <= n => g[i] = f[i]}
<1>4. 0 \in S
  BY <1>2, <1>3
<1>5. ASSUME NEW i \in Nat, i \in S
      PROVE  i + 1 \in S
  <2> SUFFICES ASSUME i + 1 <= n PROVE g[i + 1] = f[i + 1]
    OBVIOUS
  <2>1. i + 1 \in 1..n /\ i + 1 \in 1..Len(longer) /\ (i + 1) - 1 = i /\ g[i] = f[i]
    BY <1>1, <1>5
  <2>2. f[i + 1] = base * f[i] + s[i + 1] /\ g[i + 1] = base * g[i] + longer[i + 1]
    BY <1>2, <1>3, <2>1
  <2>3. QED BY <1>1, <2>1, <2>2
<1> HIDE DEF S
<1>6. n \in S
  BY <1>1, <1>4, <1>5, SetInduction
<1>7. g[n] = f[n]
  BY <1>1, <1>6 DEF S
<1>8. n + 1 \in 1..Len(longer) /\ (n + 1) - 1 = n
  BY <1>1
<1>9. g[n + 1] = base * g[n] + d
  BY <1>1, <1>3, <1>8
<1>10. QED BY <1>1, <1>2, <1>3, <1>7, <1>9 DEF longer

\* A one and n zeros are a sequence, and one zero more appends it.
LEMMA OneAndZeros ==
  ASSUME NEW n \in Nat
  PROVE  LET zeros(m) == [i \in 1..(m + 1) |-> IF i = 1 THEN 1 ELSE 0]
         IN  /\ zeros(n) \in Seq(Nat)
             /\ zeros(n + 1) = Append(zeros(n), 0)
             /\ zeros(0) = Append(<<>>, 1)
<1> DEFINE zeros(m) == [i \in 1..(m + 1) |-> IF i = 1 THEN 1 ELSE 0]
<1>1. ASSUME NEW m \in Nat
      PROVE  /\ zeros(m) \in Seq(Nat) /\ Len(zeros(m)) = m + 1
             /\ \A i \in 1..(m + 1) : zeros(m)[i] = IF i = 1 THEN 1 ELSE 0
  <2>1. zeros(m) \in [1..(m + 1) -> Nat] /\ m + 1 \in Nat
    OBVIOUS
  <2>2. \A i \in 1..(m + 1) : zeros(m)[i] = IF i = 1 THEN 1 ELSE 0
    OBVIOUS
  <2> HIDE DEF zeros
  <2>3. QED BY <2>1, <2>2, FunctionIsSeq
<1> HIDE DEF zeros
<1>2. zeros(n + 1) = Append(zeros(n), 0)
  <2> DEFINE t == Append(zeros(n), 0)
  <2>1. /\ t \in Seq(Nat) /\ Len(t) = n + 2
        /\ t[n + 2] = 0 /\ \A i \in 1..(n + 1) : t[i] = zeros(n)[i]
    <3>1. zeros(n) \in Seq(Nat) /\ Len(zeros(n)) = n + 1 /\ 0 \in Nat /\ (n + 1) + 1 = n + 2
      BY <1>1
    <3>2. QED BY <3>1, AppendProperties
  <2>2. /\ zeros(n + 1) \in Seq(Nat) /\ Len(zeros(n + 1)) = n + 2
        /\ \A i \in 1..(n + 2) : zeros(n + 1)[i] = IF i = 1 THEN 1 ELSE 0
    <3>1. n + 1 \in Nat /\ (n + 1) + 1 = n + 2
      OBVIOUS
    <3>2. QED BY <1>1, <3>1
  <2>3. ASSUME NEW i \in 1..(n + 2)
        PROVE  zeros(n + 1)[i] = t[i]
    <3>1. CASE i = n + 2
      BY <2>1, <2>2, <3>1
    <3>2. CASE i # n + 2
      <4>1. i \in 1..(n + 1)
        BY <3>2
      <4>2. QED BY <1>1, <2>1, <2>2, <4>1
    <3>3. QED BY <3>1, <3>2
  <2> HIDE DEF t
  <2>4. zeros(n + 1) = t
    BY <2>1, <2>2, <2>3, SeqEqual
  <2>5. QED BY <2>4 DEF t
<1>3. zeros(0) = Append(<<>>, 1)
  <2>1. /\ zeros(0) \in Seq(Nat) /\ Len(zeros(0)) = 1
        /\ zeros(0)[1] = 1
    <3>1. 0 \in Nat /\ 0 + 1 = 1 /\ 1 \in 1..(0 + 1)
      OBVIOUS
    <3>2. QED BY <1>1, <3>1
  <2>2. Append(<<>>, 1) \in Seq(Nat) /\ Len(Append(<<>>, 1)) = 1 /\ Append(<<>>, 1)[1] = 1
    BY EmptySeq, AppendProperties
  <2>3. \A i \in 1..1 : zeros(0)[i] = Append(<<>>, 1)[i]
    BY <2>1, <2>2
  <2>4. QED BY <2>1, <2>2, <2>3, SeqEqual
<1>4. zeros(n) \in Seq(Nat)
  BY <1>1
<1>5. QED BY <1>2, <1>3, <1>4 DEF zeros

\* The weight of the last digit, and that of each before it.
LEMMA Weights ==
  ASSUME NEW base \in Nat \ {0}, NEW n \in Nat
  PROVE  /\ Weight(base, 0) = 1
         /\ Weight(base, n + 1) = base * Weight(base, n)
<1> DEFINE zeros(m) == [i \in 1..(m + 1) |-> IF i = 1 THEN 1 ELSE 0]
<1>1. /\ zeros(n) \in Seq(Nat)
      /\ zeros(n + 1) = Append(zeros(n), 0)
      /\ zeros(0) = Append(<<>>, 1)
  BY OneAndZeros
<1>2. \A m \in Nat : Weight(base, m) = Value(base, zeros(m))
  BY DEF Weight
<1> HIDE DEF zeros
<1>3. Value(base, zeros(n)) \in Nat /\ base \in Nat
  BY <1>1, ValueTyped
<1>4. Value(base, Append(zeros(n), 0)) = base * Value(base, zeros(n)) + 0
  BY <1>1, <1>3, ValueAppend
<1>5. Value(base, Append(<<>>, 1)) = base * Value(base, <<>>) + 1
  <2>1. <<>> \in Seq(Nat) /\ 1 \in Nat
    BY EmptySeq
  <2>2. QED BY <1>3, <2>1, ValueAppend
<1>6. Value(base, <<>>) = 0
  BY <1>3, ValueEmpty
<1>7. Weight(base, n + 1) = base * Weight(base, n)
  <2>1. Weight(base, n + 1) = Value(base, zeros(n + 1)) /\ Weight(base, n) = Value(base, zeros(n))
    BY <1>2
  <2>2. Weight(base, n + 1) = base * Weight(base, n) + 0
    BY <1>1, <1>4, <2>1, Zenon
  <2>3. Weight(base, n) \in Nat
    BY <1>3, <2>1
  <2>4. QED BY <2>2, <2>3
<1>8. Weight(base, 0) = 1
  BY <1>1, <1>2, <1>3, <1>5, <1>6
<1>9. QED BY <1>7, <1>8

\* A weight can be divided by.
LEMMA WeightTyped ==
  ASSUME NEW base \in Nat \ {0}
  PROVE  \A n \in Nat : Weight(base, n) \in Nat \ {0}
<1> DEFINE S == {n \in Nat : Weight(base, n) \in Nat \ {0}}
<1>1. 0 \in S
  BY Weights
<1>2. ASSUME NEW n \in Nat, n \in S
      PROVE  n + 1 \in S
  <2>1. Weight(base, n + 1) = base * Weight(base, n)
    BY Weights
  <2>2. base * Weight(base, n) \in Nat \ {0}
    BY <1>2
  <2>3. QED BY <2>1, <2>2
<1> HIDE DEF S
<1>3. Nat \subseteq S
  BY <1>1, <1>2, SetInduction
<1>4. QED BY <1>3 DEF S

\* The digits of a number with one digit more.
LEMMA DigitsNext ==
  ASSUME NEW base \in Nat \ {0}, NEW n \in Nat, NEW w \in Nat
  PROVE  Digits(base, n + 1, w) = Append(Digits(base, n, w \div base), w % base)
<1> DEFINE longer == Digits(base, n + 1, w)
           shorter == Digits(base, n, w \div base)
<1>1. w \div base \in Nat /\ w % base \in Nat
  BY Division
<1>2. \A x \in Nat, m \in Nat : Weight(base, m) \in Nat \ {0} /\ x \div Weight(base, m) \in Nat
                                /\ (x \div Weight(base, m)) % base \in Nat
  <2> TAKE x \in Nat, m \in Nat
  <2>1. Weight(base, m) \in Nat \ {0}
    BY WeightTyped
  <2>2. \A b \in Nat \ {0} : x \div b \in Nat /\ x % b \in Nat
    OBVIOUS
  <2>3. x \div Weight(base, m) \in Nat
    BY <2>1, <2>2
  <2>4. \A y \in Nat : y % base \in Nat
    OBVIOUS
  <2>5. QED BY <2>1, <2>3, <2>4
<1>3. /\ longer \in Seq(Nat) /\ Len(longer) = n + 1
      /\ \A i \in 1..(n + 1) : longer[i] = (w \div Weight(base, n + 1 - i)) % base
  <2>1. longer = [i \in 1..(n + 1) |-> (w \div Weight(base, n + 1 - i)) % base]
    BY DEF Digits
  <2>2. \A i \in 1..(n + 1) : n + 1 - i \in Nat
    OBVIOUS
  <2>3. \A i \in 1..(n + 1) : (w \div Weight(base, n + 1 - i)) % base \in Nat
    BY <1>2, <2>2
  <2> HIDE DEF longer
  <2>4. longer \in [1..(n + 1) -> Nat] /\ n + 1 \in Nat
    BY <2>1, <2>3
  <2>5. QED BY <2>1, <2>4, FunctionIsSeq
<1>4. /\ shorter \in Seq(Nat) /\ Len(shorter) = n
      /\ \A i \in 1..n : shorter[i] = ((w \div base) \div Weight(base, n - i)) % base
  <2>1. shorter = [i \in 1..n |-> ((w \div base) \div Weight(base, n - i)) % base]
    BY DEF Digits
  <2>2. \A i \in 1..n : n - i \in Nat
    OBVIOUS
  <2>3. \A i \in 1..n : ((w \div base) \div Weight(base, n - i)) % base \in Nat
    BY <1>1, <1>2, <2>2
  <2> HIDE DEF shorter
  <2>4. shorter \in [1..n -> Nat]
    BY <2>1, <2>3
  <2>5. QED BY <2>1, <2>4, FunctionIsSeq
<1> DEFINE t == Append(shorter, w % base)
<1> HIDE DEF longer, shorter
<1>5. /\ t \in Seq(Nat) /\ Len(t) = n + 1 /\ t[n + 1] = w % base
      /\ \A i \in 1..n : t[i] = shorter[i]
  BY <1>1, <1>4, AppendProperties
<1> HIDE DEF t
<1>6. ASSUME NEW i \in 1..(n + 1)
      PROVE  longer[i] = t[i]
  <2>1. CASE i = n + 1
    <3>1. n + 1 - i = 0 /\ Weight(base, 0) = 1 /\ w \div 1 = w
      BY <2>1, Weights
    <3>2. QED BY <1>3, <1>5, <2>1, <3>1
  <2>2. CASE i # n + 1
    <3> DEFINE m == n - i
    <3>1. m \in Nat /\ i \in 1..n /\ n + 1 - i = m + 1
      BY <2>2
    <3> HIDE DEF m
    <3>2. Weight(base, m + 1) = base * Weight(base, m) /\ Weight(base, m) \in Nat \ {0}
      BY <3>1, Weights, WeightTyped
    <3>3. (w \div base) \div Weight(base, m) = w \div (base * Weight(base, m))
      BY <3>2, DivisionOfDivision
    <3>4. longer[i] = (w \div Weight(base, m + 1)) % base
      BY <1>3, <3>1, Zenon
    <3>5. t[i] = ((w \div base) \div Weight(base, m)) % base
      BY <1>4, <1>5, <3>1 DEF m
    <3>6. QED BY <3>2, <3>3, <3>4, <3>5, Zenon
  <2>3. QED BY <2>1, <2>2
<1>7. longer = t
  BY <1>3, <1>5, <1>6, SeqEqual
<1>8. QED BY <1>7 DEF longer, t, shorter

\* The last n digits of a number below the weight of n digits are the number.
LEMMA ValueOfDigits ==
  ASSUME NEW base \in Nat \ {0}
  PROVE  \A n \in Nat : \A w \in 0..(Weight(base, n) - 1) :
           /\ Digits(base, n, w) \in Seq(Nat) /\ Len(Digits(base, n, w)) = n
           /\ Value(base, Digits(base, n, w)) = w
<1> DEFINE S == {n \in Nat : \A w \in 0..(Weight(base, n) - 1) :
                   /\ Digits(base, n, w) \in Seq(Nat) /\ Len(Digits(base, n, w)) = n
                   /\ Value(base, Digits(base, n, w)) = w}
<1>1. 0 \in S
  <2> SUFFICES ASSUME NEW w \in 0..(Weight(base, 0) - 1)
               PROVE  /\ Digits(base, 0, w) \in Seq(Nat) /\ Len(Digits(base, 0, w)) = 0
                      /\ Value(base, Digits(base, 0, w)) = w
    OBVIOUS
  <2>1. w = 0
    BY Weights
  <2>2. Digits(base, 0, w) = <<>>
    <3>1. 1..0 = {}
      OBVIOUS
    <3>2. \A f : [i \in {} |-> f[i]] = <<>>
      OBVIOUS
    <3>3. Digits(base, 0, w) \in [1..0 -> Nat]
      BY DEF Digits
    <3>4. Digits(base, 0, w) \in Seq(Nat) /\ Len(Digits(base, 0, w)) = 0
      BY <3>3, FunctionIsSeq
    <3>5. QED BY <3>4, EmptySeq
  <2>3. QED BY <2>1, <2>2, EmptySeq, ValueEmpty
<1>2. ASSUME NEW n \in Nat, n \in S
      PROVE  n + 1 \in S
  <2> SUFFICES ASSUME NEW w \in 0..(Weight(base, n + 1) - 1)
               PROVE  /\ Digits(base, n + 1, w) \in Seq(Nat) /\ Len(Digits(base, n + 1, w)) = n + 1
                      /\ Value(base, Digits(base, n + 1, w)) = w
    OBVIOUS
  <2> DEFINE q == w \div base
             r == w % base
  <2>1. Weight(base, n) \in Nat \ {0} /\ Weight(base, n + 1) = base * Weight(base, n)
        /\ Weight(base, n + 1) \in Nat
    <3>1. n + 1 \in Nat
      OBVIOUS
    <3>2. QED BY <3>1, Weights, WeightTyped
  <2>2. w \in Nat /\ w < base * Weight(base, n)
    BY <2>1
  <2>3. q \in Int /\ r \in 0..(base - 1) /\ w = base * q + r
    <3>1. w \in Int
      BY <2>2
    <3>2. QED BY <3>1, Division
  <2>4. Digits(base, n + 1, w) = Append(Digits(base, n, q), r)
    BY <2>2, DigitsNext
  <2> HIDE DEF q, r
  <2>5. q \in 0..(Weight(base, n) - 1)
    <3>1. CASE q < 0
      <4>1. base * q <= -base
        BY <2>3, <3>1
      <4>2. QED BY <2>2, <2>3, <4>1
    <3>2. CASE q >= Weight(base, n)
      <4>1. base * q >= base * Weight(base, n)
        BY <2>1, <2>3, <3>2
      <4>2. QED BY <2>1, <2>2, <2>3, <4>1
    <3>3. QED BY <2>1, <2>3, <3>1, <3>2
  <2>6. /\ Digits(base, n, q) \in Seq(Nat) /\ Len(Digits(base, n, q)) = n
        /\ Value(base, Digits(base, n, q)) = q
    BY <1>2, <2>5
  <2>7. r \in Nat /\ base \in Nat
    BY <2>3
  <2>8. Value(base, Append(Digits(base, n, q), r)) = base * Value(base, Digits(base, n, q)) + r
    BY <2>6, <2>7, ValueAppend
  <2>9. Append(Digits(base, n, q), r) \in Seq(Nat) /\ Len(Append(Digits(base, n, q), r)) = n + 1
    BY <2>6, <2>7, AppendProperties
  <2>10. QED BY <2>3, <2>4, <2>6, <2>8, <2>9
<1> HIDE DEF S
<1>3. Nat \subseteq S
  BY <1>1, <1>2, SetInduction
<1>4. QED BY <1>3 DEF S

\* Digits are below the weight of as many, and the digits of their number.
LEMMA DigitsOfValue ==
  ASSUME NEW base \in Nat \ {0}
  PROVE  \A s \in Seq(0..(base - 1)) :
           /\ Value(base, s) \in 0..(Weight(base, Len(s)) - 1)
           /\ Digits(base, Len(s), Value(base, s)) = s
<1> DEFINE D == 0..(base - 1)
           T == {s \in Seq(D) : /\ Value(base, s) \in 0..(Weight(base, Len(s)) - 1)
                                /\ Digits(base, Len(s), Value(base, s)) = s}
<1>1. <<>> \in T
  <2>1. <<>> \in Seq(D) /\ Len(<<>>) = 0
    BY EmptySeq
  <2>2. Value(base, <<>>) = 0 /\ Weight(base, 0) = 1
    BY ValueEmpty, Weights
  <2>3. Digits(base, 0, 0) = <<>>
    <3>1. Digits(base, 0, 0) \in [1..0 -> Nat]
      BY DEF Digits
    <3>2. Digits(base, 0, 0) \in Seq(Nat) /\ Len(Digits(base, 0, 0)) = 0
      BY <3>1, FunctionIsSeq
    <3>3. QED BY <3>2, EmptySeq
  <2>4. QED BY <2>1, <2>2, <2>3
<1>2. ASSUME NEW s \in Seq(D), NEW d \in D, s \in T
      PROVE  Append(s, d) \in T
  <2> DEFINE v == Value(base, s)
             n == Len(s)
             w == Value(base, Append(s, d))
             longer == Append(s, d)
  <2>1. /\ longer \in Seq(D) /\ Len(longer) = n + 1 /\ n \in Nat
        /\ s \in Seq(Nat) /\ d \in Nat /\ base \in Nat
    BY AppendProperties, LenProperties
  <2>2. w = base * v + d
    BY <2>1, ValueAppend
  <2>3. v \in 0..(Weight(base, n) - 1) /\ Digits(base, n, v) = s
    BY <1>2
  <2> HIDE DEF v, n, w, longer, D, T
  <2>4. d \in 0..(base - 1)
    BY DEF D
  <2>5. Weight(base, n) \in Nat \ {0} /\ Weight(base, n + 1) = base * Weight(base, n)
    BY <2>1, Weights, WeightTyped
  <2>6. w \in Nat /\ w < base * Weight(base, n)
    <3>1. base * v <= base * (Weight(base, n) - 1) /\ base * v \in Nat
      BY <2>1, <2>3, <2>5, SMTT(60)
    <3>2. base * (Weight(base, n) - 1) = base * Weight(base, n) - base
          /\ base * Weight(base, n) \in Nat
      BY <2>5
    <3>3. QED BY <2>2, <2>4, <2>5, <3>1, <3>2
  <2>7. w \div base = v /\ w % base = d
    <3>1. v \in Int /\ w \in Int
      BY <2>3, <2>5, <2>6
    <3>2. QED BY <2>2, <2>4, <3>1, DivisionIsUnique, Zenon
  <2>8. Digits(base, n + 1, w) = longer
    <3>1. Digits(base, n + 1, w) = Append(Digits(base, n, w \div base), w % base)
      BY <2>1, <2>6, DigitsNext
    <3>2. QED BY <2>3, <2>7, <3>1 DEF longer
  <2>9. w \in 0..(Weight(base, n + 1) - 1)
    BY <2>5, <2>6
  <2>10. QED BY <2>1, <2>8, <2>9 DEF T, w, longer
<1> HIDE DEF T, D
<1>3. Seq(D) \subseteq T
  BY <1>1, <1>2, AppendInduction
<1>4. QED BY <1>3 DEF T, D
=============================================================================
