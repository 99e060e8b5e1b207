--------------------------- MODULE DataPathProofs ---------------------------
(***************************************************************************)
(* Proofs about DataPath, for words of any size and any even base, on      *)
(* hosts of any byte order.                                                *)
(***************************************************************************)
EXTENDS DataPath, SequenceLemmas

-----------------------------------------------------------------------------
(* Words *)

\* Half a word: the first number that a signed word does not hold.
Half == Word \div 2

\* A word has an even number of values.
LEMMA Words ==
  /\ ByteBase \in Nat \ {0} /\ ByteBase >= 2 /\ 1 \in Bytes
  /\ Word \in Nat \ {0} /\ Half \in Nat \ {0} /\ Word = Half + Half
  /\ Times = -Half..(Half - 1)
<1> DEFINE n == k_msec_count_size - 1
           half == ByteBase \div 2
           weight == Weight(ByteBase, n)
<1>1. /\ ByteBase \in Nat \ {0} /\ ByteBase >= 2 /\ ByteBase = half + half
      /\ half \in Nat \ {0} /\ n \in Nat /\ n + 1 = k_msec_count_size
  BY WordsAreProper
<1> HIDE DEF n, half
<1>2. weight \in Nat \ {0} /\ Weight(ByteBase, n + 1) = ByteBase * weight
  BY <1>1, Weights, WeightTyped
<1>3. Word = ByteBase * weight
  BY <1>1, <1>2 DEF Word
<1> HIDE DEF weight
<1>4. Word = half * weight + half * weight /\ half * weight \in Nat \ {0}
  BY <1>1, <1>2, <1>3
<1>5. Half = half * weight
  BY <1>4 DEF Half
<1>6. Times = -Half..(Half - 1)
  BY DEF Times, Half
<1>7. QED BY <1>1, <1>4, <1>5, <1>6 DEF Bytes

\* A number in an unsigned word, and a number in a signed one.
LEMMA WordTypes ==
  ASSUME NEW i \in Int
  PROVE  Unsigned(i) \in 0..(Word - 1) /\ Wrap(i) \in Times
<1>1. \A n \in Int, w \in Nat \ {0} : n % w \in 0..(w - 1)
  OBVIOUS
<1>2. i + Half \in Int /\ i \in Int
  BY Words
<1>3. Unsigned(i) \in 0..(Word - 1) /\ (i + Half) % Word \in 0..(Word - 1)
  BY <1>1, <1>2, Words DEF Unsigned
<1>4. Wrap(i) = ((i + Half) % Word) - Half
  BY DEF Wrap, Half
<1>5. QED BY <1>3, <1>4, Words

\* A number that a signed word holds is kept there ...
LEMMA WrapKeeps ==
  ASSUME NEW i \in Times
  PROVE  Wrap(i) = i
<1>1. \A n \in Nat, w \in Nat \ {0} : n < w => n % w = n
  OBVIOUS
<1>2. i \in Int /\ i + Half \in Nat /\ i + Half < Word
  BY Words
<1>3. (i + Half) % Word = i + Half
  BY <1>1, <1>2, Words
<1>4. Wrap(i) = ((i + Half) % Word) - Half
  BY DEF Wrap, Half
<1>5. QED BY <1>2, <1>3, <1>4, Words

\* ... also on its way through an unsigned one.
LEMMA WrapOfUnsigned ==
  ASSUME NEW i \in Times
  PROVE  Wrap(Unsigned(i)) = i
<1>1. i \in Int /\ -Half <= i /\ i < Half
  BY Words
<1>2. CASE i >= 0
  <2>1. i % Word = i
    <3>1. \A n \in Nat, w \in Nat \ {0} : n < w => n % w = n
      OBVIOUS
    <3>2. QED BY <1>1, <1>2, <3>1, Words
  <2>2. QED BY <2>1, WrapKeeps DEF Unsigned
<1>3. CASE i < 0
  <2>1. i % Word = i + Word
    <3>1. i = Word * (-1) + (i + Word) /\ i + Word \in 0..(Word - 1)
      BY <1>1, <1>3, Words
    <3>2. -1 \in Int /\ i \in Int /\ Word \in Nat \ {0}
      BY <1>1, Words
    <3>3. QED BY <3>1, <3>2, DivisionIsUnique, Zenon
  <2>2. (i + Word + Half) % Word = i + Half
    <3>1. i + Word + Half = Word * 1 + (i + Half) /\ i + Half \in 0..(Word - 1)
      BY <1>1, <1>3, Words
    <3>2. 1 \in Int /\ i + Word + Half \in Int
      BY <1>1, Words
    <3>3. QED BY <3>1, <3>2, Words, DivisionIsUnique, ZenonT(60)
  <2>3. Wrap(Unsigned(i)) = ((i + Word + Half) % Word) - Half
    BY <2>1 DEF Wrap, Unsigned, Half
  <2>4. QED BY <1>1, <2>2, <2>3, Words
<1>4. QED BY <1>1, <1>2, <1>3

\* The second half of an unsigned word are the negative numbers of a signed one.
LEMMA WrapOfWord ==
  ASSUME NEW i \in 0..(Word - 1)
  PROVE  /\ Wrap(i) = IF 2 * i >= Word THEN i - Word ELSE i
         /\ Wrap(i) \in Int
<1>1. i \in Int /\ Wrap(i) \in Int
  BY Words, WordTypes
<1>2. CASE 2 * i >= Word
  <2>1. i - Word \in Times
    BY <1>2, Words
  <2>2. Unsigned(i - Word) = i
    <3>1. i - Word = Word * (-1) + i
      BY <1>1, Words
    <3>2. -1 \in Int /\ i - Word \in Int /\ Word \in Nat \ {0}
      BY <1>1, Words
    <3>3. (i - Word) % Word = i
      BY <3>1, <3>2, DivisionIsUnique, ZenonT(60)
    <3>4. QED BY <3>3 DEF Unsigned
  <2>3. Wrap(i) = i - Word
    BY <2>1, <2>2, WrapOfUnsigned
  <2>4. QED BY <1>1, <1>2, <2>3
<1>3. CASE ~(2 * i >= Word)
  <2>1. i \in Times
    BY <1>1, <1>3, Words
  <2>2. QED BY <1>1, <1>3, <2>1, WrapKeeps
<1>4. QED BY <1>2, <1>3

\* What does not fit is lost in whole words.
LEMMA WrapLosesWords ==
  ASSUME NEW i \in Int
  PROVE  \E m \in Int : Wrap(i) = i + Word * m
<1> DEFINE q == (i + Half) \div Word
           r == (i + Half) % Word
<1>1. i + Half \in Int /\ Word \in Nat \ {0} /\ Half \in Nat
  BY Words
<1>2. q \in Int /\ r \in 0..(Word - 1) /\ i + Half = Word * q + r
  BY <1>1, Division
<1>3. Wrap(i) = r - Half
  BY DEF Wrap, Half
<1> HIDE DEF q, r
<1>4. Wrap(i) = i + Word * (-q)
  BY <1>1, <1>2, <1>3
<1>5. -q \in Int
  BY <1>2
<1>6. QED BY <1>4, <1>5

\* The division of C++ cuts towards zero.
LEMMA QuotientCuts ==
  ASSUME NEW i \in Times
  PROVE  /\ Quotient(i, NsPerMs) \in Times /\ Quotient(i, NsPerMs) * NsPerMs \in Times
         /\ i >= 0 => /\ Quotient(i, NsPerMs) \in Nat
                      /\ Quotient(i, NsPerMs) * NsPerMs <= i
                      /\ i < Quotient(i, NsPerMs) * NsPerMs + NsPerMs
<1>1. NsPerMs \in Nat \ {0} /\ i \in Int
  BY WordsAreProper, Words
<1>2. ASSUME NEW n \in Nat
      PROVE  /\ n \div NsPerMs \in Nat /\ n \div NsPerMs <= n
             /\ (n \div NsPerMs) * NsPerMs \in Nat
             /\ (n \div NsPerMs) * NsPerMs <= n /\ n < (n \div NsPerMs) * NsPerMs + NsPerMs
  <2> DEFINE q == n \div NsPerMs
             r == n % NsPerMs
  <2>1. q \in Int /\ r \in 0..(NsPerMs - 1) /\ n = NsPerMs * q + r
    BY <1>1, Division
  <2>2. q >= 0
    BY <1>1
  <2> HIDE DEF q, r
  <2>3. q * NsPerMs >= q /\ q * NsPerMs = NsPerMs * q /\ q * NsPerMs \in Nat
    BY <1>1, <2>1, <2>2
  <2>4. q \in Nat /\ q <= n /\ q * NsPerMs \in Nat /\ q * NsPerMs <= n /\ n < q * NsPerMs + NsPerMs
    BY <1>1, <2>1, <2>2, <2>3
  <2>5. QED BY <2>4 DEF q
<1>3. CASE i >= 0
  <2>1. Quotient(i, NsPerMs) = i \div NsPerMs /\ i \in Nat
    BY <1>1, <1>3 DEF Quotient
  <2> DEFINE q == i \div NsPerMs
             p == q * NsPerMs
  <2>2. q \in Nat /\ q <= i /\ p \in Nat /\ p <= i /\ i < p + NsPerMs
    BY <1>2, <2>1
  <2> HIDE DEF q, p
  <2>3. q \in Times /\ p \in Times
    BY <1>1, <2>2, Words
  <2>4. QED BY <2>1, <2>2, <2>3 DEF q, p
<1>4. CASE i < 0
  <2> DEFINE q == (-i) \div NsPerMs
             p == q * NsPerMs
  <2>1. Quotient(i, NsPerMs) = -q /\ -i \in Nat
    BY <1>1, <1>4 DEF Quotient
  <2>2. q \in Nat /\ q <= -i /\ p \in Nat /\ p <= -i
    BY <1>2, <2>1
  <2>3. (-q) * NsPerMs = -p
    BY <1>1, <2>2
  <2> HIDE DEF q, p
  <2>4. -q \in Times /\ -p \in Times
    BY <1>1, <1>4, <2>2, Words
  <2>5. Quotient(i, NsPerMs) \in Times /\ Quotient(i, NsPerMs) * NsPerMs \in Times
    BY <2>1, <2>3, <2>4, Zenon
  <2>6. QED BY <1>1, <1>4, <2>5
<1>5. QED BY <1>1, <1>3, <1>4

-----------------------------------------------------------------------------
(* Bytes *)

\* Reverse turns a sequence round, and twice back.
LEMMA ReverseTwice ==
  ASSUME NEW S, NEW s \in Seq(S)
  PROVE  Reverse(s) \in Seq(S) /\ Len(Reverse(s)) = Len(s) /\ Reverse(Reverse(s)) = s
<1>1. ASSUME NEW u \in Seq(S)
      PROVE  /\ Reverse(u) \in Seq(S) /\ Len(Reverse(u)) = Len(u)
             /\ \A i \in 1..Len(u) : Reverse(u)[i] = u[(Len(u) - i) + 1]
  <2>1. Len(u) \in Nat /\ \A i \in 1..Len(u) : u[i] \in S
    BY LenProperties, ElementOfSeq
  <2>2. Reverse(u) = [i \in 1..Len(u) |-> u[(Len(u) - i) + 1]]
    BY DEF Reverse
  <2>3. \A i \in 1..Len(u) : (Len(u) - i) + 1 \in 1..Len(u)
    BY <2>1
  <2>4. Reverse(u) \in [1..Len(u) -> S]
    BY <2>1, <2>2, <2>3
  <2>5. QED BY <2>1, <2>2, <2>4, FunctionIsSeq
<1> DEFINE r == Reverse(s)
<1>2. /\ r \in Seq(S) /\ Len(r) = Len(s)
      /\ \A i \in 1..Len(s) : r[i] = s[(Len(s) - i) + 1]
  BY <1>1
<1>3. /\ Reverse(r) \in Seq(S) /\ Len(Reverse(r)) = Len(s)
      /\ \A i \in 1..Len(s) : Reverse(r)[i] = r[(Len(s) - i) + 1]
  BY <1>1, <1>2
<1> HIDE DEF r
<1>4. ASSUME NEW i \in 1..Len(s)
      PROVE  Reverse(r)[i] = s[i]
  <2>1. Len(s) \in Nat
    BY LenProperties
  <2>2. (Len(s) - i) + 1 \in 1..Len(s) /\ (Len(s) - ((Len(s) - i) + 1)) + 1 = i
    BY <2>1
  <2>3. r[(Len(s) - i) + 1] = s[i]
    BY <1>2, <2>2
  <2>4. QED BY <1>3, <2>3
<1>5. Reverse(r) = s
  BY <1>3, <1>4, SeqEqual
<1>6. QED BY <1>2, <1>5 DEF r

\* The bytes of a word, and the word of as many bytes.
LEMMA BytesOfWord ==
  ASSUME NEW w \in 0..(Word - 1)
  PROVE  LET digits == Digits(ByteBase, k_msec_count_size, w)
         IN  /\ digits \in Seq(Bytes) /\ Len(digits) = k_msec_count_size
             /\ Value(ByteBase, digits) = w
<1> DEFINE digits == Digits(ByteBase, k_msec_count_size, w)
<1>1. k_msec_count_size \in Nat /\ w \in 0..(Weight(ByteBase, k_msec_count_size) - 1)
  BY WordsAreProper DEF Word
<1>2. /\ digits \in Seq(Nat) /\ Len(digits) = k_msec_count_size
      /\ Value(ByteBase, digits) = w
  BY <1>1, Words, ValueOfDigits
<1>3. digits = [i \in 1..k_msec_count_size |->
                  (w \div Weight(ByteBase, k_msec_count_size - i)) % ByteBase]
  BY DEF Digits
<1>4. ASSUME NEW i \in 1..k_msec_count_size
      PROVE  digits[i] \in Bytes
  <2>1. k_msec_count_size - i \in Nat
    BY <1>1
  <2>2. Weight(ByteBase, k_msec_count_size - i) \in Nat \ {0}
    BY <2>1, Words, WeightTyped
  <2>3. \A n \in Nat, b \in Nat \ {0} : n \div b \in Nat /\ n % b \in 0..(b - 1)
    OBVIOUS
  <2>4. w \in Nat
    BY Words
  <2>5. w \div Weight(ByteBase, k_msec_count_size - i) \in Nat
    BY <2>2, <2>3, <2>4
  <2>6. (w \div Weight(ByteBase, k_msec_count_size - i)) % ByteBase \in 0..(ByteBase - 1)
    BY <2>3, <2>5, Words
  <2>7. QED BY <1>3, <2>6, Zenon DEF Bytes
<1> HIDE DEF digits
<1>5. digits \in Seq(Bytes)
  BY <1>2, <1>4, TypedByElements
<1>6. QED BY <1>2, <1>5 DEF digits

\* A word's bytes are below its size, and the bytes of their value.
LEMMA WordOfBytes ==
  ASSUME NEW s \in Seq(Bytes), Len(s) = k_msec_count_size
  PROVE  /\ Value(ByteBase, s) \in 0..(Word - 1)
         /\ Digits(ByteBase, k_msec_count_size, Value(ByteBase, s)) = s
<1>1. s \in Seq(0..(ByteBase - 1))
  BY DEF Bytes
<1>2. QED BY <1>1, Words, DigitsOfValue DEF Word

\* htobe64(): whatever the host's byte order, the most significant byte comes first in
\* memory.
LEMMA BigEndianInMemory ==
  ASSUME order \in [{"server", "endpoint"} -> {"little", "big"}],
         NEW host \in {"server", "endpoint"}, NEW w \in 0..(Word - 1)
  PROVE  Memory(host, be64(host, w)) = Digits(ByteBase, k_msec_count_size, w)
<1> DEFINE digits == Digits(ByteBase, k_msec_count_size, w)
           turned == Reverse(digits)
<1>1. digits \in Seq(Bytes) /\ Len(digits) = k_msec_count_size
  BY BytesOfWord
<1>2. CASE order[host] = "big"
  BY <1>2 DEF Memory, be64
<1>3. CASE order[host] # "big"
  <2>1. Memory(host, w) = turned
    BY <1>3 DEF Memory
  <2> HIDE DEF digits
  <2>2. turned \in Seq(Bytes) /\ Len(turned) = k_msec_count_size /\ Reverse(turned) = digits
    BY <1>1, ReverseTwice
  <2> HIDE DEF turned
  <2>3. Reverse(Reverse(turned)) = turned
    BY <2>2, ReverseTwice
  <2>4. be64(host, w) = Value(ByteBase, turned)
    BY <1>3, <2>1, <2>3 DEF be64, Load
  <2>5. Memory(host, Value(ByteBase, turned)) = Reverse(turned)
    BY <1>3, <2>2, WordOfBytes DEF Memory
  <2>6. QED BY <2>2, <2>4, <2>5 DEF digits
<1>4. QED BY <1>2, <1>3

\* be64toh(): whatever the host's byte order, the first byte in memory is taken for
\* the most significant.
LEMMA BigEndianFromMemory ==
  ASSUME order \in [{"server", "endpoint"} -> {"little", "big"}],
         NEW host \in {"server", "endpoint"},
         NEW s \in Seq(Bytes), Len(s) = k_msec_count_size
  PROVE  be64(host, Load(host, s)) = Value(ByteBase, s)
<1>1. CASE order[host] = "big"
  BY <1>1 DEF Load, be64
<1>2. CASE order[host] # "big"
  <2> DEFINE turned == Reverse(s)
  <2>1. Load(host, s) = Value(ByteBase, turned)
    BY <1>2 DEF Load
  <2>2. turned \in Seq(Bytes) /\ Len(turned) = k_msec_count_size /\ Reverse(turned) = s
    BY ReverseTwice
  <2> HIDE DEF turned
  <2>3. Memory(host, Value(ByteBase, turned)) = s
    BY <1>2, <2>2, WordOfBytes DEF Memory
  <2>4. Reverse(Reverse(s)) = s
    BY ReverseTwice
  <2>5. QED BY <1>2, <2>1, <2>3, <2>4 DEF be64, Load
<1>3. QED BY <1>1, <1>2

\* The time point of a word, by its value alone.
LEMMA TimeOfValue ==
  ASSUME order \in [{"server", "endpoint"} -> {"little", "big"}],
         NEW s \in Seq(Bytes), Len(s) = k_msec_count_size
  PROVE  TimeOf(s) = Wrap(Wrap(Value(ByteBase, s)) * NsPerMs) /\ TimeOf(s) \in Times
<1>1. be64("endpoint", Load("endpoint", s)) = Value(ByteBase, s)
  BY BigEndianFromMemory
<1>2. TimeOf(s) = Wrap(Wrap(Value(ByteBase, s)) * NsPerMs)
  BY <1>1 DEF TimeOf
<1>3. Value(ByteBase, s) \in Int
  BY WordOfBytes
<1>4. Wrap(Value(ByteBase, s)) \in Int
  BY <1>3, WordTypes, Words
<1>5. Wrap(Value(ByteBase, s)) * NsPerMs \in Int
  BY <1>4, WordsAreProper
<1>6. QED BY <1>2, <1>5, WordTypes

-----------------------------------------------------------------------------
(* The invariant *)

\* Every step of the specification, one disjunct for each action.
LEMMA StepCases ==
  ASSUME [Next]_vars
  PROVE  \/ ToDatagram \/ ToDatagramThrows \/ Foreign
         \/ \E now \in Times : Receive(now) \/ OnEvent(now)
         \/ FromDatagram \/ FromDatagramThrows
         \/ UNCHANGED vars
BY DEF Next, Finished

\* What the server sends are the bytes of its task's count.
LEMMA Sent ==
  ASSUME TypeOK, m_timestamp # <<>>
  PROVE  LET time == m_timestamp[1]
             count == Count(time)
         IN  /\ time \in Times /\ count \in 0..(Word - 1)
             /\ Memory("server", be64("server", count)) = Digits(ByteBase, k_msec_count_size, count)
<1> DEFINE time == m_timestamp[1]
           count == Count(time)
<1>1. time \in Times
  BY DEF TypeOK, Optional
<1>2. Quotient(time, NsPerMs) \in Int
  <2> HIDE DEF time
  <2>1. Quotient(time, NsPerMs) \in Times
    BY <1>1, QuotientCuts, Zenon
  <2>2. QED BY <2>1, Words
<1>3. count \in 0..(Word - 1)
  BY <1>2, WordTypes DEF Count
<1> HIDE DEF time, count
<1>4. Memory("server", be64("server", count)) = Digits(ByteBase, k_msec_count_size, count)
  BY <1>3, BigEndianInMemory DEF TypeOK
<1>5. QED BY <1>1, <1>3, <1>4 DEF time, count

\* A foreign datagram is bytes, as many as it is long.
LEMMA ForeignBytes ==
  ASSUME Foreign
  PROVE  length' \in Nat /\ bytes' \in Seq(Bytes) /\ Len(bytes') = length'
<1>1. length' \in Nat
  BY WordsAreProper DEF Foreign
<1>2. bytes' \in [1..length' -> Bytes]
  <2>1. CASE length' = k_msec_count_size
    BY <2>1 DEF Foreign
  <2>2. CASE length' # k_msec_count_size
    <3>1. bytes' = [i \in 1..length' |-> 1]
      BY <2>2 DEF Foreign
    <3>2. QED BY <3>1, Words
  <2>3. QED BY <2>1, <2>2
<1>3. QED BY <1>1, <1>2, FunctionIsSeq

\* What recvfrom() leaves of a datagram.
LEMMA Cut ==
  ASSUME TypeOK, NEW now \in Times, Receive(now)
  PROVE  /\ bytes' \in Seq(Bytes)
         /\ Len(bytes') = IF Len(bytes) > k_max_size THEN k_max_size ELSE Len(bytes)
         /\ Len(bytes) <= k_max_size => bytes' = bytes
<1> DEFINE n == IF Len(bytes) > k_max_size THEN k_max_size ELSE Len(bytes)
<1>1. bytes \in Seq(Bytes) /\ Len(bytes) \in Nat /\ k_max_size \in Nat
  BY LenProperties, WordsAreProper DEF TypeOK
<1>2. n \in Nat /\ n <= Len(bytes) /\ (Len(bytes) <= k_max_size => n = Len(bytes))
  BY <1>1
<1>3. bytes' = SubSeq(bytes, 1, n)
  BY DEF Receive
<1> HIDE DEF n
<1>4. /\ SubSeq(bytes, 1, n) = [i \in 1..n |-> bytes[i]]
  <2>1. SubSeq(bytes, 1, n) = [i \in 1..((n - 1) + 1) |-> bytes[(i + 1) - 1]]
    BY <1>1, <1>2
  <2>2. (n - 1) + 1 = n /\ \A i \in 1..n : (i + 1) - 1 = i
    BY <1>2
  <2>3. QED BY <2>1, <2>2
<1>5. \A i \in 1..n : bytes[i] \in Bytes
  <2>1. \A i \in 1..n : i \in 1..Len(bytes)
    BY <1>1, <1>2
  <2>2. QED BY <1>1, <2>1, ElementOfSeq
<1>6. bytes' \in [1..n -> Bytes]
  BY <1>3, <1>4, <1>5
<1>7. bytes' \in Seq(Bytes) /\ Len(bytes') = n
  BY <1>2, <1>6, FunctionIsSeq
<1>8. ASSUME Len(bytes) <= k_max_size
      PROVE  bytes' = bytes
  <2>1. bytes \in [1..n -> Bytes]
    BY <1>1, <1>2, <1>8, LenProperties
  <2>2. QED BY <1>3, <1>4, <2>1
<1>9. QED BY <1>7, <1>8 DEF n

\* The variables keep to their types.
LEMMA TypeStep ==
  ASSUME TypeOK, Conveyed, [Next]_vars
  PROVE  TypeOK'
<1> USE DEF TypeOK, Advance
<1>1. CASE ToDatagram
  <2>1. m_timestamp # <<>>
    BY <1>1 DEF ToDatagram
  <2>2. bytes' = Digits(ByteBase, k_msec_count_size, Count(m_timestamp[1]))
    BY <1>1, <2>1, Sent DEF ToDatagram
  <2>3. Count(m_timestamp[1]) \in 0..(Word - 1)
    BY <2>1, Sent
  <2>4. bytes' \in Seq(Bytes)
    BY <2>2, <2>3, BytesOfWord
  <2>5. k_msec_count_size \in Nat
    BY WordsAreProper
  <2>6. QED BY <1>1, <2>4, <2>5 DEF ToDatagram
<1>2. CASE ToDatagramThrows
  BY <1>2 DEF ToDatagramThrows
<1>3. CASE Foreign
  <2>1. length' \in Nat /\ bytes' \in Seq(Bytes)
    BY <1>3, ForeignBytes
  <2>2. QED BY <1>3, <2>1 DEF Foreign
<1>4. ASSUME NEW now \in Times, Receive(now)
      PROVE  TypeOK'
  <2>1. bytes' \in Seq(Bytes)
    BY <1>4, Cut
  <2>2. <<now>> \in Optional(Times)
    BY DEF Optional
  <2>3. QED BY <1>4, <2>1, <2>2 DEF Receive
<1>5. CASE FromDatagram
  <2>1. TimeOf(bytes) \in Times
    BY <1>5, TimeOfValue DEF FromDatagram
  <2>2. <<TimeOf(bytes)>> \in Optional(Times)
    BY <2>1 DEF Optional
  <2>3. QED BY <1>5, <2>2 DEF FromDatagram
<1>6. CASE FromDatagramThrows
  BY <1>6 DEF FromDatagramThrows
<1>7. ASSUME NEW now \in Times, OnEvent(now)
      PROVE  TypeOK'
  BY <1>7 DEF OnEvent
<1>8. CASE UNCHANGED vars
  BY <1>8 DEF vars
<1>9. QED BY <1>1, <1>2, <1>3, <1>4, <1>5, <1>6, <1>7, <1>8, StepCases

\* A word is shorter than the receiver's buffer and arrives as it was sent.
LEMMA ConveyedStep ==
  ASSUME TypeOK, Conveyed, [Next]_vars
  PROVE  Conveyed'
<1> USE DEF Conveyed, Advance
<1>1. CASE ToDatagram
  <2>1. m_timestamp # <<>>
    BY <1>1 DEF ToDatagram
  <2>2. bytes' = Digits(ByteBase, k_msec_count_size, Count(m_timestamp[1]))
    BY <1>1, <2>1, Sent DEF ToDatagram
  <2>3. Count(m_timestamp[1]) \in 0..(Word - 1)
    BY <2>1, Sent
  <2>4. Len(bytes') = length'
    BY <1>1, <2>2, <2>3, BytesOfWord DEF ToDatagram
  <2>5. /\ stage' = "sent" /\ m_timestamp' = m_timestamp /\ foreign' = foreign
    BY <1>1 DEF ToDatagram
  <2>6. bytes' = Digits(ByteBase, k_msec_count_size, Count(m_timestamp'[1]))
    BY <2>2, <2>5
  <2>7. QED BY <2>1, <2>4, <2>5, <2>6
<1>2. CASE ToDatagramThrows
  BY <1>2 DEF ToDatagramThrows
<1>3. CASE Foreign
  <2>1. Len(bytes') = length'
    BY <1>3, ForeignBytes
  <2>2. QED BY <1>3, <2>1 DEF Foreign
<1>4. ASSUME NEW now \in Times, Receive(now)
      PROVE  Conveyed'
  <2>1. /\ stage = "sent" /\ stage' = "received"
        /\ UNCHANGED <<foreign, m_timestamp, length>>
    BY <1>4 DEF Receive
  <2>2. /\ Len(bytes') = IF length > k_max_size THEN k_max_size ELSE length
        /\ length <= k_max_size => bytes' = bytes
    BY <1>4, <2>1, Cut
  <2>3. ASSUME ~foreign
        PROVE  bytes' = bytes
    <3>1. m_timestamp # <<>> /\ bytes = Digits(ByteBase, k_msec_count_size, Count(m_timestamp[1]))
      BY <2>1, <2>3
    <3>2. Count(m_timestamp[1]) \in 0..(Word - 1)
      BY <3>1, Sent
    <3>3. Len(bytes) = k_msec_count_size
      BY <3>1, <3>2, BytesOfWord
    <3>4. QED BY <2>1, <2>2, <3>3, WordsAreProper
  <2>4. QED BY <2>1, <2>2, <2>3
<1>5. CASE FromDatagram
  BY <1>5 DEF FromDatagram
<1>6. CASE FromDatagramThrows
  BY <1>6 DEF FromDatagramThrows
<1>7. ASSUME NEW now \in Times, OnEvent(now)
      PROVE  Conveyed'
  BY <1>7 DEF OnEvent
<1>8. CASE UNCHANGED vars
  BY <1>8 DEF vars
<1>9. QED BY <1>1, <1>2, <1>3, <1>4, <1>5, <1>6, <1>7, <1>8, StepCases

\* What is longer than a word is also longer than one in the buffer.
LEMMA ParsedStep ==
  ASSUME TypeOK, Conveyed, Parsed, [Next]_vars
  PROVE  Parsed'
<1> USE DEF Parsed, Advance
<1>1. CASE ToDatagram
  BY <1>1 DEF ToDatagram
<1>2. CASE ToDatagramThrows
  BY <1>2 DEF ToDatagramThrows
<1>3. CASE Foreign
  BY <1>3 DEF Foreign
<1>4. ASSUME NEW now \in Times, Receive(now)
      PROVE  Parsed'
  BY <1>4 DEF Receive
<1>5. CASE FromDatagram
  <2>1. /\ stage = "received" /\ stage' = "queued" /\ length' = length /\ bytes' = bytes
        /\ Len(bytes) = k_msec_count_size /\ task' = <<TimeOf(bytes)>> /\ order' = order
    BY <1>5 DEF FromDatagram
  <2>2. Len(bytes) = IF length > k_max_size THEN k_max_size ELSE length
    BY <2>1 DEF Conveyed
  <2>3. length = k_msec_count_size
    BY <2>1, <2>2, WordsAreProper DEF TypeOK
  <2>4. TimeOf(bytes)' = TimeOf(bytes)
    BY <2>1 DEF TimeOf, be64, Load, Memory
  <2>5. QED BY <2>1, <2>3, <2>4
<1>6. CASE FromDatagramThrows
  BY <1>6 DEF FromDatagramThrows
<1>7. ASSUME NEW now \in Times, OnEvent(now)
      PROVE  Parsed'
  <2>1. /\ stage = "queued" /\ stage' = "shown"
        /\ length' = length /\ bytes' = bytes /\ task' = task /\ order' = order
    BY <1>7 DEF OnEvent
  <2>2. TimeOf(bytes)' = TimeOf(bytes)
    BY <2>1 DEF TimeOf, be64, Load, Memory
  <2>3. QED BY <2>1, <2>2
<1>8. CASE UNCHANGED vars
  <2>1. TimeOf(bytes)' = TimeOf(bytes)
    BY <1>8 DEF vars, TimeOf, be64, Load, Memory
  <2>2. QED BY <1>8, <2>1 DEF vars
<1>9. QED BY <1>1, <1>2, <1>3, <1>4, <1>5, <1>6, <1>7, <1>8, StepCases

\* The line is about the task and a reading of the endpoint's clock.
LEMMA ShownStep ==
  ASSUME Shown, [Next]_vars
  PROVE  Shown'
<1> USE DEF Shown, Advance
<1>1. CASE ToDatagram \/ ToDatagramThrows \/ Foreign \/ FromDatagram \/ FromDatagramThrows
  BY <1>1 DEF ToDatagram, ToDatagramThrows, Foreign, FromDatagram, FromDatagramThrows
<1>2. ASSUME NEW now \in Times, Receive(now)
      PROVE  Shown'
  BY <1>2 DEF Receive
<1>3. ASSUME NEW now \in Times, OnEvent(now)
      PROVE  Shown'
  BY <1>3 DEF OnEvent
<1>4. CASE UNCHANGED vars
  BY <1>4 DEF vars
<1>5. QED BY <1>1, <1>2, <1>3, <1>4, StepCases

\* The invariant that the results below follow from: at each stage, what of the
\* server's task or of a foreign datagram is there.
THEOREM InductiveInvariant == Spec => []IInv
<1>1. Init => IInv
  <2> SUFFICES ASSUME Init PROVE IInv
    OBVIOUS
  <2>1. <<>> \in Optional(Times) /\ <<>> \in Seq(Bytes) /\ 0 \in Nat
    BY EmptySeq DEF Optional
  <2>2. m_timestamp \in Optional(Times) /\ (foreign => m_timestamp = <<>>)
    BY <2>1 DEF Init
  <2>3. TypeOK
    BY <2>1, <2>2 DEF Init, TypeOK
  <2>4. Conveyed /\ Parsed /\ Shown
    BY <2>2 DEF Init, Conveyed, Parsed, Shown
  <2>5. QED BY <2>3, <2>4 DEF IInv
<1>2. IInv /\ [Next]_vars => IInv'
  BY TypeStep, ConveyedStep, ParsedStep, ShownStep DEF IInv
<1>3. QED BY <1>1, <1>2, PTL DEF Spec

\* The variables keep to their types.
THEOREM TypeCorrect == Spec => []TypeOK
<1>1. IInv => TypeOK
  BY DEF IInv
<1>2. QED BY <1>1, InductiveInvariant, PTL

\* A line is printed for a time of the server or a foreign datagram of exactly a word.
THEOREM NothingElseIsShown == Spec => []OnlyTimesAreShown
<1>1. IInv => OnlyTimesAreShown
  BY DEF IInv, Conveyed, Parsed, OnlyTimesAreShown
<1>2. QED BY <1>1, InductiveInvariant, PTL

\* The task that the endpoint parsed is there at two stages only.
LEMMA TaskThere ==
  ASSUME IInv, task # <<>>
  PROVE  /\ stage \in {"queued", "shown"}
         /\ bytes \in Seq(Bytes) /\ Len(bytes) = k_msec_count_size
         /\ Value(ByteBase, bytes) \in 0..(Word - 1)
         /\ task[1] = Wrap(Wrap(Value(ByteBase, bytes)) * NsPerMs)
<1>1. stage \in {"queued", "shown"}
  BY DEF IInv, Parsed
<1>2. /\ bytes \in Seq(Bytes) /\ Len(bytes) = k_msec_count_size /\ task[1] = TimeOf(bytes)
  BY <1>1 DEF IInv, TypeOK, Parsed
<1>3. TimeOf(bytes) = Wrap(Wrap(Value(ByteBase, bytes)) * NsPerMs)
  BY <1>2, TimeOfValue DEF IInv, TypeOK
<1>4. QED BY <1>1, <1>2, <1>3, WordOfBytes

\* The endpoint's task is the server's time, cut to a millisecond.
LEMMA TaskOfServer ==
  ASSUME IInv, task # <<>>, m_timestamp # <<>>
  PROVE  /\ m_timestamp[1] \in Times
         /\ task[1] = Quotient(m_timestamp[1], NsPerMs) * NsPerMs
<1> DEFINE time == m_timestamp[1]
           q == Quotient(time, NsPerMs)
<1>1. time \in Times /\ Count(time) \in 0..(Word - 1)
  BY Sent DEF IInv
<1>2. q \in Times /\ q * NsPerMs \in Times
  BY <1>1, QuotientCuts
<1>3. /\ stage \in {"queued", "shown"}
      /\ task[1] = Wrap(Wrap(Value(ByteBase, bytes)) * NsPerMs)
  BY TaskThere
<1>4. bytes = Digits(ByteBase, k_msec_count_size, Count(time))
  BY <1>3 DEF IInv, Conveyed
<1>5. Value(ByteBase, bytes) = Count(time)
  BY <1>1, <1>4, BytesOfWord
<1>6. Count(time) = Unsigned(q)
  BY DEF Count
<1> HIDE DEF time, q
<1>7. Wrap(Value(ByteBase, bytes)) = q
  BY <1>2, <1>5, <1>6, WrapOfUnsigned
<1>8. Wrap(q * NsPerMs) = q * NsPerMs
  BY <1>2, WrapKeeps
<1>9. QED BY <1>1, <1>3, <1>7, <1>8 DEF time, q

\* Between hosts of any byte order, with words of any size, the endpoint gets the
\* server's time, cut to a millisecond.
THEOREM ServerTimeArrives == Spec => []RoundTrip
<1>1. IInv => RoundTrip
  BY TaskOfServer DEF RoundTrip
<1>2. QED BY <1>1, InductiveInvariant, PTL

\* A word from anybody is taken for the milliseconds it counts, also beyond what a
\* time point holds, but for the words that the multiplication overflows by.
THEOREM CountsArrive == Spec => []CountIsKept
<1>1. IInv => CountIsKept
  <2> DEFINE count == Value(ByteBase, bytes)
             signed == IF 2 * count >= Word THEN count - Word ELSE count
  <2> SUFFICES ASSUME IInv, task # <<>>
               PROVE  /\ (task[1] - count * NsPerMs) % Word = 0
                      /\ signed * NsPerMs \in Times => task[1] = signed * NsPerMs
    BY DEF CountIsKept
  <2>1. count \in 0..(Word - 1) /\ task[1] = Wrap(Wrap(count) * NsPerMs)
    BY TaskThere
  <2> HIDE DEF count
  <2>2. count \in Int /\ NsPerMs \in Nat \ {0} /\ Word \in Nat \ {0}
    BY <2>1, Words, WordsAreProper
  <2>3. Wrap(count) = signed /\ signed \in Int
    BY <2>1, WrapOfWord
  <2>4. task[1] = Wrap(signed * NsPerMs)
    BY <2>1, <2>3
  <2>5. PICK k \in Int : signed = count + Word * k
    <3>1. CASE 2 * count >= Word
      <4>1. signed = count + Word * (-1)
        BY <2>2, <3>1
      <4>2. QED BY <4>1
    <3>2. CASE ~(2 * count >= Word)
      <4>1. signed = count + Word * 0
        BY <2>2, <3>2
      <4>2. QED BY <4>1
    <3>3. QED BY <3>1, <3>2
  <2> HIDE DEF signed
  <2>6. signed * NsPerMs \in Int
    BY <2>2, <2>3
  <2>7. PICK m \in Int : task[1] = signed * NsPerMs + Word * m
    BY <2>4, <2>6, WrapLosesWords
  <2>8. (task[1] - count * NsPerMs) % Word = 0
    <3>1. signed * NsPerMs = count * NsPerMs + Word * (k * NsPerMs)
      BY <2>2, <2>5
    <3>2. k * NsPerMs + m \in Int /\ 0 \in 0..(Word - 1)
      BY <2>2
    <3>3. task[1] - count * NsPerMs = Word * (k * NsPerMs + m) + 0
      BY <2>2, <2>7, <3>1
    <3>4. task[1] - count * NsPerMs \in Int
      BY <2>2, <3>2, <3>3
    <3>5. QED BY <2>2, <3>2, <3>3, <3>4, DivisionIsUnique, ZenonT(60)
  <2>9. signed * NsPerMs \in Times => task[1] = signed * NsPerMs
    BY <2>4, WrapKeeps
  <2>10. QED BY <2>8, <2>9
<1>2. QED BY <1>1, InductiveInvariant, PTL

\* On one host whose clock is not set back between the two readings, the printed
\* difference is the time since the server made the task, to a millisecond.
THEOREM DifferenceIsRight == Spec => []DifferenceOnOneHost
<1>1. IInv => DifferenceOnOneHost
  <2> SUFFICES ASSUME IInv, NEW line \in ToSet(report), NEW made \in ToSet(m_timestamp),
                      0 <= made, made <= line.endpoint
               PROVE  LET text == line.difference
                      IN  /\ text.signs = <<"+">>
                          /\ text.magnitude * NsPerMs < line.endpoint - made + NsPerMs
                          /\ line.endpoint - made < (text.magnitude + 1) * NsPerMs
    BY DEF DifferenceOnOneHost
  <2>1. m_timestamp # <<>> /\ made = m_timestamp[1]
    BY DEF ToSet, IInv, TypeOK, Optional
  <2>2. stage = "shown"
    BY DEF ToSet, IInv, Shown
  <2>3. PICK now \in Times :
          report = <<[endpoint |-> now, server |-> task[1],
                      difference |-> Difference(task[1], now)]>>
    BY <2>2 DEF IInv, Shown
  <2>4. line.endpoint = now /\ line.difference = Difference(task[1], now)
    BY <2>3 DEF ToSet
  <2>5. task # <<>>
    <3>1. stage \in {"queued", "shown"}
      BY <2>2
    <3>2. task = <<TimeOf(bytes)>>
      BY <3>1 DEF IInv, Parsed
    <3>3. QED BY <3>2
  <2> DEFINE server == task[1]
             since == now - server
             magnitude == Quotient(since, NsPerMs)
  <2>6. made \in Times /\ server = Quotient(made, NsPerMs) * NsPerMs
    BY <2>1, <2>5, TaskOfServer
  <2>7. server \in Int /\ 0 <= server /\ server <= made /\ made < server + NsPerMs
    <3>1. /\ Quotient(made, NsPerMs) \in Nat
          /\ Quotient(made, NsPerMs) * NsPerMs <= made
          /\ made < Quotient(made, NsPerMs) * NsPerMs + NsPerMs
      BY <2>6, QuotientCuts
    <3>2. \A q, n \in Nat : q * n \in Nat
      OBVIOUS
    <3>3. Quotient(made, NsPerMs) * NsPerMs \in Nat
      BY <3>1, <3>2, WordsAreProper
    <3>4. QED BY <2>6, <3>1, <3>3
  <2>8. now \in Int /\ made \in Int /\ NsPerMs \in Nat /\ made <= now
    BY <2>4, <2>6, Words, WordsAreProper
  <2> HIDE DEF server
  <2>9. since \in Times /\ since >= 0 /\ ~ server > now
    BY <2>7, <2>8, Words
  <2>10. Wrap(since) = since
    BY <2>9, WrapKeeps
  <2>11. /\ magnitude \in Nat /\ magnitude * NsPerMs <= since
         /\ since < magnitude * NsPerMs + NsPerMs
    BY <2>9, QuotientCuts
  <2>12. line.difference = [signs |-> <<"+">>, magnitude |-> magnitude]
    <3>1. Quotient(Wrap(now - server), NsPerMs) = magnitude
      BY <2>10
    <3>2. ~ magnitude < 0
      BY <2>11
    <3>3. <<"+">> \o <<>> = <<"+">>
      BY ConcatEmptySeq
    <3> HIDE DEF magnitude, since
    <3>4. QED BY <2>4, <2>9, <3>1, <3>2, <3>3 DEF Difference, server
  <2>13. (magnitude + 1) * NsPerMs = magnitude * NsPerMs + NsPerMs /\ magnitude * NsPerMs \in Nat
    BY <2>8, <2>11
  <2>14. since = now - server
    OBVIOUS
  <2> HIDE DEF magnitude, since
  <2>15. /\ magnitude * NsPerMs < now - made + NsPerMs
         /\ now - made < (magnitude + 1) * NsPerMs
    BY <2>7, <2>8, <2>11, <2>13, <2>14
  <2>16. QED BY <2>4, <2>12, <2>15
<1>2. QED BY <1>1, InductiveInvariant, PTL
=============================================================================
