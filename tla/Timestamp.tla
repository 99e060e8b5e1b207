----------------------------- MODULE Timestamp -----------------------------
(***************************************************************************)
(* How timestamp_t::to_string() prints a time (src/core/timestamp.cpp):    *)
(* the second, then the milliseconds as digits behind a point.  The date   *)
(* and the time of day are put_time()'s, and stand here as one number of   *)
(* seconds.  Times are in milliseconds: what is below is not printed.      *)
(***************************************************************************)
EXTENDS Numerals, SequencesExt

CONSTANT MaxSize   \* the largest std::size_t

\* The language demands 16 bits at least.
ASSUME SizeIsLarge == MaxSize \in Nat /\ MaxSize >= 65535

\* to_time_t() and duration_cast< seconds > cut towards zero.
Seconds(time) == IF time >= 0 THEN time \div 1000 ELSE -((-time) \div 1000)

\* Slip: the seconds are not taken away.
millis_since_epoch(time) == time % (MaxSize + 1)

\* The difference, as a std::size_t.
millis_since_second(time) == (time - Seconds(time) * 1000) % (MaxSize + 1)

\* std::to_string() of a natural number, as digits.
to_string(n) ==
  LET digits[m \in 0..n] == IF m < 10 THEN <<m>> ELSE Append(digits[m \div 10], m % 10)
  IN  digits[n]

\* What to_string() prints from a std::tm and a time; a zero follows milliseconds
\* below 100.
Text(tm_value, time) ==
  LET millis == millis_since_second(time)
  IN  [second |-> tm_value,
       fraction |-> to_string(millis) \o (IF millis < 100 THEN <<0>> ELSE <<>>)]

\* The time a reader takes from the text: digits behind a point are a fraction.
ReadBack(printed) ==
  printed.second * 1000
    + (Value(10, printed.fraction) * 1000) \div Weight(10, Len(printed.fraction))
=============================================================================
