------------------------------ MODULE Numerals ------------------------------
(***************************************************************************)
(* Numbers as digits of a base: the decimal digits that std::to_string()   *)
(* prints, the bytes of a word.                                            *)
(***************************************************************************)
EXTENDS Integers, Sequences

\* The number that digits are; the first weighs most.
Value(base, digits) ==
  LET value[i \in 0..Len(digits)] == IF i = 0 THEN 0 ELSE base * value[i - 1] + digits[i]
  IN  value[Len(digits)]

\* What a digit weighs that n others follow: the number that a one and n zeros are.
Weight(base, n) == Value(base, [i \in 1..(n + 1) |-> IF i = 1 THEN 1 ELSE 0])

\* The last n digits of a number.
Digits(base, n, number) == [i \in 1..n |-> (number \div Weight(base, n - i)) % base]
=============================================================================
