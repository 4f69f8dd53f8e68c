----------------------------- MODULE MCAmounts -----------------------------
(***************************************************************************)
(* Instances of Amounts for TLC: amounts with two digits below a base unit *)
(* and Decimals of three digits.                                           *)
(***************************************************************************)
EXTENDS Amounts

\* Around zero, one unit, the halves, where the precision is exceeded by one
\* and by two digits, and at the top of what the precision can hold.
MCTyped == {-1, 0, 1} \cup {n \in 2 .. 1300 : n % 50 \in {0, 1, 4, 45, 49}}
              \cup (99940 .. 99949) \cup {12345, 12350, 12450}
===========================================================================
