-------------------------------- MODULE Itoa --------------------------------
(***************************************************************************)
(* Decimal numerals of natural numbers, as itoa of internal/db/postgres.go *)
(* makes them for a placeholder and fmt for a length in RESP.              *)
(***************************************************************************)
EXTENDS Integers, Sequences

Numerals == <<"0", "1", "2", "3", "4", "5", "6", "7", "8", "9">>

\* The digits prepended while n > 0.
digits[k \in Nat] == IF k = 0 THEN <<>> ELSE Append(digits[k \div 10], Numerals[(k % 10) + 1])
itoa(k) == IF k < 10 THEN <<Numerals[k + 1]>> ELSE digits[k]
=============================================================================
