---------------------------- MODULE DecimalSums -----------------------------
(***************************************************************************)
(* How update expressions add numbers (update.go).  big.Rat adds exactly,  *)
(* so what matters is how ratDecimalString writes a sum down for the next  *)
(* operation to read.                                                      *)
(*                                                                         *)
(* An integer n stands for the decimal n / Unit.                           *)
(***************************************************************************)
EXTENDS Integers

CONSTANT Unit       \* a power of ten

(* strings.TrimRight(digits, "0")                                          *)
TrimRight[n \in Nat] == IF n > 0 /\ n % 10 = 0 THEN TrimRight[n \div 10] ELSE n

(* The zeros are trimmed after a fraction (whose last digit is not a zero) *)
(* and after an integer alike.                                             *)
ratDecimalString(n) ==
    CASE n % Unit # 0           -> n
      [] n % Unit = 0 /\ n >= 0 -> Unit * TrimRight[n \div Unit]
      [] n % Unit = 0 /\ n < 0  -> -(Unit * TrimRight[(-n) \div Unit])

addNumbers(a, b, sub) == ratDecimalString(IF sub THEN a - b ELSE a + b)

=============================================================================
