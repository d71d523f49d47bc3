----------------------------- MODULE MCDecimal ------------------------------
(***************************************************************************)
(* A small instance of Decimal for TLC: tenths up to 12.0, both signs.     *)
(***************************************************************************)
EXTENDS Decimal

(* 0, 0.5, 1 and 9                                                         *)
MCNumbers == {0, 5, 10, 90}

=============================================================================
