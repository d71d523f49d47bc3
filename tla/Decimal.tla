------------------------------ MODULE Decimal -------------------------------
(***************************************************************************)
(* A counter (update.go): a numeric attribute that is put verbatim and     *)
(* then changed by ADD, SET a = a + :d and SET a = a - :d.                 *)
(***************************************************************************)
EXTENDS DecimalSums

CONSTANTS
    Numbers,    \* decimals that clients send
    MaxValue    \* bound of the exploration

VARIABLES
    value,      \* the attribute
    exact       \* what the operations acknowledged so far amount to

vars == <<value, exact>>

Init == \E n \in Numbers : value = n /\ exact = n

-----------------------------------------------------------------------------
PutNumber(n) ==
    /\ value' = n
    /\ exact' = n

UpdateNumber(n, sub) ==
    /\ value' = addNumbers(value, n, sub)
    /\ exact' = IF sub THEN exact - n ELSE exact + n
    /\ exact' \in -MaxValue..MaxValue

Next ==
    \/ \E n \in Numbers : PutNumber(n)
    \/ \E n \in Numbers, sub \in BOOLEAN : UpdateNumber(n, sub)

Spec == Init /\ [][Next]_vars

-----------------------------------------------------------------------------
(* A counter is the exact sum of what was added to it ("adds ... exactly,  *)
(* returning a canonical decimal", addNumbers).                            *)
SumsExact == value = exact

=============================================================================
