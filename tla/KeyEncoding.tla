----------------------------- MODULE KeyEncoding -----------------------------
(***************************************************************************)
(* Keys as bytes (keyenc.go): how a key attribute becomes a BLOB, so that  *)
(* SQLite's comparison of BLOBs is DynamoDB's order of keys, and how the   *)
(* values that start with a prefix become a range of BLOBs.                *)
(*                                                                         *)
(* A key attribute is a record [type, bytes] of type "S" or "B", or        *)
(* [type, num] of type "N", whose numeral is kept as it was spelled:       *)
(* sign, digits before and after the point, exponent.                      *)
(***************************************************************************)
EXTENDS Integers, SequencesExt

CONSTANT NoBytes    \* nil

Byte == 0..255

(* nil is no byte string.                                                  *)
ASSUME NoBytesAssumption == NoBytes \notin Seq(Byte)

Digit == 0..9

(* Numerals of any length.                                                 *)
Numerals == [neg : BOOLEAN, int : Seq(Digit), frac : Seq(Digit), exp : Int]

(* The values of the types that a key may have.                            *)
KeyAttribute ==
    [type : {"S", "B"}, bytes : Seq(Byte)] \union [type : {"N"}, num : Numerals]

keyTag == [S |-> 1, N |-> 2, B |-> 3]

(* Of two different BLOBs, which one SQLite orders first: memcmp, then     *)
(* length.                                                                 *)
Precedes(a, b) ==
    \E i \in 1..Len(b) :
        /\ i <= Len(a) + 1
        /\ \A j \in 1..(i - 1) : a[j] = b[j]
        /\ i <= Len(a) => a[i] < b[i]

-----------------------------------------------------------------------------
(* Strings and binaries.                                                   *)

(* Every 0 becomes 0 255, so that 0 0 can only be the terminator.          *)
appendEscaped[src \in Seq(Byte)] ==
    IF src = <<>> THEN <<>>
    ELSE (IF Head(src) = 0 THEN <<0, 255>> ELSE <<Head(src)>>) \o appendEscaped[Tail(src)]

-----------------------------------------------------------------------------
(* Numbers.  The value of a parsed numeral is sign * 0.digits * 10^exp,    *)
(* with no zero at either end of digits.                                   *)
Zero == [sign |-> 0, digits |-> <<>>, exp |-> 0]

Trimmed(num, raw, nonzero) ==
    LET first == CHOOSE i \in nonzero : \A j \in nonzero : i <= j
        last  == CHOOSE i \in nonzero : \A j \in nonzero : j <= i
    IN  [sign   |-> IF num.neg THEN -1 ELSE 1,
         digits |-> SubSeq(raw, first, last),
         exp    |-> num.exp + Len(num.int) - (first - 1)]

parseDecimal(num) ==
    LET raw     == num.int \o num.frac
        nonzero == {i \in 1..Len(raw) : raw[i] # 0}
    IN  IF nonzero = {} THEN Zero ELSE Trimmed(num, raw, nonzero)

(* Mutant of Complement: the bytes of negative numbers stay as they are.   *)
NotComplemented(bytes) == bytes

(* Of two negative numbers, the one of greater magnitude comes first.      *)
Complement(bytes) == [i \in 1..Len(bytes) |-> 255 - bytes[i]]

(* uint16(exp + 32768), high byte first; the digits in ASCII; a terminator *)
Payload(dec) ==
    LET biased == (dec.exp + 32768) % 65536 IN
    <<biased \div 256, biased % 256>> \o [i \in 1..Len(dec.digits) |-> 48 + dec.digits[i]] \o <<0>>

(* The exponents that have a key, those of 16 bits.                        *)
IsInt16(exp) == -32768 <= exp /\ exp <= 32767

encodeNumberKey(num) ==
    LET dec == parseDecimal(num) IN
    CASE dec.sign = 0 -> <<keyTag["N"], 1>>
      [] dec.sign # 0 /\ ~IsInt16(dec.exp) -> NoBytes
      [] dec.sign = 1 /\ IsInt16(dec.exp) ->
            <<keyTag["N"], 2>> \o Payload(dec)
      [] dec.sign = -1 /\ IsInt16(dec.exp) ->
            <<keyTag["N"], 0>> \o Complement(Payload(dec))

padRight(d, other) == d \o [i \in 1..(Len(other) - Len(d)) |-> 0]

(* -1, 0 or 1.                                                             *)
compareDecimals(a, b) ==
    LET da == padRight(a.digits, b.digits)
        db == padRight(b.digits, a.digits)
    IN
    CASE a.sign < b.sign -> -1
      [] a.sign > b.sign -> 1
      [] a.sign = b.sign /\ a.sign = 0 -> 0
      [] OTHER -> a.sign * (CASE a.exp < b.exp -> -1
                              [] a.exp > b.exp -> 1
                              [] a.exp = b.exp /\ da = db -> 0
                              [] a.exp = b.exp /\ da # db ->
                                    IF Precedes(da, db) THEN -1 ELSE 1)

compareNumbers(m, n) == compareDecimals(parseDecimal(m), parseDecimal(n))

numbersEqual(m, n) == compareNumbers(m, n) = 0

-----------------------------------------------------------------------------
(* Keys.  NoBytes stands for an error.                                     *)
encodeKeyValue(av) ==
    CASE av.type = "N" -> encodeNumberKey(av.num)
      [] av.type # "N" /\ av.bytes = <<>> -> NoBytes
      [] av.type # "N" /\ av.bytes # <<>> ->
            <<keyTag[av.type]>> \o appendEscaped[av.bytes] \o <<0, 0>>

(* The encoding without its terminator.                                    *)
keyPrefix(av) ==
    IF av.type = "N" \/ encodeKeyValue(av) = NoBytes THEN NoBytes
    ELSE SubSeq(encodeKeyValue(av), 1, Len(encodeKeyValue(av)) - 2)

(* Mutant of successor: the last byte is counted up, and may wrap around.  *)
successorWrapped(b) == [b EXCEPT ![Len(b)] = (b[Len(b)] + 1) % 256]

(* The first BLOB after all those that start with b.                       *)
successor(b) ==
    LET free == {i \in 1..Len(b) : b[i] # 255}
        last == CHOOSE i \in free : \A j \in free : j <= i
    IN
    IF free = {} THEN NoBytes
    ELSE SubSeq([b EXCEPT ![last] = @ + 1], 1, last)

=============================================================================
