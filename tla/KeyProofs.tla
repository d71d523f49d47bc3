------------------------------ MODULE KeyProofs ------------------------------
(***************************************************************************)
(* The order of BLOBs, and the range of them that stands for a prefix:     *)
(* facts about byte strings of any length.  Encoded numbers sort as the    *)
(* numbers do, and two spellings of one number are one key: for numerals   *)
(* of any length.                                                          *)
(***************************************************************************)
EXTENDS KeyEncoding, SequenceTheorems, WellFoundedInduction, TLAPS

Blob == Seq(Byte)

-----------------------------------------------------------------------------
(* Helpers                                                                 *)

LEMMA Least ==
    ASSUME NEW S \in SUBSET Nat, S # {}
    PROVE  \E i \in S : \A j \in S : i <= j
<1> DEFINE R == OpToRel(<, Nat)
<1>1. \A x, y \in Nat : <<x, y>> \in R <=> x < y
  BY DEF OpToRel
<1>2. IsWellFoundedOn(R, Nat)
  BY NatLessThanWellFounded
<1> HIDE DEF R
<1>3. PICK x \in S : \A y \in S : ~ (<<y, x>> \in R)
  BY <1>2, WFMin
<1>4. ASSUME NEW j \in S PROVE x <= j
  <2>1. x \in Nat /\ j \in Nat
    OBVIOUS
  <2>2. ~ (j < x)
    BY <1>1, <1>3, <2>1
  <2> QED BY <2>1, <2>2
<1> QED BY <1>4

LEMMA Greatest ==
    ASSUME NEW n \in Nat, NEW S, S \subseteq 0..n, S # {}
    PROVE  \E i \in S : \A j \in S : j <= i
<1> DEFINE T == {k \in Nat : n - k \in S}
<1>1. PICK s \in S : TRUE
  OBVIOUS
<1>2. n - s \in T
  <2>1. n - s \in Nat /\ n - (n - s) = s
    BY <1>1
  <2> QED BY <2>1
<1>3. PICK k \in T : \A j \in T : k <= j
  BY <1>2, Least
<1>4. ASSUME NEW j \in S PROVE j <= n - k
  <2>1. n - j \in Nat /\ n - (n - j) = j
    BY <1>4
  <2>2. n - j \in T
    BY <2>1
  <2>3. k <= n - j
    BY <1>3, <2>2
  <2> QED BY <2>1, <2>3
<1> QED BY <1>3, <1>4

LEMMA ByteFacts == \A x : x \in Byte <=> x \in Nat /\ x <= 255
BY DEF Byte

LEMMA BlobFacts ==
    ASSUME NEW s \in Blob
    PROVE  /\ Len(s) \in Nat
           /\ \A i \in 1..Len(s) : s[i] \in Nat /\ s[i] <= 255
<1>1. Len(s) \in Nat /\ s \in [1..Len(s) -> Byte]
  BY LenProperties DEF Blob
<1>2. ASSUME NEW i \in 1..Len(s) PROVE s[i] \in Nat /\ s[i] <= 255
  <2>1. s[i] \in Byte
    BY <1>1
  <2> QED BY <2>1, ByteFacts
<1> QED BY <1>1, <1>2

(* Being a prefix, position by position.                                   *)
LEMMA PrefixPointwise ==
    ASSUME NEW b \in Blob, NEW s \in Blob
    PROVE  IsPrefix(b, s) <=> /\ Len(b) <= Len(s)
                              /\ \A i \in 1..Len(b) : s[i] = b[i]
<1>1. CASE Len(b) > Len(s)
  BY <1>1, BlobFacts DEF IsPrefix
<1>2. CASE Len(b) <= Len(s)
  <2>1. /\ SubSeq(b, 1, Len(b)) \in Seq(Byte)
        /\ Len(SubSeq(b, 1, Len(b))) = Len(b)
        /\ \A i \in 1..Len(b) : SubSeq(b, 1, Len(b))[i] = b[i]
    BY <1>2, BlobFacts DEF Blob
  <2>2. /\ SubSeq(s, 1, Len(b)) \in Seq(Byte)
        /\ Len(SubSeq(s, 1, Len(b))) = Len(b)
        /\ \A i \in 1..Len(b) : SubSeq(s, 1, Len(b))[i] = s[i]
    BY <1>2, BlobFacts DEF Blob
  <2>3. SubSeq(b, 1, Len(b)) = SubSeq(s, 1, Len(b))
          <=> \A i \in 1..Len(b) : s[i] = b[i]
    BY <2>1, <2>2, SeqEqual
  <2> QED BY <1>2, <2>3 DEF IsPrefix
<1> QED BY <1>1, <1>2, BlobFacts

(* Where a string that is no extension of b first leaves it.               *)
LEMMA FirstDeparture ==
    ASSUME NEW b \in Blob, NEW s \in Blob, ~IsPrefix(b, s)
    PROVE  \E i \in 1..Len(b) :
              /\ i <= Len(s) + 1
              /\ \A j \in 1..(i - 1) : s[j] = b[j]
              /\ i <= Len(s) => s[i] # b[i]
<1> DEFINE D == {i \in 1..Len(b) : i > Len(s) \/ s[i] # b[i]}
<1>1. D # {}
  BY PrefixPointwise, BlobFacts, SMTT(60)
<1>2. PICK i \in D : \A j \in D : i <= j
  <2>1. D \in SUBSET Nat
    OBVIOUS
  <2> HIDE DEF D
  <2> QED BY <1>1, <2>1, Least
<1>3. \A j \in 1..(i - 1) : j \notin D
  BY <1>2, BlobFacts
<1>4. \A j \in 1..(i - 1) : j <= Len(s) /\ s[j] = b[j]
  BY <1>2, <1>3, BlobFacts
<1>5. i <= Len(s) + 1
  BY <1>2, <1>4, BlobFacts
<1> QED BY <1>2, <1>4, <1>5, BlobFacts

-----------------------------------------------------------------------------
(* The order                                                               *)

(* memcmp, then length, is irreflexive.                                    *)
LEMMA PrecedesIrreflexive ==
    ASSUME NEW a \in Blob
    PROVE  ~Precedes(a, a)
BY BlobFacts DEF Precedes

LEMMA PrecedesTransitive ==
    ASSUME NEW a \in Blob, NEW b \in Blob, NEW c \in Blob,
           Precedes(a, b), Precedes(b, c)
    PROVE  Precedes(a, c)
<1>1. PICK i \in 1..Len(b) : /\ i <= Len(a) + 1
                             /\ \A j \in 1..(i - 1) : a[j] = b[j]
                             /\ i <= Len(a) => a[i] < b[i]
  BY DEF Precedes
<1>2. PICK k \in 1..Len(c) : /\ k <= Len(b) + 1
                             /\ \A j \in 1..(k - 1) : b[j] = c[j]
                             /\ k <= Len(b) => b[k] < c[k]
  BY DEF Precedes
<1>3. CASE i < k
  <2>1. b[i] = c[i] /\ i \in 1..Len(c)
    BY <1>1, <1>2, <1>3, BlobFacts
  <2>2. \A j \in 1..(i - 1) : a[j] = c[j]
    BY <1>1, <1>2, <1>3, BlobFacts
  <2> QED BY <1>1, <2>1, <2>2 DEF Precedes
<1>4. CASE k <= i
  <2>1. \A j \in 1..(k - 1) : a[j] = c[j]
    BY <1>1, <1>2, <1>4, BlobFacts
  <2>2. k <= Len(a) + 1 /\ k \in 1..Len(b)
    BY <1>1, <1>2, <1>4, BlobFacts
  <2>3. k <= Len(a) => a[k] <= b[k]
    BY <1>1, <1>4, <2>2, BlobFacts
  <2>4. k <= Len(a) => a[k] < c[k]
    BY <1>2, <2>2, <2>3, BlobFacts
  <2> QED BY <2>1, <2>2, <2>4 DEF Precedes
<1> QED BY <1>3, <1>4, BlobFacts

LEMMA PrecedesTotal ==
    ASSUME NEW a \in Blob, NEW b \in Blob, a # b
    PROVE  Precedes(a, b) \/ Precedes(b, a)
<1>1. CASE ~IsPrefix(b, a)
  <2>1. PICK i \in 1..Len(b) : /\ i <= Len(a) + 1
                               /\ \A j \in 1..(i - 1) : a[j] = b[j]
                               /\ i <= Len(a) => a[i] # b[i]
    BY <1>1, FirstDeparture
  <2>2. CASE i <= Len(a) /\ ~(a[i] < b[i])
    <3>1. i \in 1..Len(a) /\ b[i] < a[i]
      BY <2>1, <2>2, BlobFacts
    <3> QED BY <2>1, <3>1, BlobFacts DEF Precedes
  <2> QED BY <2>1, <2>2 DEF Precedes
<1>2. CASE IsPrefix(b, a)
  <2>1. /\ Len(b) <= Len(a)
        /\ \A i \in 1..Len(b) : a[i] = b[i]
    BY <1>2, PrefixPointwise
  <2>2. Len(a) # Len(b)
    BY <2>1, SeqEqual DEF Blob
  <2>3. Len(b) + 1 \in 1..Len(a)
    BY <2>1, <2>2, BlobFacts
  <2>4. \A j \in 1..((Len(b) + 1) - 1) : b[j] = a[j]
    BY <2>1, BlobFacts
  <2> QED BY <2>3, <2>4, BlobFacts DEF Precedes
<1> QED BY <1>1, <1>2

(* SQLite's order of key columns is a strict total order of BLOBs of any   *)
(* length, which "pk, sk" and "after the cursor" rely on.                  *)
THEOREM PrecedesStrictTotalOrder ==
    /\ \A a \in Blob : ~Precedes(a, a)
    /\ \A a, b, c \in Blob : Precedes(a, b) /\ Precedes(b, c) => Precedes(a, c)
    /\ \A a, b \in Blob : a # b => Precedes(a, b) \/ Precedes(b, a)
BY PrecedesIrreflexive, PrecedesTransitive, PrecedesTotal

-----------------------------------------------------------------------------
(* The range of a prefix                                                   *)

(* The end of the range of b: b up to its last byte below 255, which is    *)
(* counted up; none when every byte is 255.                                *)
LEMMA SuccessorShape ==
    ASSUME NEW b \in Blob
    PROVE  \/ /\ \A i \in 1..Len(b) : b[i] = 255
              /\ successor(b) = NoBytes
           \/ \E last \in 1..Len(b) :
                /\ b[last] < 255
                /\ \A i \in (last + 1)..Len(b) : b[i] = 255
                /\ successor(b) \in Blob
                /\ Len(successor(b)) = last
                /\ successor(b)[last] = b[last] + 1
                /\ \A i \in 1..(last - 1) : successor(b)[i] = b[i]
<1> DEFINE free == {i \in 1..Len(b) : b[i] # 255}
           last == CHOOSE i \in free : \A j \in free : j <= i
           up   == [b EXCEPT ![last] = @ + 1]
<1>1. CASE free = {}
  BY <1>1 DEF successor
<1>2. CASE free # {}
  <2>1. free \in SUBSET (1..Len(b)) /\ Len(b) \in Nat
    BY BlobFacts
  <2>2. last \in free /\ \A j \in free : j <= last
    <3>1. free \subseteq 0..Len(b)
      BY <2>1
    <3> HIDE DEF free
    <3>2. \E i \in free : \A j \in free : j <= i
      BY <1>2, <2>1, <3>1, Greatest
    <3> QED BY <3>2
  <2>3. successor(b) = SubSeq(up, 1, last)
    BY <1>2 DEF successor
  <2> HIDE DEF last
  <2>4. last \in 1..Len(b) /\ b[last] \in Nat /\ b[last] < 255
    BY <2>2, BlobFacts
  <2>5. \A i \in (last + 1)..Len(b) : b[i] = 255
    BY <2>2, <2>4, BlobFacts
  <2>6. b[last] + 1 \in Byte
    <3>1. b[last] + 1 \in Nat /\ b[last] + 1 <= 255
      BY <2>4
    <3> QED BY <3>1, ByteFacts
  <2>7. /\ up \in Seq(Byte)
        /\ Len(up) = Len(b)
        /\ \A i \in 1..Len(b) : up[i] = IF i = last THEN b[last] + 1 ELSE b[i]
    BY <2>4, <2>6, ExceptSeq DEF Blob
  <2> HIDE DEF up
  <2>8. /\ SubSeq(up, 1, last) \in Seq(Byte)
        /\ Len(SubSeq(up, 1, last)) = last
        /\ \A i \in 1..last : SubSeq(up, 1, last)[i] = up[i]
    BY <2>1, <2>4, <2>7
  <2>9. /\ successor(b) \in Blob
        /\ Len(successor(b)) = last
        /\ successor(b)[last] = b[last] + 1
        /\ \A i \in 1..(last - 1) : successor(b)[i] = b[i]
    BY <2>1, <2>3, <2>4, <2>7, <2>8 DEF Blob
  <2> QED BY <2>4, <2>5, <2>9
<1> QED BY <1>1, <1>2

(* A string that starts with b is not before it, and is before the end of  *)
(* its range.                                                              *)
LEMMA PrefixInRange ==
    ASSUME NEW b \in Blob, NEW s \in Blob, IsPrefix(b, s)
    PROVE  ~Precedes(s, b) /\ (successor(b) # NoBytes => Precedes(s, successor(b)))
<1>1. Len(b) <= Len(s) /\ \A i \in 1..Len(b) : s[i] = b[i]
  BY PrefixPointwise
<1>2. ~Precedes(s, b)
  BY <1>1, BlobFacts DEF Precedes
<1>3. ASSUME successor(b) # NoBytes PROVE Precedes(s, successor(b))
  <2>1. PICK last \in 1..Len(b) :
                /\ Len(successor(b)) = last
                /\ successor(b)[last] = b[last] + 1
                /\ \A i \in 1..(last - 1) : successor(b)[i] = b[i]
    BY <1>3, SuccessorShape
  <2>2. s[last] < successor(b)[last]
    BY <1>1, <2>1, BlobFacts
  <2>3. \A j \in 1..(last - 1) : s[j] = successor(b)[j]
    BY <1>1, <2>1, BlobFacts
  <2>4. last \in 1..Len(successor(b)) /\ last <= Len(s) + 1
    BY <1>1, <2>1, BlobFacts
  <2> QED BY <2>2, <2>3, <2>4 DEF Precedes
<1> QED BY <1>2, <1>3

(* A string that does not start with b is before it, or not before the end *)
(* of its range.                                                           *)
LEMMA NoPrefixOutOfRange ==
    ASSUME NEW b \in Blob, NEW s \in Blob, ~IsPrefix(b, s), ~Precedes(s, b)
    PROVE  successor(b) # NoBytes /\ ~Precedes(s, successor(b))
<1>1. PICK i \in 1..Len(b) : /\ i <= Len(s) + 1
                             /\ \A j \in 1..(i - 1) : s[j] = b[j]
                             /\ i <= Len(s) => s[i] # b[i]
  BY FirstDeparture
<1>2. i <= Len(s) /\ b[i] < s[i]
  BY <1>1, BlobFacts DEF Precedes
<1>3. b[i] < 255
  BY <1>2, BlobFacts
<1>4. PICK last \in 1..Len(b) :
                /\ \A k \in (last + 1)..Len(b) : b[k] = 255
                /\ successor(b) \in Blob
                /\ Len(successor(b)) = last
                /\ successor(b)[last] = b[last] + 1
                /\ \A k \in 1..(last - 1) : successor(b)[k] = b[k]
  BY <1>3, SuccessorShape
<1>5. i <= last
  BY <1>3, <1>4, BlobFacts
<1>6. successor(b)[i] <= s[i]
  BY <1>2, <1>4, <1>5, BlobFacts
<1>7. ASSUME NEW k \in 1..last,
             k <= Len(s) + 1,
             \A j \in 1..(k - 1) : s[j] = successor(b)[j],
             k <= Len(s) => s[k] < successor(b)[k]
      PROVE  FALSE
  <2>1. CASE k < i
    BY <1>1, <1>2, <1>4, <1>5, <1>7, <2>1, BlobFacts
  <2>2. CASE k = i
    BY <1>2, <1>4, <1>5, <1>6, <1>7, <2>2, BlobFacts
  <2>3. CASE k > i
    BY <1>1, <1>2, <1>4, <1>5, <1>7, <2>3, BlobFacts
  <2> QED BY <1>4, <2>1, <2>2, <2>3, BlobFacts
<1>8. ~Precedes(s, successor(b))
  BY <1>4, <1>7 DEF Precedes
<1> QED BY <1>4, <1>8, NoBytesAssumption DEF Blob

(* begins_with as a range of the key column: whatever bytes the prefix     *)
(* holds, the BLOBs from it to its successor are exactly those that start  *)
(* with it; a prefix of 255s has no successor, and its range no end.       *)
THEOREM PrefixRange ==
    \A b, s \in Blob :
       IsPrefix(b, s) <=> /\ ~Precedes(s, b)
                          /\ successor(b) # NoBytes => Precedes(s, successor(b))
BY PrefixInRange, NoPrefixOutOfRange

-----------------------------------------------------------------------------
(* Escaped bytes                                                           *)

(* Of the strings that something is said to be wrong with, a shortest one: *)
(* it is wrong with none of its tails.                                     *)
LEMMA Shortest ==
    ASSUME NEW W \in SUBSET Blob, W # {}
    PROVE  \E s \in W : \A t \in W : Len(s) <= Len(t)
<1> DEFINE L == {Len(s) : s \in W}
<1>1. L \in SUBSET Nat /\ L # {}
  BY BlobFacts
<1>2. PICK n \in L : \A m \in L : n <= m
  <2> HIDE DEF L
  <2> QED BY <1>1, Least
<1> QED BY <1>2

LEMMA TailFacts ==
    ASSUME NEW s \in Blob, s # <<>>
    PROVE  /\ Len(s) \in Nat /\ Len(s) >= 1
           /\ Head(s) = s[1] /\ Head(s) \in Byte
           /\ Tail(s) \in Blob /\ Len(Tail(s)) = Len(s) - 1
           /\ \A i \in 1..(Len(s) - 1) : Tail(s)[i] = s[i + 1]
<1>1. Len(s) \in Nat /\ Len(s) # 0
  BY EmptySeq, BlobFacts DEF Blob
<1>2. Head(s) = s[1]
  OBVIOUS
<1> QED BY <1>1, <1>2, HeadTailProperties DEF Blob

LEMMA ConcatFacts ==
    ASSUME NEW a \in Blob, NEW b \in Blob
    PROVE  /\ a \o b \in Blob
           /\ Len(a) \in Nat /\ Len(b) \in Nat /\ Len(a \o b) = Len(a) + Len(b)
           /\ \A i \in 1..Len(a) : (a \o b)[i] = a[i]
           /\ \A i \in 1..Len(b) : (a \o b)[Len(a) + i] = b[i]
<1>1. Len(a) \in Nat /\ Len(b) \in Nat
  BY BlobFacts
<1>2. /\ a \o b \in Seq(Byte) /\ Len(a \o b) = Len(a) + Len(b)
      /\ \A i \in 1..(Len(a) + Len(b)) :
            (a \o b)[i] = IF i <= Len(a) THEN a[i] ELSE b[i - Len(a)]
  BY ConcatProperties DEF Blob
<1>3. \A i \in 1..Len(a) : (a \o b)[i] = a[i]
  BY <1>1, <1>2
<1>4. ASSUME NEW i \in 1..Len(b) PROVE (a \o b)[Len(a) + i] = b[i]
  <2>1. Len(a) + i \in 1..(Len(a) + Len(b)) /\ ~(Len(a) + i <= Len(a)) /\ (Len(a) + i) - Len(a) = i
    BY <1>1
  <2> QED BY <1>2, <2>1
<1> QED BY <1>1, <1>2, <1>3, <1>4 DEF Blob

(* What appendEscaped makes of one byte.                                   *)
Escaped(byte) == IF byte = 0 THEN <<0, 255>> ELSE <<byte>>

Short(n) == {s \in Blob : Len(s) <= n}

(* f is appendEscaped for the strings of up to n bytes.                    *)
Escapes(f, n) ==
    f = [s \in Short(n) |-> IF s = <<>> THEN <<>> ELSE Escaped(Head(s)) \o f[Tail(s)]]

LEMMA EscapesAgree ==
    ASSUME NEW m \in Nat, NEW n \in Nat, NEW f, NEW g, Escapes(f, m), Escapes(g, n),
           NEW s \in Blob, Len(s) <= m, Len(s) <= n
    PROVE  f[s] = g[s]
<1> DEFINE W == {t \in Blob : Len(t) <= m /\ Len(t) <= n /\ f[t] # g[t]}
<1>1. ASSUME W # {} PROVE FALSE
  <2>1. PICK t \in W : \A u \in W : Len(t) <= Len(u)
    <3>1. W \in SUBSET Blob
      OBVIOUS
    <3> HIDE DEF W
    <3> QED BY <1>1, <3>1, Shortest
  <2>2. t \in Blob /\ Len(t) <= m /\ Len(t) <= n /\ f[t] # g[t]
    BY <2>1
  <2>3. /\ f[t] = IF t = <<>> THEN <<>> ELSE Escaped(Head(t)) \o f[Tail(t)]
        /\ g[t] = IF t = <<>> THEN <<>> ELSE Escaped(Head(t)) \o g[Tail(t)]
    <3>1. t \in Short(m) /\ t \in Short(n)
      BY <2>2 DEF Short
    <3> QED BY <3>1 DEF Escapes
  <2>4. t # <<>> /\ f[Tail(t)] # g[Tail(t)]
    BY <2>2, <2>3
  <2>5. Tail(t) \in Blob /\ Len(Tail(t)) = Len(t) - 1 /\ Len(t) \in Nat
    BY <2>2, <2>4, TailFacts
  <2>6. Tail(t) \in W
    BY <2>2, <2>4, <2>5
  <2> HIDE DEF W
  <2>7. Len(t) <= Len(Tail(t))
    BY <2>1, <2>6
  <2>8. Len(t) <= Len(t) - 1
    BY <2>5, <2>7, Zenon
  <2> QED BY <2>5, <2>8
<1> QED BY <1>1

LEMMA EscapesExist ==
    ASSUME NEW n \in Nat
    PROVE  \E f : Escapes(f, n)
<1> DEFINE W == {k \in Nat : ~ \E f : Escapes(f, k)}
<1>1. ASSUME W # {} PROVE FALSE
  <2>1. PICK k \in W : \A j \in W : k <= j
    <3>1. W \in SUBSET Nat
      OBVIOUS
    <3> HIDE DEF W
    <3> QED BY <1>1, <3>1, Least
  <2>2. k \in Nat /\ ~ \E f : Escapes(f, k)
    BY <2>1
  <2>3. CASE k = 0
    <3> DEFINE f == [s \in Short(0) |-> <<>>]
    <3>1. ASSUME NEW s \in Short(0) PROVE s = <<>>
      <4>1. s \in Blob /\ Len(s) <= 0
        BY DEF Short
      <4> QED BY <4>1, TailFacts
    <3>2. [s \in Short(0) |-> IF s = <<>> THEN <<>> ELSE Escaped(Head(s)) \o f[Tail(s)]] = f
      <4> DEFINE h == [s \in Short(0) |-> IF s = <<>> THEN <<>> ELSE Escaped(Head(s)) \o f[Tail(s)]]
      <4>1. \A s \in Short(0) : h[s] = f[s]
        BY <3>1
      <4> QED BY <4>1
    <3>3. Escapes(f, 0)
      BY <3>2 DEF Escapes
    <3> QED BY <2>2, <2>3, <3>3
  <2>4. CASE k # 0
    <3>1. k - 1 \in Nat /\ ~(k <= k - 1)
      BY <2>2, <2>4
    <3>2. k - 1 \notin W
      BY <2>1, <3>1
    <3>3. PICK f : Escapes(f, k - 1)
      BY <3>1, <3>2
    <3> DEFINE g == [s \in Short(k) |-> IF s = <<>> THEN <<>> ELSE Escaped(Head(s)) \o f[Tail(s)]]
    <3>4. ASSUME NEW s \in Short(k), s # <<>> PROVE f[Tail(s)] = g[Tail(s)]
      <4>1. Tail(s) \in Short(k - 1) /\ Tail(s) \in Short(k)
        <5>1. s \in Blob /\ Len(s) <= k
          BY DEF Short
        <5>2. Tail(s) \in Blob /\ Len(Tail(s)) = Len(s) - 1 /\ Len(s) \in Nat
          BY <3>4, <5>1, TailFacts
        <5> QED BY <2>2, <5>1, <5>2 DEF Short
      <4>2. f[Tail(s)] = IF Tail(s) = <<>> THEN <<>>
                         ELSE Escaped(Head(Tail(s))) \o f[Tail(Tail(s))]
        BY <3>3, <4>1 DEF Escapes
      <4> QED BY <4>1, <4>2
    <3>5. g = [s \in Short(k) |-> IF s = <<>> THEN <<>> ELSE Escaped(Head(s)) \o g[Tail(s)]]
      <4> DEFINE h == [s \in Short(k) |-> IF s = <<>> THEN <<>> ELSE Escaped(Head(s)) \o g[Tail(s)]]
      <4>1. ASSUME NEW s \in Short(k) PROVE h[s] = g[s]
        <5>1. h[s] = IF s = <<>> THEN <<>> ELSE Escaped(Head(s)) \o g[Tail(s)]
          OBVIOUS
        <5>2. g[s] = IF s = <<>> THEN <<>> ELSE Escaped(Head(s)) \o f[Tail(s)]
          OBVIOUS
        <5> HIDE DEF g, h
        <5> QED BY <5>1, <5>2, <3>4
      <4> QED BY <4>1
    <3>6. Escapes(g, k)
      BY <3>5 DEF Escapes
    <3> QED BY <2>2, <3>6
  <2> QED BY <2>3, <2>4
<1> QED BY <1>1

(* The recursion of appendEscaped defines a function, of all byte strings. *)
LEMMA EscapedDefined ==
    appendEscaped = [s \in Seq(Byte) |->
                        IF s = <<>> THEN <<>> ELSE Escaped(Head(s)) \o appendEscaped[Tail(s)]]
<1> DEFINE local(n) == CHOOSE f : Escapes(f, n)
           g == [s \in Seq(Byte) |-> local(Len(s))[s]]
           h == [s \in Seq(Byte) |-> IF s = <<>> THEN <<>> ELSE Escaped(Head(s)) \o g[Tail(s)]]
<1>1. \A n \in Nat : Escapes(local(n), n)
  BY EscapesExist
<1> HIDE DEF local
<1>2. ASSUME NEW s \in Seq(Byte) PROVE g[s] = h[s]
  <2>0. s \in Blob /\ Len(s) \in Nat
    BY BlobFacts DEF Blob
  <2>1. g[s] = IF s = <<>> THEN <<>> ELSE Escaped(Head(s)) \o local(Len(s))[Tail(s)]
    <3>1. s \in Short(Len(s))
      BY <2>0 DEF Short
    <3>2. Escapes(local(Len(s)), Len(s))
      BY <1>1, <2>0
    <3> QED BY <3>1, <3>2 DEF Escapes
  <2>2. ASSUME s # <<>> PROVE local(Len(s))[Tail(s)] = g[Tail(s)]
    <3>1. Tail(s) \in Blob /\ Len(Tail(s)) \in Nat /\ Len(Tail(s)) <= Len(s)
      BY <2>0, <2>2, TailFacts, BlobFacts
    <3>2. local(Len(s))[Tail(s)] = local(Len(Tail(s)))[Tail(s)]
      <4>1. \A m, n \in Nat, t \in Blob :
               Len(t) <= m /\ Len(t) <= n => local(m)[t] = local(n)[t]
        <5> TAKE m, n \in Nat, t \in Blob
        <5> HAVE Len(t) <= m /\ Len(t) <= n
        <5> DEFINE a == local(m)
                   b == local(n)
        <5>1. Escapes(a, m) /\ Escapes(b, n)
          BY <1>1
        <5> HIDE DEF a, b
        <5>2. a[t] = b[t]
          BY <5>1, EscapesAgree
        <5> QED BY <5>2 DEF a, b
      <4>2. Len(Tail(s)) <= Len(Tail(s))
        BY <3>1
      <4> QED BY <2>0, <3>1, <4>1, <4>2
    <3> QED BY <3>1, <3>2 DEF Blob
  <2>3. h[s] = IF s = <<>> THEN <<>> ELSE Escaped(Head(s)) \o g[Tail(s)]
    OBVIOUS
  <2> HIDE DEF g, h
  <2> QED BY <2>1, <2>2, <2>3
<1>3. g = h
  BY <1>2
<1>4. g = [s \in Seq(Byte) |->
              IF s = <<>> THEN <<>>
              ELSE (IF Head(s) = 0 THEN <<0, 255>> ELSE <<Head(s)>>) \o g[Tail(s)]]
  BY <1>3 DEF Escaped
<1> HIDE DEF g
<1>5. appendEscaped = [s \in Seq(Byte) |->
              IF s = <<>> THEN <<>>
              ELSE (IF Head(s) = 0 THEN <<0, 255>> ELSE <<Head(s)>>) \o appendEscaped[Tail(s)]]
  BY <1>4 DEF appendEscaped
<1> QED BY <1>5 DEF Escaped

LEMMA EscapedByte ==
    ASSUME NEW x \in Byte
    PROVE  /\ Escaped(x) \in Blob
           /\ x = 0 => Len(Escaped(x)) = 2 /\ Escaped(x)[1] = 0 /\ Escaped(x)[2] = 255
           /\ x # 0 => Len(Escaped(x)) = 1 /\ Escaped(x)[1] = x
<1>1. 0 \in Byte /\ 255 \in Byte
  BY ByteFacts
<1>2. CASE x = 0
  <2>1. Escaped(x) = <<0, 255>>
    BY <1>2 DEF Escaped
  <2>2. <<0, 255>> \in Seq(Byte) /\ Len(<<0, 255>>) = 2 /\ <<0, 255>>[1] = 0 /\ <<0, 255>>[2] = 255
    BY <1>1
  <2> QED BY <1>2, <2>1, <2>2 DEF Blob
<1>3. CASE x # 0
  <2>1. Escaped(x) = <<x>>
    BY <1>3 DEF Escaped
  <2> QED BY <1>3, <2>1 DEF Blob
<1> QED BY <1>2, <1>3

LEMMA EscapedEquation ==
    /\ appendEscaped[<<>>] = <<>>
    /\ \A s \in Blob : s # <<>> => appendEscaped[s] = Escaped(Head(s)) \o appendEscaped[Tail(s)]
<1>1. <<>> \in Seq(Byte)
  BY EmptySeq
<1> DEFINE g == appendEscaped
           h == [s \in Seq(Byte) |->
                    IF s = <<>> THEN <<>> ELSE Escaped(Head(s)) \o appendEscaped[Tail(s)]]
<1>2. g = h
  BY EscapedDefined
<1>3. \A s \in Seq(Byte) :
         h[s] = IF s = <<>> THEN <<>> ELSE Escaped(Head(s)) \o appendEscaped[Tail(s)]
  OBVIOUS
<1> HIDE DEF h
<1>4. \A s \in Seq(Byte) :
         appendEscaped[s] = IF s = <<>> THEN <<>> ELSE Escaped(Head(s)) \o appendEscaped[Tail(s)]
  BY <1>2, <1>3
<1> QED BY <1>1, <1>4 DEF Blob

LEMMA EscapedIsBlob == \A s \in Blob : appendEscaped[s] \in Blob
<1> DEFINE W == {s \in Blob : appendEscaped[s] \notin Blob}
<1>1. ASSUME W # {} PROVE FALSE
  <2>1. PICK s \in W : \A t \in W : Len(s) <= Len(t)
    <3>1. W \in SUBSET Blob
      OBVIOUS
    <3> HIDE DEF W
    <3> QED BY <1>1, <3>1, Shortest
  <2>2. s \in Blob /\ appendEscaped[s] \notin Blob
    BY <2>1
  <2>3. s # <<>>
    BY <2>2, EscapedEquation, EmptySeq DEF Blob
  <2>4. /\ Len(s) \in Nat /\ Head(s) \in Byte
        /\ Tail(s) \in Blob /\ Len(Tail(s)) = Len(s) - 1
    BY <2>2, <2>3, TailFacts
  <2>5. Tail(s) \notin W
    <3>1. Tail(s) \in W => Len(s) <= Len(Tail(s))
      BY <2>1
    <3>2. ~(Len(s) <= Len(s) - 1)
      BY <2>4
    <3> QED BY <2>4, <3>1, <3>2, Zenon
  <2>6. appendEscaped[Tail(s)] \in Blob
    BY <2>4, <2>5
  <2>7. appendEscaped[s] = Escaped(Head(s)) \o appendEscaped[Tail(s)]
    BY <2>2, <2>3, EscapedEquation
  <2>8. Escaped(Head(s)) \o appendEscaped[Tail(s)] \in Blob
    <3>1. Escaped(Head(s)) \in Blob
      BY <2>4, EscapedByte
    <3> QED BY <2>6, <3>1, ConcatFacts
  <2> QED BY <2>2, <2>7, <2>8
<1> QED BY <1>1

(* What encodeKeyValue puts behind the tag of a string or a binary.        *)
Terminated(s) == appendEscaped[s] \o <<0, 0>>

LEMMA TerminatorIsBlob ==
    <<0, 0>> \in Blob /\ Len(<<0, 0>>) = 2 /\ <<0, 0>>[1] = 0 /\ <<0, 0>>[2] = 0
<1>1. 0 \in Byte
  BY ByteFacts
<1> QED BY <1>1 DEF Blob

LEMMA TerminatedEquation ==
    /\ Terminated(<<>>) = <<0, 0>>
    /\ \A s \in Blob : Terminated(s) \in Blob
    /\ \A s \in Blob : s # <<>> => Terminated(s) = Escaped(Head(s)) \o Terminated(Tail(s))
<1>1. Terminated(<<>>) = <<0, 0>>
  BY EscapedEquation, TerminatorIsBlob, ConcatEmptySeq DEF Terminated, Blob
<1>2. \A s \in Blob : Terminated(s) \in Blob
  BY EscapedIsBlob, TerminatorIsBlob, ConcatFacts DEF Terminated
<1>3. ASSUME NEW s \in Blob, s # <<>>
      PROVE  Terminated(s) = Escaped(Head(s)) \o Terminated(Tail(s))
  <2>1. Head(s) \in Byte /\ Tail(s) \in Blob
    BY <1>3, TailFacts
  <2> DEFINE e == Escaped(Head(s))
             r == appendEscaped[Tail(s)]
  <2>2. e \in Blob /\ r \in Blob
    BY <2>1, EscapedByte, EscapedIsBlob
  <2>3. appendEscaped[s] = e \o r
    BY <1>3, EscapedEquation
  <2> HIDE DEF e, r
  <2>4. (e \o r) \o <<0, 0>> = e \o (r \o <<0, 0>>)
    BY <2>2, TerminatorIsBlob, ConcatAssociative DEF Blob
  <2> QED BY <2>3, <2>4 DEF Terminated, e, r
<1> QED BY <1>1, <1>2, <1>3

-----------------------------------------------------------------------------
(* The order of escaped bytes                                              *)

LEMMA PrecedesAtFirst ==
    ASSUME NEW a \in Blob, NEW b \in Blob, Len(a) >= 1, Len(b) >= 1, a[1] < b[1]
    PROVE  Precedes(a, b)
<1>1. Len(a) \in Nat /\ Len(b) \in Nat
  BY BlobFacts
<1>2. 1 \in 1..Len(b) /\ 1 <= Len(a) + 1 /\ \A j \in 1..(1 - 1) : a[j] = b[j]
  BY <1>1
<1> QED BY <1>2 DEF Precedes

LEMMA PrecedesAtSecond ==
    ASSUME NEW a \in Blob, NEW b \in Blob, Len(a) >= 2, Len(b) >= 2, a[1] = b[1], a[2] < b[2]
    PROVE  Precedes(a, b)
<1>1. Len(a) \in Nat /\ Len(b) \in Nat
  BY BlobFacts
<1>2. 2 \in 1..Len(b) /\ 2 <= Len(a) + 1 /\ \A j \in 1..(2 - 1) : a[j] = b[j]
  BY <1>1
<1> QED BY <1>2 DEF Precedes

(* The same bytes in front of two strings change neither which is first    *)
(* nor whether one starts with the other.                                  *)
LEMMA PrecedesBehind ==
    ASSUME NEW c \in Blob, NEW a \in Blob, NEW b \in Blob, Precedes(a, b)
    PROVE  Precedes(c \o a, c \o b)
<1> DEFINE p == c \o a
           q == c \o b
<1>1. /\ Len(c) \in Nat /\ Len(a) \in Nat /\ Len(b) \in Nat
      /\ Len(p) = Len(c) + Len(a) /\ Len(q) = Len(c) + Len(b)
      /\ \A i \in 1..Len(c) : p[i] = c[i] /\ q[i] = c[i]
      /\ \A i \in 1..Len(a) : p[Len(c) + i] = a[i]
      /\ \A i \in 1..Len(b) : q[Len(c) + i] = b[i]
  BY ConcatFacts
<1>2. PICK i \in 1..Len(b) : /\ i <= Len(a) + 1
                             /\ \A j \in 1..(i - 1) : a[j] = b[j]
                             /\ i <= Len(a) => a[i] < b[i]
  BY DEF Precedes
<1> HIDE DEF p, q
<1>3. Len(c) + i \in 1..Len(q) /\ Len(c) + i <= Len(p) + 1
  BY <1>1, <1>2
<1>4. ASSUME NEW j \in 1..((Len(c) + i) - 1) PROVE p[j] = q[j]
  <2>1. CASE j <= Len(c)
    BY <1>1, <1>2, <2>1
  <2>2. CASE j > Len(c)
    <3>1. j - Len(c) \in 1..(i - 1) /\ j - Len(c) \in 1..Len(a) /\ j - Len(c) \in 1..Len(b)
          /\ Len(c) + (j - Len(c)) = j
      BY <1>1, <1>2, <2>2
    <3>2. p[Len(c) + (j - Len(c))] = a[j - Len(c)] /\ q[Len(c) + (j - Len(c))] = b[j - Len(c)]
      BY <1>1, <3>1
    <3> QED BY <1>2, <3>1, <3>2
  <2> QED BY <1>1, <1>2, <2>1, <2>2
<1>5. Len(c) + i <= Len(p) => p[Len(c) + i] < q[Len(c) + i]
  <2>1. ASSUME Len(c) + i <= Len(p) PROVE p[Len(c) + i] < q[Len(c) + i]
    <3>1. i \in 1..Len(a)
      BY <1>1, <1>2, <2>1
    <3> QED BY <1>1, <1>2, <3>1
  <2> QED BY <2>1
<1>6. Precedes(p, q)
  BY <1>3, <1>4, <1>5 DEF Precedes
<1> QED BY <1>6 DEF p, q

LEMMA PrefixBehind ==
    ASSUME NEW c \in Blob, NEW a \in Blob, NEW b \in Blob
    PROVE  IsPrefix(c \o a, c \o b) <=> IsPrefix(a, b)
<1> DEFINE p == c \o a
           q == c \o b
<1>1. /\ p \in Blob /\ q \in Blob
      /\ Len(c) \in Nat /\ Len(a) \in Nat /\ Len(b) \in Nat
      /\ Len(p) = Len(c) + Len(a) /\ Len(q) = Len(c) + Len(b)
      /\ \A i \in 1..Len(c) : p[i] = c[i] /\ q[i] = c[i]
      /\ \A i \in 1..Len(a) : p[Len(c) + i] = a[i]
      /\ \A i \in 1..Len(b) : q[Len(c) + i] = b[i]
  BY ConcatFacts
<1> HIDE DEF p, q
<1>2. IsPrefix(p, q) <=> Len(p) <= Len(q) /\ \A i \in 1..Len(p) : q[i] = p[i]
  BY <1>1, PrefixPointwise
<1>3. IsPrefix(a, b) <=> Len(a) <= Len(b) /\ \A i \in 1..Len(a) : b[i] = a[i]
  BY PrefixPointwise
<1>4. ASSUME Len(a) <= Len(b), \A i \in 1..Len(p) : q[i] = p[i], NEW i \in 1..Len(a)
      PROVE  b[i] = a[i]
  <2>1. Len(c) + i \in 1..Len(p) /\ i \in 1..Len(b)
    BY <1>1, <1>4
  <2> QED BY <1>1, <1>4, <2>1
<1>5. ASSUME Len(a) <= Len(b), \A i \in 1..Len(a) : b[i] = a[i], NEW i \in 1..Len(p)
      PROVE  q[i] = p[i]
  <2>1. CASE i <= Len(c)
    BY <1>1, <2>1
  <2>2. CASE i > Len(c)
    <3>1. i - Len(c) \in 1..Len(a) /\ i - Len(c) \in 1..Len(b) /\ Len(c) + (i - Len(c)) = i
      BY <1>1, <1>5, <2>2
    <3>2. p[Len(c) + (i - Len(c))] = a[i - Len(c)] /\ q[Len(c) + (i - Len(c))] = b[i - Len(c)]
      BY <1>1, <3>1
    <3> QED BY <1>5, <3>1, <3>2
  <2> QED BY <1>1, <2>1, <2>2
<1>6. Len(p) <= Len(q) <=> Len(a) <= Len(b)
  BY <1>1
<1>7. IsPrefix(p, q) <=> IsPrefix(a, b)
  BY <1>2, <1>3, <1>4, <1>5, <1>6
<1> QED BY <1>7 DEF p, q

(* The first byte of a string, and what follows a 0, once it is escaped.   *)
StartsAs(e, s) ==
    /\ Len(e) \in Nat /\ Len(e) >= 1
    /\ e[1] = s[1]
    /\ s[1] = 0 => Len(e) >= 2 /\ e[2] = 255

LEMMA EscapedHead ==
    ASSUME NEW s \in Blob, s # <<>>, NEW r \in Blob
    PROVE  StartsAs(Escaped(Head(s)) \o r, s)
<1>1. Head(s) = s[1] /\ s[1] \in Byte
  BY TailFacts
<1>2. PICK c \in Blob :
         /\ c = Escaped(s[1])
         /\ s[1] = 0 => Len(c) = 2 /\ c[1] = 0 /\ c[2] = 255
         /\ s[1] # 0 => Len(c) = 1 /\ c[1] = s[1]
  BY <1>1, EscapedByte
<1>3. PICK e \in Blob :
         /\ e = c \o r
         /\ Len(c) \in Nat /\ Len(r) \in Nat /\ Len(e) = Len(c) + Len(r)
         /\ \A i \in 1..Len(c) : e[i] = c[i]
  BY ConcatFacts
<1>4. Len(e) \in Nat /\ Len(e) >= Len(c)
  BY <1>3
<1>5. /\ Len(e) >= 1 /\ e[1] = s[1]
      /\ s[1] = 0 => Len(e) >= 2 /\ e[2] = 255
  <2>1. CASE s[1] = 0
    <3>1. Len(c) = 2 /\ c[1] = 0 /\ c[2] = 255
      BY <1>2, <2>1
    <3>2. Len(e) >= 2 /\ e[1] = 0 /\ e[2] = 255
      BY <1>3, <1>4, <3>1
    <3> QED BY <1>4, <2>1, <3>2
  <2>2. CASE s[1] # 0
    <3>1. Len(c) = 1 /\ c[1] = s[1]
      BY <1>2, <2>2
    <3>2. Len(e) >= 1 /\ e[1] = s[1]
      BY <1>3, <1>4, <3>1
    <3> QED BY <2>2, <3>2
  <2> QED BY <2>1, <2>2
<1>6. e = Escaped(Head(s)) \o r
  BY <1>1, <1>2, <1>3
<1>7. StartsAs(e, s)
  BY <1>4, <1>5 DEF StartsAs
<1> QED BY <1>6, <1>7, Zenon

LEMMA TerminatedHead ==
    ASSUME NEW s \in Blob, s # <<>>
    PROVE  Terminated(s) \in Blob /\ StartsAs(Terminated(s), s)
<1>1. /\ Tail(s) \in Blob /\ Terminated(s) \in Blob /\ Terminated(Tail(s)) \in Blob
      /\ Terminated(s) = Escaped(Head(s)) \o Terminated(Tail(s))
  BY TailFacts, TerminatedEquation
<1>2. StartsAs(Escaped(Head(s)) \o Terminated(Tail(s)), s)
  BY <1>1, EscapedHead
<1> QED BY <1>1, <1>2, Zenon

LEMMA AppendedHead ==
    ASSUME NEW s \in Blob, s # <<>>
    PROVE  appendEscaped[s] \in Blob /\ StartsAs(appendEscaped[s], s)
<1>1. /\ Tail(s) \in Blob /\ appendEscaped[s] \in Blob /\ appendEscaped[Tail(s)] \in Blob
      /\ appendEscaped[s] = Escaped(Head(s)) \o appendEscaped[Tail(s)]
  BY TailFacts, EscapedEquation, EscapedIsBlob
<1>2. StartsAs(Escaped(Head(s)) \o appendEscaped[Tail(s)], s)
  BY <1>1, EscapedHead
<1> QED BY <1>1, <1>2, Zenon

LEMMA PrecedesHeadTail ==
    ASSUME NEW s \in Blob, NEW t \in Blob, s # <<>>, t # <<>>, Precedes(s, t)
    PROVE  s[1] < t[1] \/ (s[1] = t[1] /\ Precedes(Tail(s), Tail(t)))
<1>1. PICK i \in 1..Len(t) : /\ i <= Len(s) + 1
                             /\ \A j \in 1..(i - 1) : s[j] = t[j]
                             /\ i <= Len(s) => s[i] < t[i]
  BY DEF Precedes
<1>2. /\ Len(s) \in Nat /\ Len(s) >= 1 /\ Len(t) \in Nat /\ Len(t) >= 1
      /\ Tail(s) \in Blob /\ Len(Tail(s)) = Len(s) - 1
      /\ Tail(t) \in Blob /\ Len(Tail(t)) = Len(t) - 1
      /\ \A j \in 1..(Len(s) - 1) : Tail(s)[j] = s[j + 1]
      /\ \A j \in 1..(Len(t) - 1) : Tail(t)[j] = t[j + 1]
  BY TailFacts
<1>3. CASE i = 1
  BY <1>1, <1>2, <1>3
<1>4. CASE i > 1
  <2>1. s[1] = t[1]
    BY <1>1, <1>4
  <2>2. i - 1 \in 1..Len(Tail(t)) /\ i - 1 <= Len(Tail(s)) + 1
    BY <1>1, <1>2, <1>4
  <2>3. ASSUME NEW j \in 1..((i - 1) - 1) PROVE Tail(s)[j] = Tail(t)[j]
    <3>1. j \in 1..(Len(s) - 1) /\ j \in 1..(Len(t) - 1) /\ j + 1 \in 1..(i - 1)
      BY <1>1, <1>2, <1>4
    <3> QED BY <1>1, <1>2, <3>1
  <2>4. ASSUME i - 1 <= Len(Tail(s)) PROVE Tail(s)[i - 1] < Tail(t)[i - 1]
    <3>1. i - 1 \in 1..(Len(s) - 1) /\ i - 1 \in 1..(Len(t) - 1) /\ i <= Len(s) /\ (i - 1) + 1 = i
      BY <1>1, <1>2, <1>4, <2>4
    <3>2. Tail(s)[i - 1] = s[i] /\ Tail(t)[i - 1] = t[i]
      BY <1>2, <3>1
    <3> QED BY <1>1, <3>1, <3>2
  <2> QED BY <2>1, <2>2, <2>3, <2>4 DEF Precedes
<1> QED BY <1>1, <1>2, <1>3, <1>4

LEMMA PrefixHeadTail ==
    ASSUME NEW b \in Blob, NEW s \in Blob, b # <<>>, s # <<>>
    PROVE  IsPrefix(b, s) <=> b[1] = s[1] /\ IsPrefix(Tail(b), Tail(s))
<1>1. /\ Len(s) \in Nat /\ Len(s) >= 1 /\ Len(b) \in Nat /\ Len(b) >= 1
      /\ Tail(s) \in Blob /\ Len(Tail(s)) = Len(s) - 1
      /\ Tail(b) \in Blob /\ Len(Tail(b)) = Len(b) - 1
      /\ \A j \in 1..(Len(s) - 1) : Tail(s)[j] = s[j + 1]
      /\ \A j \in 1..(Len(b) - 1) : Tail(b)[j] = b[j + 1]
  BY TailFacts
<1>2. IsPrefix(b, s) <=> Len(b) <= Len(s) /\ \A i \in 1..Len(b) : s[i] = b[i]
  BY PrefixPointwise
<1>3. IsPrefix(Tail(b), Tail(s)) <=>
         Len(Tail(b)) <= Len(Tail(s)) /\ \A i \in 1..Len(Tail(b)) : Tail(s)[i] = Tail(b)[i]
  BY <1>1, PrefixPointwise
<1>4. ASSUME Len(b) <= Len(s), \A i \in 1..Len(b) : s[i] = b[i]
      PROVE  b[1] = s[1] /\ \A i \in 1..Len(Tail(b)) : Tail(s)[i] = Tail(b)[i]
  <2>1. ASSUME NEW i \in 1..Len(Tail(b)) PROVE Tail(s)[i] = Tail(b)[i]
    <3>1. i \in 1..(Len(b) - 1) /\ i \in 1..(Len(s) - 1) /\ i + 1 \in 1..Len(b)
      BY <1>1, <1>4
    <3> QED BY <1>1, <1>4, <3>1
  <2> QED BY <1>1, <1>4, <2>1
<1>5. ASSUME Len(b) <= Len(s), b[1] = s[1],
             \A i \in 1..Len(Tail(b)) : Tail(s)[i] = Tail(b)[i],
             NEW i \in 1..Len(b)
      PROVE  s[i] = b[i]
  <2>1. CASE i = 1
    BY <1>5, <2>1
  <2>2. CASE i > 1
    <3>1. i - 1 \in 1..(Len(b) - 1) /\ i - 1 \in 1..(Len(s) - 1) /\ (i - 1) + 1 = i
      BY <1>1, <1>5, <2>2
    <3>2. Tail(s)[i - 1] = s[i] /\ Tail(b)[i - 1] = b[i] /\ i - 1 \in 1..Len(Tail(b))
      BY <1>1, <3>1
    <3> QED BY <1>5, <3>2
  <2> QED BY <1>1, <2>1, <2>2
<1>6. Len(Tail(b)) <= Len(Tail(s)) <=> Len(b) <= Len(s)
  BY <1>1
<1> QED BY <1>2, <1>3, <1>4, <1>5, <1>6

(* Escaping keeps the order of strings and, with the terminator, never     *)
(* takes a string for one that continues it.                               *)
LEMMA EscapedSorts ==
    ASSUME NEW a \in Blob, NEW b \in Blob, Precedes(a, b)
    PROVE  Precedes(Terminated(a), Terminated(b))
<1> DEFINE W == {s \in Blob : \E t \in Blob :
                    Precedes(s, t) /\ ~Precedes(Terminated(s), Terminated(t))}
<1>1. ASSUME W # {} PROVE FALSE
  <2>1. PICK s \in W : \A u \in W : Len(s) <= Len(u)
    <3>1. W \in SUBSET Blob
      OBVIOUS
    <3> HIDE DEF W
    <3> QED BY <1>1, <3>1, Shortest
  <2>2. s \in Blob
    BY <2>1
  <2>3. PICK t \in Blob : Precedes(s, t) /\ ~Precedes(Terminated(s), Terminated(t))
    BY <2>1
  <2>4. t # <<>>
    BY <2>3 DEF Precedes
  <2>5. /\ Terminated(t) = Escaped(Head(t)) \o Terminated(Tail(t))
        /\ Tail(t) \in Blob /\ Terminated(Tail(t)) \in Blob
    BY <2>3, <2>4, TailFacts, TerminatedEquation
  <2>6. /\ Terminated(t) \in Blob /\ Len(Terminated(t)) >= 1
        /\ Terminated(t)[1] = t[1]
        /\ t[1] = 0 => Len(Terminated(t)) >= 2 /\ Terminated(t)[2] = 255
    BY <2>3, <2>4, TerminatedHead DEF StartsAs
  <2>7. Len(t) >= 1 /\ t[1] \in Nat
    BY <2>3, <2>4, TailFacts, BlobFacts
  <2>8. CASE s = <<>>
    <3>1. Terminated(s) = <<0, 0>>
      BY <2>8, TerminatedEquation
    <3>2. CASE t[1] = 0
      BY <2>3, <2>6, <3>1, <3>2, TerminatorIsBlob, PrecedesAtSecond
    <3>3. CASE t[1] # 0
      BY <2>3, <2>6, <2>7, <3>1, <3>3, TerminatorIsBlob, PrecedesAtFirst
    <3> QED BY <3>2, <3>3
  <2>9. CASE s # <<>>
    <3>1. /\ Terminated(s) = Escaped(Head(s)) \o Terminated(Tail(s))
          /\ Tail(s) \in Blob /\ Terminated(Tail(s)) \in Blob
          /\ Len(s) \in Nat /\ Len(Tail(s)) = Len(s) - 1
          /\ Head(s) = s[1] /\ Head(t) = t[1] /\ s[1] \in Byte
      BY <2>2, <2>3, <2>4, <2>9, TailFacts, TerminatedEquation
    <3>2. CASE s[1] < t[1]
      <4>1. Terminated(s) \in Blob /\ Len(Terminated(s)) >= 1 /\ Terminated(s)[1] = s[1]
        BY <2>2, <2>9, TerminatedHead DEF StartsAs
      <4> QED BY <2>3, <2>6, <3>2, <4>1, PrecedesAtFirst
    <3>3. CASE s[1] = t[1] /\ Precedes(Tail(s), Tail(t))
      <4>1. Tail(s) \notin W
        <5>1. Tail(s) \in W => Len(s) <= Len(Tail(s))
          BY <2>1
        <5>2. ~(Len(s) <= Len(s) - 1)
          BY <3>1
        <5> QED BY <3>1, <5>1, <5>2, Zenon
      <4>2. Precedes(Terminated(Tail(s)), Terminated(Tail(t)))
        BY <2>5, <3>1, <3>3, <4>1
      <4>3. Escaped(s[1]) \in Blob
        BY <3>1, EscapedByte
      <4>4. Precedes(Escaped(s[1]) \o Terminated(Tail(s)), Escaped(s[1]) \o Terminated(Tail(t)))
        BY <2>5, <3>1, <4>2, <4>3, PrecedesBehind
      <4> QED BY <2>3, <2>5, <3>1, <3>3, <4>4
    <3> QED BY <2>2, <2>3, <2>4, <2>9, <3>2, <3>3, PrecedesHeadTail
  <2> QED BY <2>8, <2>9
<1> QED BY <1>1

LEMMA EscapedPrefix ==
    ASSUME NEW b \in Blob, NEW s \in Blob
    PROVE  IsPrefix(b, s) <=> IsPrefix(appendEscaped[b], Terminated(s))
<1> DEFINE W == {a \in Blob : \E t \in Blob :
                    ~(IsPrefix(a, t) <=> IsPrefix(appendEscaped[a], Terminated(t)))}
<1>1. ASSUME W # {} PROVE FALSE
  <2>1. PICK a \in W : \A u \in W : Len(a) <= Len(u)
    <3>1. W \in SUBSET Blob
      OBVIOUS
    <3> HIDE DEF W
    <3> QED BY <1>1, <3>1, Shortest
  <2>2. a \in Blob
    BY <2>1
  <2>3. PICK t \in Blob : ~(IsPrefix(a, t) <=> IsPrefix(appendEscaped[a], Terminated(t)))
    BY <2>1
  <2>4. PICK u \in Blob : u = Terminated(t)
    BY TerminatedEquation
  <2>5. CASE a = <<>>
    <3>1. appendEscaped[a] = <<>> /\ <<>> \in Blob /\ Len(<<>>) = 0
      BY <2>5, EscapedEquation, EmptySeq DEF Blob
    <3>2. ASSUME NEW v \in Blob PROVE IsPrefix(<<>>, v)
      BY <3>1, BlobFacts, PrefixPointwise
    <3> QED BY <2>3, <2>4, <2>5, <3>1, <3>2
  <2>6. CASE a # <<>>
    <3>1. /\ Tail(a) \in Blob /\ Len(a) \in Nat /\ Len(a) >= 1 /\ Len(Tail(a)) = Len(a) - 1
          /\ Head(a) = a[1] /\ a[1] \in Byte
          /\ appendEscaped[a] = Escaped(a[1]) \o appendEscaped[Tail(a)]
          /\ appendEscaped[Tail(a)] \in Blob
      BY <2>2, <2>6, TailFacts, EscapedEquation, EscapedIsBlob
    <3>2. PICK e \in Blob :
          /\ e = appendEscaped[a]
          /\ Len(e) \in Nat /\ Len(e) >= 1
          /\ e[1] = a[1]
          /\ a[1] = 0 => Len(e) >= 2 /\ e[2] = 255
      <4>1. PICK e \in Blob : e = appendEscaped[a] /\ StartsAs(e, a)
        BY <2>2, <2>6, AppendedHead, Zenon
      <4> QED BY <4>1 DEF StartsAs
    <3>3. IsPrefix(e, u) <=>
             Len(e) <= Len(u) /\ \A i \in 1..Len(e) : u[i] = e[i]
      BY PrefixPointwise
    <3>4. CASE t = <<>>
      <4>1. ~IsPrefix(a, t)
        <5>1. Len(t) = 0
          BY <3>4
        <5> QED BY <2>2, <2>3, <3>1, <5>1, PrefixPointwise
      <4>2. u[1] = 0 /\ u[2] = 0
        BY <2>4, <3>4, TerminatedEquation, TerminatorIsBlob
      <4>3. ~IsPrefix(e, u)
        BY <3>2, <3>3, <4>2
      <4> QED BY <2>3, <2>4, <3>2, <4>1, <4>3
    <3>5. CASE t # <<>>
      <4>1. /\ Tail(t) \in Blob /\ Head(t) = t[1] /\ Terminated(Tail(t)) \in Blob
            /\ Terminated(t) = Escaped(t[1]) \o Terminated(Tail(t))
        BY <2>3, <3>5, TailFacts, TerminatedEquation
      <4>2. u[1] = t[1]
        BY <2>3, <2>4, <3>5, TerminatedHead DEF StartsAs
      <4>3. CASE a[1] # t[1]
        <5>1. ~IsPrefix(a, t)
          BY <2>2, <2>3, <2>6, <3>5, <4>3, PrefixHeadTail
        <5>2. ~IsPrefix(e, u)
          BY <3>2, <3>3, <4>2, <4>3
        <5> QED BY <2>3, <2>4, <3>2, <5>1, <5>2
      <4>4. CASE a[1] = t[1]
        <5>1. IsPrefix(a, t) <=> IsPrefix(Tail(a), Tail(t))
          BY <2>2, <2>3, <2>6, <3>5, <4>4, PrefixHeadTail
        <5>2. Escaped(a[1]) \in Blob
          BY <3>1, EscapedByte
        <5>3. IsPrefix(e, u) <=> IsPrefix(appendEscaped[Tail(a)], Terminated(Tail(t)))
          BY <2>4, <3>1, <3>2, <4>1, <4>4, <5>2, PrefixBehind
        <5>4. Tail(a) \notin W
          <6>1. Tail(a) \in W => Len(a) <= Len(Tail(a))
            BY <2>1
          <6>2. ~(Len(a) <= Len(a) - 1)
            BY <3>1
          <6> QED BY <3>1, <6>1, <6>2, Zenon
        <5>5. IsPrefix(Tail(a), Tail(t)) <=> IsPrefix(appendEscaped[Tail(a)], Terminated(Tail(t)))
          BY <3>1, <4>1, <5>4
        <5> QED BY <2>3, <2>4, <3>2, <5>1, <5>3, <5>5
      <4> QED BY <4>3, <4>4
    <3> QED BY <3>4, <3>5
  <2> QED BY <2>5, <2>6
<1> QED BY <1>1

-----------------------------------------------------------------------------
(* Numbers                                                                 *)

DigitStrings == Seq(Digit)

(* DigitStrings without a zero at their end.                                     *)
TrimmedDigits == {d \in DigitStrings : d # <<>> /\ d[Len(d)] # 0}

LEMMA DigitFacts ==
    ASSUME NEW d \in DigitStrings
    PROVE  /\ Len(d) \in Nat
           /\ \A i \in 1..Len(d) : d[i] \in Nat /\ d[i] <= 9
<1>1. Len(d) \in Nat /\ d \in [1..Len(d) -> Digit]
  BY LenProperties DEF DigitStrings
<1>2. \A x \in Digit : x \in Nat /\ x <= 9
  BY DEF Digit
<1>3. ASSUME NEW i \in 1..Len(d) PROVE d[i] \in Nat /\ d[i] <= 9
  <2>1. d[i] \in Digit
    BY <1>1
  <2> QED BY <2>1, <1>2
<1> QED BY <1>1, <1>3

(* a and b differ at a position of both, a being the lesser there.         *)
Lesser(a, b, i) ==
    /\ i \in 1..Len(a) /\ i \in 1..Len(b)
    /\ \A j \in 1..(i - 1) : a[j] = b[j]
    /\ a[i] < b[i]

LEMMA LesserPrecedes ==
    ASSUME NEW a \in Blob, NEW b \in Blob, NEW i \in Nat, Lesser(a, b, i)
    PROVE  Precedes(a, b)
BY BlobFacts DEF Lesser, Precedes

-----------------------------------------------------------------------------
(* DigitStrings                                                                  *)

LEMMA Zeros ==
    ASSUME NEW n \in Int
    PROVE  /\ [i \in 1..n |-> 0] \in DigitStrings
           /\ Len([i \in 1..n |-> 0]) = IF n > 0 THEN n ELSE 0
           /\ \A j \in 1..n : [i \in 1..n |-> 0][j] = 0
<1> DEFINE k == IF n > 0 THEN n ELSE 0
           z == [i \in 1..n |-> 0]
<1>1. k \in Nat /\ 1..n = 1..k
  OBVIOUS
<1>2. z \in [1..k -> Digit]
  BY <1>1 DEF Digit
<1>3. z \in Seq(Digit) /\ Len(z) = k
  <2> HIDE DEF z, k
  <2> QED BY <1>1, <1>2, LenProperties
<1> QED BY <1>3 DEF DigitStrings

LEMMA PadFacts ==
    ASSUME NEW d \in DigitStrings, NEW e \in DigitStrings
    PROVE  /\ padRight(d, e) \in DigitStrings
           /\ Len(padRight(d, e)) = IF Len(e) > Len(d) THEN Len(e) ELSE Len(d)
           /\ \A i \in 1..Len(padRight(d, e)) :
                 padRight(d, e)[i] = IF i <= Len(d) THEN d[i] ELSE 0
<1> DEFINE n == Len(e) - Len(d)
           z == [i \in 1..n |-> 0]
<1>1. Len(d) \in Nat /\ Len(e) \in Nat
  BY DigitFacts
<1>4. padRight(d, e) = d \o z
  BY DEF padRight
<1>0. n \in Int /\ n = Len(e) - Len(d)
  BY <1>1
<1> HIDE DEF n
<1>7. /\ z \in DigitStrings
      /\ Len(z) = IF n > 0 THEN n ELSE 0
      /\ \A i \in 1..n : z[i] = 0
  BY <1>0, Zeros
<1> HIDE DEF z
<1>2. z \in DigitStrings /\ Len(z) = IF Len(e) > Len(d) THEN Len(e) - Len(d) ELSE 0
  BY <1>0, <1>1, <1>7
<1>3. \A i \in 1..Len(z) : z[i] = 0
  BY <1>0, <1>7
<1>5. /\ d \o z \in Seq(Digit)
      /\ Len(d \o z) = Len(d) + Len(z)
      /\ \A i \in 1..(Len(d) + Len(z)) :
            (d \o z)[i] = IF i <= Len(d) THEN d[i] ELSE z[i - Len(d)]
  BY <1>2, ConcatProperties DEF DigitStrings
<1>6. ASSUME NEW i \in 1..(Len(d) + Len(z)), i > Len(d)
      PROVE  (d \o z)[i] = 0
  <2>1. i - Len(d) \in 1..Len(z)
    BY <1>1, <1>2, <1>6
  <2> QED BY <1>3, <1>5, <1>6, <2>1
<1> QED BY <1>1, <1>2, <1>4, <1>5, <1>6 DEF DigitStrings

(* Padded digits that are the same are the same digits.                    *)
LEMMA PadInjective ==
    ASSUME NEW d \in TrimmedDigits, NEW e \in TrimmedDigits, padRight(d, e) = padRight(e, d)
    PROVE  d = e
<1>1. d \in DigitStrings /\ e \in DigitStrings /\ Len(d) \in Nat /\ Len(e) \in Nat
  BY DigitFacts DEF TrimmedDigits
<1>2. /\ Len(d) \in 1..Len(d) /\ Len(e) \in 1..Len(e)
      /\ d[Len(d)] # 0 /\ e[Len(e)] # 0
  <2>1. Len(d) # 0 /\ Len(e) # 0
    BY EmptySeq DEF TrimmedDigits, DigitStrings
  <2> QED BY <1>1, <2>1 DEF TrimmedDigits
<1> DEFINE n == IF Len(e) > Len(d) THEN Len(e) ELSE Len(d)
<1>3. \A i \in 1..n : (IF i <= Len(d) THEN d[i] ELSE 0) = (IF i <= Len(e) THEN e[i] ELSE 0)
  BY <1>1, PadFacts
<1>4. Len(d) = Len(e)
  BY <1>1, <1>2, <1>3
<1>5. \A i \in 1..Len(d) : d[i] = e[i]
  BY <1>1, <1>3, <1>4
<1> QED BY <1>1, <1>4, <1>5, SeqEqual DEF DigitStrings

-----------------------------------------------------------------------------
(* Parsed numbers                                                          *)

Nonzero == [sign : {-1, 1}, digits : TrimmedDigits, exp : Int]

(* A numeral is zero, or has digits between its first and its last that is *)
(* not zero.                                                               *)
LEMMA ParseFacts ==
    ASSUME NEW num \in Numerals
    PROVE  parseDecimal(num) = Zero \/ parseDecimal(num) \in Nonzero
<1> DEFINE raw     == num.int \o num.frac
           nonzero == {i \in 1..Len(raw) : raw[i] # 0}
           first   == CHOOSE i \in nonzero : \A j \in nonzero : i <= j
           last    == CHOOSE i \in nonzero : \A j \in nonzero : j <= i
           digits  == SubSeq(raw, first, last)
<1>1. /\ num.int \in DigitStrings /\ num.frac \in DigitStrings /\ num.exp \in Int
      /\ raw \in DigitStrings /\ Len(num.int) \in Nat
  <2>1. num.int \in DigitStrings /\ num.frac \in DigitStrings /\ num.exp \in Int
    BY DEF Numerals, DigitStrings
  <2> QED BY <2>1, ConcatProperties, DigitFacts DEF DigitStrings
<1>2. parseDecimal(num) =
        IF nonzero = {} THEN Zero
        ELSE [sign   |-> IF num.neg THEN -1 ELSE 1,
              digits |-> digits,
              exp    |-> num.exp + Len(num.int) - (first - 1)]
  BY DEF parseDecimal, Trimmed
<1> HIDE DEF raw
<1>3. CASE nonzero # {}
  <2>1. Len(raw) \in Nat /\ nonzero \in SUBSET (1..Len(raw)) /\ nonzero \in SUBSET Nat
    BY <1>1, DigitFacts
  <2>2. \E i \in nonzero : \A j \in nonzero : i <= j
    <3> HIDE DEF nonzero
    <3> QED BY <1>3, <2>1, Least
  <2>3. \E i \in nonzero : \A j \in nonzero : j <= i
    <3>1. nonzero \subseteq 0..Len(raw)
      BY <2>1
    <3> HIDE DEF nonzero
    <3> QED BY <1>3, <2>1, <3>1, Greatest
  <2>4. first \in nonzero /\ last \in nonzero /\ first <= last
    <3>1. first \in nonzero /\ \A j \in nonzero : first <= j
      <4> HIDE DEF nonzero
      <4> QED BY <2>2
    <3>2. last \in nonzero
      <4> HIDE DEF nonzero
      <4> QED BY <2>3
    <3> HIDE DEF first, last
    <3> QED BY <3>1, <3>2
  <2> HIDE DEF first, last
  <2>5. first \in 1..Len(raw) /\ last \in 1..Len(raw) /\ raw[last] # 0
    BY <2>4
  <2>6. \A i \in first..last : raw[i] \in Digit
    <3>1. \A i \in 1..Len(raw) : raw[i] \in Digit
      BY <1>1, LenProperties DEF DigitStrings
    <3> QED BY <2>1, <2>5, <3>1
  <2>7. /\ digits \in Seq(Digit)
        /\ Len(digits) = last - first + 1
        /\ \A i \in 1..(last - first + 1) : digits[i] = raw[first + i - 1]
    BY <2>1, <2>4, <2>5, <2>6, SubSeqProperties
  <2>8. digits \in TrimmedDigits
    <3> HIDE DEF digits
    <3>1. last - first + 1 \in 1..(last - first + 1) /\ first + (last - first + 1) - 1 = last
      BY <2>1, <2>4, <2>5
    <3>2. digits[Len(digits)] # 0
      BY <2>5, <2>7, <3>1
    <3>3. digits # <<>>
      BY <2>7, <3>1, EmptySeq
    <3> QED BY <2>7, <3>2, <3>3 DEF TrimmedDigits, DigitStrings
  <2>9. num.exp + Len(num.int) - (first - 1) \in Int
    BY <1>1, <2>1, <2>5
  <2> HIDE DEF digits, nonzero
  <2> QED BY <1>2, <1>3, <2>8, <2>9 DEF Nonzero
<1>4. CASE nonzero = {}
  BY <1>2, <1>4
<1> QED BY <1>3, <1>4

-----------------------------------------------------------------------------
(* Payloads                                                                *)

(* High and low byte of a number of 16 bits.                               *)
LEMMA TwoBytes ==
    ASSUME NEW x \in Int, 0 <= x, x <= 65535
    PROVE  /\ x \div 256 \in Byte /\ x % 256 \in Byte
           /\ x = 256 * (x \div 256) + (x % 256)
<1>1. x \div 256 \in Nat /\ x \div 256 <= 255
  OBVIOUS
<1>2. x % 256 \in Nat /\ x % 256 <= 255 /\ x = 256 * (x \div 256) + (x % 256)
  OBVIOUS
<1> QED BY <1>1, <1>2, ByteFacts

LEMMA TwoBytesOrder ==
    ASSUME NEW x \in Int, NEW y \in Int, 0 <= x, x < y
    PROVE  x \div 256 < y \div 256 \/ (x \div 256 = y \div 256 /\ x % 256 < y % 256)
OBVIOUS

(* The biased exponent fits into 16 bits and keeps the order.              *)
LEMMA Bias ==
    ASSUME NEW x \in Int, IsInt16(x)
    PROVE  (x + 32768) % 65536 = x + 32768 /\ 0 <= x + 32768
<1>1. -32768 <= x /\ x < 32768
  BY DEF IsInt16
<1>2. ASSUME -32768 <= x, x < 32768
      PROVE  (x + 32768) % 65536 = x + 32768 /\ 0 <= x + 32768
  BY ONLY <1>2, x \in Int
<1> QED BY <1>1, <1>2

LEMMA PayloadFacts ==
    ASSUME NEW dec \in Nonzero
    PROVE  LET p      == Payload(dec)
               n      == Len(dec.digits)
               biased == (dec.exp + 32768) % 65536
           IN
           /\ p \in Blob /\ n \in Nat /\ Len(p) = n + 3
           /\ p[1] = biased \div 256 /\ p[2] = biased % 256
           /\ \A i \in 1..n : p[i + 2] = 48 + dec.digits[i]
           /\ p[n + 3] = 0
<1> DEFINE p      == Payload(dec)
           d      == dec.digits
           n      == Len(d)
           biased == (dec.exp + 32768) % 65536
           head   == <<biased \div 256, biased % 256>>
           body   == [i \in 1..n |-> 48 + d[i]]
<1>1. d \in DigitStrings /\ n \in Nat /\ dec.exp \in Int
  BY DigitFacts DEF Nonzero, TrimmedDigits
<1>2. biased \in Int /\ 0 <= biased /\ biased <= 65535
  BY <1>1
<1>3. p = head \o body \o <<0>>
  BY DEF Payload
<1> HIDE DEF biased
<1>4. head \in Seq(Byte) /\ Len(head) = 2 /\ head[1] = biased \div 256 /\ head[2] = biased % 256
  <2>2. biased \div 256 \in Byte /\ biased % 256 \in Byte
    BY <1>2, TwoBytes
  <2> QED BY <2>2
<1>5. body \in Seq(Byte) /\ Len(body) = n /\ \A i \in 1..n : body[i] = 48 + d[i]
  <2>1. ASSUME NEW i \in 1..n PROVE 48 + d[i] \in Byte
    <3>1. d[i] \in Nat /\ d[i] <= 9
      BY <1>1, DigitFacts
    <3>2. 48 + d[i] \in Nat /\ 48 + d[i] <= 255
      BY <3>1
    <3> QED BY <3>2, ByteFacts
  <2>2. body \in [1..n -> Byte]
    BY <2>1
  <2>3. \A i \in 1..n : body[i] = 48 + d[i]
    OBVIOUS
  <2> HIDE DEF body, n
  <2>4. body \in Seq(Byte)
    BY <1>1, <2>2
  <2> QED BY <1>1, <2>2, <2>3, <2>4, LenProperties
<1>6. <<0>> \in Seq(Byte) /\ Len(<<0>>) = 1 /\ <<0>>[1] = 0
  BY DEF Byte
<1> HIDE DEF p, d, n, head, body
<1>7. /\ head \o body \in Seq(Byte) /\ Len(head \o body) = n + 2
      /\ \A i \in 1..(n + 2) : (head \o body)[i] = IF i <= 2 THEN head[i] ELSE body[i - 2]
  <2>0. head \in Seq(Byte) /\ body \in Seq(Byte)
    BY <1>4, <1>5
  <2>1. /\ head \o body \in Seq(Byte) /\ Len(head \o body) = Len(head) + Len(body)
        /\ \A i \in 1..(Len(head) + Len(body)) :
              (head \o body)[i] = IF i <= Len(head) THEN head[i] ELSE body[i - Len(head)]
    BY ONLY <2>0, ConcatProperties
  <2>2. Len(head) + Len(body) = n + 2
    BY <1>1, <1>4, <1>5
  <2> QED BY <1>4, <2>1, <2>2
<1>8. /\ p \in Seq(Byte) /\ Len(p) = n + 3
      /\ \A i \in 1..(n + 3) : p[i] = IF i <= n + 2 THEN (head \o body)[i] ELSE <<0>>[i - (n + 2)]
  <2>1. /\ (head \o body) \o <<0>> \in Seq(Byte) /\ Len((head \o body) \o <<0>>) = (n + 2) + 1
        /\ \A i \in 1..((n + 2) + 1) :
              ((head \o body) \o <<0>>)[i] =
                 IF i <= n + 2 THEN (head \o body)[i] ELSE <<0>>[i - (n + 2)]
    BY <1>6, <1>7, ConcatProperties
  <2> QED BY <1>1, <1>3, <2>1
<1>9. p[1] = head[1] /\ p[2] = head[2]
  <2>1. /\ 1 \in 1..(n + 2) /\ 1 \in 1..(n + 3) /\ 2 \in 1..(n + 2) /\ 2 \in 1..(n + 3)
        /\ 1 <= n + 2 /\ 2 <= n + 2
    BY <1>1
  <2>2. p[1] = (head \o body)[1] /\ p[2] = (head \o body)[2]
    BY <1>8, <2>1
  <2> QED BY <1>7, <2>1, <2>2
<1>10. ASSUME NEW i \in 1..n PROVE p[i + 2] = body[i]
  <2>1. /\ i + 2 \in 1..(n + 2) /\ i + 2 \in 1..(n + 3)
        /\ (i + 2) - 2 = i /\ ~(i + 2 <= 2)
        /\ i + 2 <= n + 2
    BY <1>1
  <2>2. p[i + 2] = (head \o body)[i + 2]
    BY <1>8, <2>1
  <2>3. (head \o body)[i + 2] = body[(i + 2) - 2]
    BY <1>7, <2>1
  <2> QED BY <2>1, <2>2, <2>3
<1>11. p[n + 3] = 0
  <2>1. n + 3 \in 1..(n + 3) /\ ~(n + 3 <= n + 2) /\ (n + 3) - (n + 2) = 1
    BY <1>1
  <2> QED BY <1>6, <1>8, <2>1
<1>12. \A i \in 1..n : p[i + 2] = 48 + d[i]
  BY <1>5, <1>10
<1> QED BY <1>1, <1>4, <1>8, <1>9, <1>11, <1>12 DEF p, d, n, biased, Blob

(* a is of lesser magnitude than b, as compareNumbers sees it.             *)
Smaller(a, b) ==
    \/ a.exp < b.exp
    \/ /\ a.exp = b.exp
       /\ Precedes(padRight(a.digits, b.digits), padRight(b.digits, a.digits))

LEMMA PaddedDeparture ==
    ASSUME NEW d \in DigitStrings, NEW e \in DigitStrings, Precedes(padRight(d, e), padRight(e, d))
    PROVE  \E i \in 1..Len(e) :
              /\ \A j \in 1..(i - 1) : (IF j <= Len(d) THEN d[j] ELSE 0) = e[j]
              /\ (IF i <= Len(d) THEN d[i] ELSE 0) < e[i]
<1> DEFINE dd == padRight(d, e)
           ee == padRight(e, d)
           n  == IF Len(e) > Len(d) THEN Len(e) ELSE Len(d)
<1>1. Len(d) \in Nat /\ Len(e) \in Nat /\ n \in Nat /\ Len(e) <= n
  BY DigitFacts
<1>2. /\ Len(dd) = n /\ Len(ee) = n
      /\ \A i \in 1..n : dd[i] = IF i <= Len(d) THEN d[i] ELSE 0
      /\ \A i \in 1..n : ee[i] = IF i <= Len(e) THEN e[i] ELSE 0
  BY <1>1, PadFacts
<1> HIDE DEF dd, ee, n
<1>3. PICK i \in 1..n : (\A j \in 1..(i - 1) : dd[j] = ee[j]) /\ dd[i] < ee[i]
  <2>1. PICK i \in 1..Len(ee) : /\ \A j \in 1..(i - 1) : dd[j] = ee[j]
                                /\ i <= Len(dd) => dd[i] < ee[i]
    BY DEF Precedes, dd, ee
  <2> QED BY <1>1, <1>2, <2>1
<1>4. dd[i] \in Nat
  <2>1. i <= Len(d) => d[i] \in Nat
    BY <1>1, <1>3, DigitFacts
  <2> QED BY <1>2, <1>3, <2>1
<1>5. i <= Len(e)
  BY <1>1, <1>2, <1>3, <1>4
<1>6. i \in 1..Len(e)
  BY <1>1, <1>3, <1>5
<1>7. ASSUME NEW j \in 1..(i - 1)
      PROVE  (IF j <= Len(d) THEN d[j] ELSE 0) = e[j]
  <2>1. j \in 1..n /\ j <= Len(e)
    BY <1>1, <1>3, <1>5
  <2> QED BY <1>2, <1>3, <2>1
<1>8. (IF i <= Len(d) THEN d[i] ELSE 0) < e[i]
  BY <1>2, <1>3, <1>5
<1> QED BY <1>6, <1>7, <1>8

(* The payload of the lesser magnitude is the lesser of the two at a       *)
(* position of both: in the exponent, in a digit, or where its terminator  *)
(* meets a digit of the other.                                             *)
LEMMA PayloadLesser ==
    ASSUME NEW a \in Nonzero, NEW b \in Nonzero, IsInt16(a.exp), IsInt16(b.exp), Smaller(a, b)
    PROVE  \E i \in Nat : Lesser(Payload(a), Payload(b), i)
<1> DEFINE p  == Payload(a)
           q  == Payload(b)
           d  == a.digits
           e  == b.digits
           x  == a.exp + 32768
           y  == b.exp + 32768
<1>1. /\ d \in DigitStrings /\ e \in DigitStrings /\ Len(d) \in Nat /\ Len(e) \in Nat
      /\ a.exp \in Int /\ b.exp \in Int
  BY DigitFacts DEF Nonzero, TrimmedDigits
<1>2. /\ x \in Int /\ y \in Int /\ 0 <= x /\ 0 <= y
      /\ x % 65536 = x /\ y % 65536 = y
  <2>2. (a.exp + 32768) % 65536 = a.exp + 32768 /\ 0 <= a.exp + 32768
    BY <1>1, Bias
  <2>3. (b.exp + 32768) % 65536 = b.exp + 32768 /\ 0 <= b.exp + 32768
    BY <1>1, Bias
  <2> QED BY <1>1, <2>2, <2>3
<1>3. /\ p \in Blob /\ Len(p) = Len(d) + 3
      /\ p[1] = x \div 256 /\ p[2] = x % 256
      /\ \A i \in 1..Len(d) : p[i + 2] = 48 + d[i]
      /\ p[Len(d) + 3] = 0
  <2>1. /\ p \in Blob /\ Len(p) = Len(d) + 3
        /\ p[1] = (x % 65536) \div 256 /\ p[2] = (x % 65536) % 256
        /\ \A i \in 1..Len(d) : p[i + 2] = 48 + d[i]
        /\ p[Len(d) + 3] = 0
    BY PayloadFacts
  <2> HIDE DEF p, d, x
  <2> QED BY <1>2, <2>1
<1>4. /\ q \in Blob /\ Len(q) = Len(e) + 3
      /\ q[1] = y \div 256 /\ q[2] = y % 256
      /\ \A i \in 1..Len(e) : q[i + 2] = 48 + e[i]
      /\ q[Len(e) + 3] = 0
  <2>1. /\ q \in Blob /\ Len(q) = Len(e) + 3
        /\ q[1] = (y % 65536) \div 256 /\ q[2] = (y % 65536) % 256
        /\ \A i \in 1..Len(e) : q[i + 2] = 48 + e[i]
        /\ q[Len(e) + 3] = 0
    BY PayloadFacts
  <2> HIDE DEF q, e, y
  <2> QED BY <1>2, <2>1
<1>5. CASE a.exp < b.exp
  <2>1. x < y
    BY <1>1, <1>5
  <2>2. x \div 256 < y \div 256 \/ (x \div 256 = y \div 256 /\ x % 256 < y % 256)
    <3> HIDE DEF x, y
    <3> QED BY <1>2, <2>1, TwoBytesOrder
  <2> HIDE DEF p, q, d, e, x, y
  <2>3. Lesser(p, q, 1) \/ Lesser(p, q, 2)
    BY <1>1, <1>3, <1>4, <2>2 DEF Lesser
  <2>4. 1 \in Nat /\ 2 \in Nat
    OBVIOUS
  <2> QED BY <2>3, <2>4 DEF p, q
<1>6. CASE /\ a.exp = b.exp
           /\ Precedes(padRight(d, e), padRight(e, d))
  <2>1. PICK i \in 1..Len(e) :
              /\ \A j \in 1..(i - 1) : (IF j <= Len(d) THEN d[j] ELSE 0) = e[j]
              /\ (IF i <= Len(d) THEN d[i] ELSE 0) < e[i]
    BY <1>1, <1>6, PaddedDeparture
  <2>2. p[1] = q[1] /\ p[2] = q[2]
    BY <1>3, <1>4, <1>6
  <2>3. \A j \in 1..Len(d) : d[j] \in Nat
    BY <1>1, DigitFacts
  <2>4. \A j \in 1..Len(e) : e[j] \in Nat
    BY <1>1, DigitFacts
  <2> HIDE DEF p, q, d, e, x, y
  <2>5. ASSUME NEW k \in Nat, k <= Len(d), k < i
        PROVE  \A j \in 1..(k + 2) : p[j] = q[j]
    <3> TAKE j \in 1..(k + 2)
    <3>1. CASE j <= 2
      BY <2>2, <3>1
    <3>2. CASE j > 2
      <4> DEFINE h == j - 2
      <4>1. /\ h \in 1..Len(d) /\ h \in 1..Len(e) /\ h \in 1..(i - 1)
            /\ j = h + 2 /\ h <= Len(d)
        BY <1>1, <2>1, <2>5, <3>2
      <4> HIDE DEF h
      <4>2. p[h + 2] = 48 + d[h] /\ q[h + 2] = 48 + e[h] /\ d[h] = e[h]
        BY <1>3, <1>4, <2>1, <4>1
      <4> QED BY <4>1, <4>2
    <3> QED BY <3>1, <3>2
  <2>6. CASE i <= Len(d)
    <3>1. /\ i - 1 \in Nat /\ i - 1 <= Len(d) /\ i - 1 < i /\ (i - 1) + 2 = (i + 2) - 1
          /\ i \in 1..Len(d) /\ i + 2 \in 1..(Len(d) + 3) /\ i + 2 \in 1..(Len(e) + 3)
          /\ i + 2 \in Nat
      BY <1>1, <2>1, <2>6
    <3>2. \A j \in 1..((i + 2) - 1) : p[j] = q[j]
      BY <2>5, <3>1
    <3>3. p[i + 2] < q[i + 2]
      <4>1. d[i] < e[i] /\ d[i] \in Nat /\ e[i] \in Nat
        BY <2>1, <2>3, <2>4, <2>6, <3>1
      <4>2. p[i + 2] = 48 + d[i] /\ q[i + 2] = 48 + e[i]
        BY <1>3, <1>4, <3>1
      <4> QED BY <4>1, <4>2
    <3>4. Lesser(p, q, i + 2)
      BY <1>3, <1>4, <3>1, <3>2, <3>3 DEF Lesser
    <3> QED BY <3>1, <3>4 DEF p, q
  <2>7. CASE i > Len(d)
    <3> DEFINE k == Len(d) + 3
    <3>1. /\ k \in Nat /\ k \in 1..(Len(d) + 3) /\ k \in 1..(Len(e) + 3)
          /\ Len(d) + 1 \in 1..Len(e) /\ k = (Len(d) + 1) + 2 /\ k - 1 = Len(d) + 2
          /\ Len(d) < i
      BY <1>1, <2>1, <2>7
    <3>2. \A j \in 1..(k - 1) : p[j] = q[j]
      BY <1>1, <2>5, <3>1
    <3>3. p[k] < q[k]
      <4>1. e[Len(d) + 1] \in Nat
        BY <2>4, <3>1
      <4>2. p[k] = 0 /\ q[k] = 48 + e[Len(d) + 1]
        BY <1>3, <1>4, <3>1
      <4> QED BY <4>1, <4>2
    <3>4. Lesser(p, q, k)
      BY <1>3, <1>4, <3>1, <3>2, <3>3 DEF Lesser
    <3> QED BY <3>1, <3>4 DEF p, q
  <2> QED BY <1>1, <2>1, <2>6, <2>7
<1> QED BY <1>5, <1>6 DEF Smaller

-----------------------------------------------------------------------------
(* Whole keys                                                              *)

LEMMA ComplementFacts ==
    ASSUME NEW b \in Blob
    PROVE  /\ Complement(b) \in Blob /\ Len(Complement(b)) = Len(b)
           /\ \A i \in 1..Len(b) : Complement(b)[i] = 255 - b[i]
<1> DEFINE c == Complement(b)
<1>1. Len(b) \in Nat /\ \A i \in 1..Len(b) : b[i] \in Nat /\ b[i] <= 255
  BY BlobFacts
<1>2. \A i \in 1..Len(b) : 255 - b[i] \in Byte
  BY <1>1, ByteFacts
<1>3. c \in [1..Len(b) -> Byte] /\ \A i \in 1..Len(b) : c[i] = 255 - b[i]
  BY <1>2 DEF Complement
<1> HIDE DEF c
<1>4. c \in Seq(Byte)
  BY <1>1, <1>3
<1>5. Len(c) = Len(b)
  BY <1>1, <1>3, <1>4, LenProperties
<1> QED BY <1>3, <1>4, <1>5 DEF c, Blob

LEMMA ComplementLesser ==
    ASSUME NEW a \in Blob, NEW b \in Blob, NEW i \in Nat, Lesser(a, b, i)
    PROVE  Lesser(Complement(b), Complement(a), i)
<1>1. /\ i \in 1..Len(a) /\ i \in 1..Len(b)
      /\ \A j \in 1..(i - 1) : a[j] = b[j]
      /\ a[i] < b[i]
  BY DEF Lesser
<1>2. Len(a) \in Nat /\ Len(b) \in Nat /\ a[i] \in Nat /\ b[i] \in Nat
  BY <1>1, BlobFacts
<1>3. /\ Len(Complement(a)) = Len(a) /\ Len(Complement(b)) = Len(b)
      /\ \A j \in 1..Len(a) : Complement(a)[j] = 255 - a[j]
      /\ \A j \in 1..Len(b) : Complement(b)[j] = 255 - b[j]
  BY ComplementFacts
<1>4. ASSUME NEW j \in 1..(i - 1) PROVE Complement(b)[j] = Complement(a)[j]
  <2>1. j \in 1..Len(a) /\ j \in 1..Len(b)
    BY <1>1, <1>2
  <2> QED BY <1>1, <1>3, <2>1
<1>5. Complement(b)[i] < Complement(a)[i]
  BY <1>1, <1>2, <1>3
<1> QED BY <1>1, <1>3, <1>4, <1>5 DEF Lesser

Tagged(sign, bytes) == <<keyTag["N"], sign>> \o bytes

LEMMA TaggedFacts ==
    ASSUME NEW s \in Byte, NEW b \in Blob
    PROVE  /\ Tagged(s, b) \in Blob
           /\ Len(Tagged(s, b)) = Len(b) + 2
           /\ Tagged(s, b)[1] = 2 /\ Tagged(s, b)[2] = s
           /\ \A i \in 1..Len(b) : Tagged(s, b)[i + 2] = b[i]
<1> DEFINE head == <<2, s>>
           t    == head \o b
<1>1. Tagged(s, b) = t
  BY DEF Tagged, keyTag
<1>2. head \in Seq(Byte) /\ Len(head) = 2 /\ head[1] = 2 /\ head[2] = s
  <2>1. 2 \in Byte
    BY ByteFacts
  <2> QED BY <2>1
<1>3. Len(b) \in Nat /\ b \in Seq(Byte)
  BY BlobFacts DEF Blob
<1> HIDE DEF head
<1>4. /\ t \in Seq(Byte) /\ Len(t) = 2 + Len(b)
      /\ \A i \in 1..(2 + Len(b)) : t[i] = IF i <= 2 THEN head[i] ELSE b[i - 2]
  <2>1. /\ head \o b \in Seq(Byte) /\ Len(head \o b) = Len(head) + Len(b)
        /\ \A i \in 1..(Len(head) + Len(b)) :
              (head \o b)[i] = IF i <= Len(head) THEN head[i] ELSE b[i - Len(head)]
    BY ONLY <1>2, <1>3, ConcatProperties
  <2> QED BY <1>2, <2>1
<1> HIDE DEF t
<1>5. t[1] = 2 /\ t[2] = s
  <2>1. 1 \in 1..(2 + Len(b)) /\ 2 \in 1..(2 + Len(b)) /\ 1 <= 2 /\ 2 <= 2
    BY <1>3
  <2> QED BY <1>2, <1>4, <2>1
<1>6. ASSUME NEW i \in 1..Len(b) PROVE t[i + 2] = b[i]
  <2>1. i + 2 \in 1..(2 + Len(b)) /\ ~(i + 2 <= 2) /\ (i + 2) - 2 = i
    BY <1>3
  <2> QED BY <1>4, <2>1
<1>7. Len(t) = Len(b) + 2
  BY <1>3, <1>4
<1> QED BY <1>1, <1>4, <1>5, <1>6, <1>7 DEF Blob

LEMMA TaggedLesser ==
    ASSUME NEW s \in Byte, NEW a \in Blob, NEW b \in Blob, NEW i \in Nat, Lesser(a, b, i)
    PROVE  Precedes(Tagged(s, a), Tagged(s, b))
<1> DEFINE p == Tagged(s, a)
           q == Tagged(s, b)
<1>1. /\ p \in Blob /\ Len(p) = Len(a) + 2 /\ p[1] = 2 /\ p[2] = s
      /\ \A j \in 1..Len(a) : p[j + 2] = a[j]
  BY TaggedFacts
<1>2. /\ q \in Blob /\ Len(q) = Len(b) + 2 /\ q[1] = 2 /\ q[2] = s
      /\ \A j \in 1..Len(b) : q[j + 2] = b[j]
  BY TaggedFacts
<1>3. Len(a) \in Nat /\ Len(b) \in Nat
  BY BlobFacts
<1>4. /\ i \in 1..Len(a) /\ i \in 1..Len(b) /\ a[i] < b[i]
      /\ \A j \in 1..(i - 1) : a[j] = b[j]
  BY DEF Lesser
<1> HIDE DEF p, q
<1>5. ASSUME NEW j \in 1..((i + 2) - 1) PROVE p[j] = q[j]
  <2>1. CASE j <= 2
    BY <1>1, <1>2, <2>1
  <2>2. CASE j > 2
    <3> DEFINE h == j - 2
    <3>1. h \in 1..(i - 1) /\ h \in 1..Len(a) /\ h \in 1..Len(b) /\ j = h + 2
      BY <1>3, <1>4, <2>2
    <3> HIDE DEF h
    <3> QED BY <1>1, <1>2, <1>4, <3>1
  <2> QED BY <2>1, <2>2
<1>6. p[i + 2] < q[i + 2]
  BY <1>1, <1>2, <1>4
<1>7. i + 2 \in 1..Len(p) /\ i + 2 \in 1..Len(q) /\ i + 2 \in Nat
  BY <1>1, <1>2, <1>3, <1>4
<1>8. Lesser(p, q, i + 2)
  BY <1>5, <1>6, <1>7 DEF Lesser
<1>9. Precedes(p, q)
  BY <1>1, <1>2, <1>7, <1>8, LesserPrecedes
<1> QED BY <1>9 DEF p, q

LEMMA SmallerPrecedes ==
    ASSUME NEW a \in Nonzero, NEW b \in Nonzero, IsInt16(a.exp), IsInt16(b.exp), Smaller(a, b)
    PROVE  /\ Precedes(Tagged(2, Payload(a)), Tagged(2, Payload(b)))
           /\ Precedes(Tagged(0, Complement(Payload(b))), Tagged(0, Complement(Payload(a))))
<1>1. Payload(a) \in Blob /\ Payload(b) \in Blob
  BY PayloadFacts
<1>2. PICK i \in Nat : Lesser(Payload(a), Payload(b), i)
  BY PayloadLesser
<1>3. 0 \in Byte /\ 2 \in Byte
  BY ByteFacts
<1>4. Precedes(Tagged(2, Payload(a)), Tagged(2, Payload(b)))
  BY <1>1, <1>2, <1>3, TaggedLesser
<1>5. /\ Complement(Payload(a)) \in Blob /\ Complement(Payload(b)) \in Blob
      /\ Lesser(Complement(Payload(b)), Complement(Payload(a)), i)
  BY <1>1, <1>2, ComplementFacts, ComplementLesser
<1>6. Precedes(Tagged(0, Complement(Payload(b))), Tagged(0, Complement(Payload(a))))
  BY <1>3, <1>5, TaggedLesser
<1> QED BY <1>4, <1>6

(* DigitStrings are bytes.                                                       *)
LEMMA DigitsBlob ==
    ASSUME NEW d \in DigitStrings
    PROVE  d \in Blob
<1>1. Len(d) \in Nat /\ d \in [1..Len(d) -> Digit]
  BY LenProperties DEF DigitStrings
<1>2. \A x \in Digit : x \in Byte
  BY ByteFacts DEF Digit
<1>3. d \in [1..Len(d) -> Byte]
  BY <1>1, <1>2
<1> QED BY <1>1, <1>3 DEF Blob

(* What compareNumbers answers of two numbers of one sign.                 *)
LEMMA CompareFacts ==
    ASSUME NEW a \in Nonzero, NEW b \in Nonzero, a.sign = b.sign
    PROVE  /\ compareDecimals(a, b) = -1 => IF a.sign = 1 THEN Smaller(a, b) ELSE Smaller(b, a)
           /\ compareDecimals(a, b) = 0 => a = b
           /\ compareDecimals(a, b) = 1 => IF a.sign = 1 THEN Smaller(b, a) ELSE Smaller(a, b)
<1> DEFINE da == padRight(a.digits, b.digits)
           db == padRight(b.digits, a.digits)
           c  == CASE a.exp < b.exp -> -1
                   [] a.exp > b.exp -> 1
                   [] a.exp = b.exp /\ da = db -> 0
                   [] a.exp = b.exp /\ da # db -> IF Precedes(da, db) THEN -1 ELSE 1
<1>1. /\ a.digits \in TrimmedDigits /\ b.digits \in TrimmedDigits
      /\ a.digits \in DigitStrings /\ b.digits \in DigitStrings
      /\ a.exp \in Int /\ b.exp \in Int /\ a.sign \in {-1, 1}
  BY DEF Nonzero, TrimmedDigits
<1>2. da \in Blob /\ db \in Blob
  BY <1>1, PadFacts, DigitsBlob
<1>3. compareDecimals(a, b) = a.sign * c
  <2>1. ~(a.sign < b.sign) /\ ~(a.sign > b.sign) /\ ~(a.sign = b.sign /\ a.sign = 0)
    BY <1>1
  <2> HIDE DEF da, db
  <2> QED BY <2>1 DEF compareDecimals, da, db
<1> HIDE DEF da, db
<1>4. \/ c = -1 /\ Smaller(a, b)
      \/ c = 1 /\ Smaller(b, a)
      \/ c = 0 /\ a.exp = b.exp /\ da = db
  <2>1. CASE a.exp < b.exp
    BY <1>1, <2>1 DEF Smaller
  <2>2. CASE a.exp > b.exp
    BY <1>1, <2>2 DEF Smaller
  <2>3. CASE a.exp = b.exp /\ da = db
    BY <1>1, <2>3
  <2>4. CASE a.exp = b.exp /\ da # db
    <3>1. c = IF Precedes(da, db) THEN -1 ELSE 1
      BY <1>1, <2>4
    <3>2. Precedes(da, db) => Smaller(a, b)
      BY <2>4 DEF Smaller, da, db
    <3>3. Precedes(db, da) => Smaller(b, a)
      BY <2>4 DEF Smaller, da, db
    <3>4. Precedes(da, db) \/ Precedes(db, da)
      BY <1>2, <2>4, PrecedesTotal
    <3> QED BY <3>1, <3>2, <3>3, <3>4
  <2> QED BY <1>1, <2>1, <2>2, <2>3, <2>4
<1> HIDE DEF c
<1>5. a.exp = b.exp /\ da = db => a = b
  <2>1. ASSUME a.exp = b.exp, da = db PROVE a = b
    <3>1. a.digits = b.digits
      BY <1>1, <2>1, PadInjective DEF da, db
    <3> QED BY <2>1, <3>1 DEF Nonzero
  <2> QED BY <2>1
<1> QED BY <1>1, <1>3, <1>4, <1>5

(* What encodeNumberKey answers, if not an error.                          *)
LEMMA EncodingOf ==
    ASSUME NEW num \in Numerals, encodeNumberKey(num) # NoBytes
    PROVE  LET dec == parseDecimal(num) IN
           \/ dec = Zero /\ encodeNumberKey(num) = <<2, 1>>
           \/ /\ dec \in Nonzero /\ IsInt16(dec.exp) /\ dec.sign = 1
              /\ encodeNumberKey(num) = Tagged(2, Payload(dec))
           \/ /\ dec \in Nonzero /\ IsInt16(dec.exp) /\ dec.sign = -1
              /\ encodeNumberKey(num) = Tagged(0, Complement(Payload(dec)))
<1> DEFINE dec == parseDecimal(num)
<1>1. dec = Zero \/ dec \in Nonzero
  BY ParseFacts
<1>2. encodeNumberKey(num) =
        CASE dec.sign = 0 -> <<2, 1>>
          [] dec.sign # 0 /\ ~IsInt16(dec.exp) -> NoBytes
          [] dec.sign = 1 /\ IsInt16(dec.exp) -> Tagged(2, Payload(dec))
          [] dec.sign = -1 /\ IsInt16(dec.exp) -> Tagged(0, Complement(Payload(dec)))
  BY DEF encodeNumberKey, Tagged, keyTag
<1> HIDE DEF dec
<1>3. CASE dec = Zero
  <2>1. dec.sign = 0
    BY <1>3 DEF Zero
  <2> QED BY <1>2, <1>3, <2>1 DEF dec
<1>4. CASE dec \in Nonzero
  <2>1. dec.sign = 1 \/ dec.sign = -1
    BY <1>4 DEF Nonzero
  <2>2. IsInt16(dec.exp)
    BY <1>2, <2>1
  <2>3. CASE dec.sign = 1
    BY <1>2, <1>4, <2>2, <2>3 DEF dec
  <2>4. CASE dec.sign = -1
    BY <1>2, <1>4, <2>2, <2>4 DEF dec
  <2> QED BY <2>1, <2>3, <2>4
<1> QED BY <1>1, <1>3, <1>4

(* The second byte tells negative numbers, zero and positive numbers apart *)
LEMMA SignOrders ==
    ASSUME NEW p, NEW q, NEW s \in Nat, NEW t \in Nat, s < t,
           Len(p) \in Nat, Len(q) \in Nat, Len(p) >= 2, Len(q) >= 2,
           p[1] = 2, q[1] = 2, p[2] = s, q[2] = t
    PROVE  Precedes(p, q)
<1>1. 2 \in 1..Len(q) /\ 2 <= Len(p) + 1
  OBVIOUS
<1>2. \A j \in 1..(2 - 1) : p[j] = q[j]
  OBVIOUS
<1>3. p[2] < q[2]
  OBVIOUS
<1> QED BY <1>1, <1>2, <1>3 DEF Precedes

LEMMA SignByte ==
    ASSUME NEW num \in Numerals, encodeNumberKey(num) # NoBytes
    PROVE  LET key == encodeNumberKey(num) IN
           /\ Len(key) \in Nat /\ Len(key) >= 2
           /\ key[1] = 2 /\ key[2] = parseDecimal(num).sign + 1
           /\ parseDecimal(num).sign \in {-1, 0, 1}
<1> DEFINE dec == parseDecimal(num)
           key == encodeNumberKey(num)
<1>0. 0 \in Byte /\ 2 \in Byte
  BY ByteFacts
<1>1. CASE dec = Zero /\ key = <<2, 1>>
  BY <1>1 DEF Zero
<1>2. CASE dec \in Nonzero /\ dec.sign = 1 /\ key = Tagged(2, Payload(dec))
  <2>1. Payload(dec) \in Blob /\ Len(Payload(dec)) \in Nat
    BY <1>2, PayloadFacts, BlobFacts
  <2>2. Len(key) = Len(Payload(dec)) + 2 /\ key[1] = 2 /\ key[2] = 2
    BY <1>0, <1>2, <2>1, TaggedFacts
  <2> HIDE DEF key, dec
  <2> QED BY <1>2, <2>1, <2>2 DEF key, dec
<1>3. CASE dec \in Nonzero /\ dec.sign = -1 /\ key = Tagged(0, Complement(Payload(dec)))
  <2>1. Complement(Payload(dec)) \in Blob /\ Len(Complement(Payload(dec))) \in Nat
    BY <1>3, PayloadFacts, ComplementFacts, BlobFacts
  <2>2. Len(key) = Len(Complement(Payload(dec))) + 2 /\ key[1] = 2 /\ key[2] = 0
    BY <1>0, <1>3, <2>1, TaggedFacts
  <2> HIDE DEF key, dec
  <2> QED BY <1>3, <2>1, <2>2 DEF key, dec
<1> QED BY <1>1, <1>2, <1>3, EncodingOf

(* The order of encoded numbers is the order of the numbers, and one       *)
(* number, however it is spelled, is one key: for two numerals that have   *)
(* keys at all, the answer of compareNumbers is the order of the keys      *)
(* encodeNumberKey makes of them.  The listings of a table with a number   *)
(* for a sort key are in numeric order, and 1.0 finds the item put as 1,   *)
(* by this.                                                                *)
THEOREM NumbersSort ==
    \A m, n \in Numerals :
       encodeNumberKey(m) # NoBytes /\ encodeNumberKey(n) # NoBytes
       => /\ compareNumbers(m, n) = -1 => Precedes(encodeNumberKey(m), encodeNumberKey(n))
          /\ compareNumbers(m, n) = 0 => encodeNumberKey(m) = encodeNumberKey(n)
          /\ compareNumbers(m, n) = 1 => Precedes(encodeNumberKey(n), encodeNumberKey(m))
<1> SUFFICES ASSUME NEW m \in Numerals, NEW n \in Numerals,
                    encodeNumberKey(m) # NoBytes, encodeNumberKey(n) # NoBytes
             PROVE  /\ compareNumbers(m, n) = -1 => Precedes(encodeNumberKey(m), encodeNumberKey(n))
                    /\ compareNumbers(m, n) = 0 => encodeNumberKey(m) = encodeNumberKey(n)
                    /\ compareNumbers(m, n) = 1 => Precedes(encodeNumberKey(n), encodeNumberKey(m))
  OBVIOUS
<1> DEFINE a == parseDecimal(m)
           b == parseDecimal(n)
           p == encodeNumberKey(m)
           q == encodeNumberKey(n)
<1>1. compareNumbers(m, n) = compareDecimals(a, b)
  BY DEF compareNumbers
<1>2. /\ Len(p) \in Nat /\ Len(p) >= 2 /\ p[1] = 2 /\ p[2] = a.sign + 1 /\ a.sign \in {-1, 0, 1}
      /\ Len(q) \in Nat /\ Len(q) >= 2 /\ q[1] = 2 /\ q[2] = b.sign + 1 /\ b.sign \in {-1, 0, 1}
  BY SignByte
<1>3. \/ a = Zero /\ p = <<2, 1>>
      \/ /\ a \in Nonzero /\ IsInt16(a.exp) /\ a.sign = 1 /\ p = Tagged(2, Payload(a))
      \/ /\ a \in Nonzero /\ IsInt16(a.exp) /\ a.sign = -1 /\ p = Tagged(0, Complement(Payload(a)))
  BY EncodingOf
<1>4. \/ b = Zero /\ q = <<2, 1>>
      \/ /\ b \in Nonzero /\ IsInt16(b.exp) /\ b.sign = 1 /\ q = Tagged(2, Payload(b))
      \/ /\ b \in Nonzero /\ IsInt16(b.exp) /\ b.sign = -1 /\ q = Tagged(0, Complement(Payload(b)))
  BY EncodingOf
<1> HIDE DEF a, b, p, q
<1>5. CASE a.sign < b.sign
  <2>1. compareDecimals(a, b) = -1
    BY <1>2, <1>5 DEF compareDecimals
  <2>2. Precedes(p, q)
    BY <1>2, <1>5, SignOrders
  <2> QED BY <1>1, <2>1, <2>2 DEF p, q
<1>6. CASE a.sign > b.sign
  <2>1. compareDecimals(a, b) = 1
    BY <1>2, <1>6 DEF compareDecimals
  <2>2. Precedes(q, p)
    BY <1>2, <1>6, SignOrders
  <2> QED BY <1>1, <2>1, <2>2 DEF p, q
<1>7. CASE a.sign = b.sign
  <2>1. CASE a.sign = 0
    <3>1. p = q
      BY <1>3, <1>4, <1>7, <2>1
    <3>2. compareDecimals(a, b) = 0
      BY <1>2, <1>7, <2>1 DEF compareDecimals
    <3> QED BY <1>1, <3>1, <3>2 DEF p, q
  <2>2. CASE a.sign # 0
    <3>1. a # Zero /\ b # Zero
      BY <1>7, <2>2 DEF Zero
    <3>2. a \in Nonzero /\ b \in Nonzero /\ IsInt16(a.exp) /\ IsInt16(b.exp)
      BY <1>3, <1>4, <3>1
    <3>3. CASE a.sign = 1
      <4>0. a.sign # -1 /\ b.sign # -1
        BY <1>7, <3>3
      <4>1. p = Tagged(2, Payload(a)) /\ q = Tagged(2, Payload(b))
        BY <1>3, <1>4, <3>1, <4>0, Zenon
      <4>2. Smaller(a, b) => Precedes(p, q)
        BY <3>2, <4>1, SmallerPrecedes
      <4>3. Smaller(b, a) => Precedes(q, p)
        BY <3>2, <4>1, SmallerPrecedes
      <4> QED BY <1>1, <1>7, <3>2, <4>1, <3>3, <4>2, <4>3, CompareFacts DEF p, q
    <3>4. CASE a.sign = -1
      <4>0. a.sign # 1 /\ b.sign # 1
        BY <1>7, <3>4
      <4>1. p = Tagged(0, Complement(Payload(a))) /\ q = Tagged(0, Complement(Payload(b)))
        BY <1>3, <1>4, <3>1, <4>0, Zenon
      <4>2. Smaller(b, a) => Precedes(p, q)
        BY <3>2, <4>1, SmallerPrecedes
      <4>3. Smaller(a, b) => Precedes(q, p)
        BY <3>2, <4>1, SmallerPrecedes
      <4> QED BY <1>1, <1>7, <3>2, <4>1, <3>4, <4>2, <4>3, CompareFacts DEF p, q
    <3> QED BY <1>2, <2>2, <3>3, <3>4
  <2> QED BY <2>1, <2>2
<1> QED BY <1>2, <1>5, <1>6, <1>7

LEMMA CompareAnswers ==
    ASSUME NEW m \in Numerals, NEW n \in Numerals
    PROVE  compareNumbers(m, n) \in {-1, 0, 1}
<1> DEFINE a == parseDecimal(m)
           b == parseDecimal(n)
<1>1. compareNumbers(m, n) = compareDecimals(a, b)
  BY DEF compareNumbers
<1>2. (a = Zero \/ a \in Nonzero) /\ (b = Zero \/ b \in Nonzero)
  BY ParseFacts
<1> HIDE DEF a, b
<1>3. /\ a.sign \in {-1, 0, 1} /\ a.exp \in Int
      /\ b.sign \in {-1, 0, 1} /\ b.exp \in Int
  BY <1>2 DEF Zero, Nonzero
<1> DEFINE da == padRight(a.digits, b.digits)
           db == padRight(b.digits, a.digits)
           c  == CASE a.exp < b.exp -> -1
                   [] a.exp > b.exp -> 1
                   [] a.exp = b.exp /\ da = db -> 0
                   [] a.exp = b.exp /\ da # db -> IF Precedes(da, db) THEN -1 ELSE 1
<1>4. compareDecimals(a, b) = CASE a.sign < b.sign -> -1
                                [] a.sign > b.sign -> 1
                                [] a.sign = b.sign /\ a.sign = 0 -> 0
                                [] OTHER -> a.sign * c
  BY DEF compareDecimals
<1> HIDE DEF da, db
<1>5. c \in {-1, 0, 1}
  BY <1>3
<1> HIDE DEF c
<1>6. a.sign * c \in {-1, 0, 1}
  BY <1>3, <1>5
<1> QED BY <1>1, <1>3, <1>4, <1>6

-----------------------------------------------------------------------------
(* The order of numbers                                                    *)

LEMMA PaddedDigits ==
    ASSUME NEW d \in DigitStrings, NEW e \in DigitStrings
    PROVE  padRight(d, e) \in Blob /\ padRight(e, d) \in Blob
<1>1. padRight(d, e) \in DigitStrings /\ padRight(e, d) \in DigitStrings
  BY PadFacts
<1>2. Digit \subseteq Byte
  BY DEF Digit, Byte
<1> QED BY <1>1, <1>2 DEF DigitStrings, Blob

(* Which of two numbers is the greater does not depend on who asks.        *)
LEMMA CompareDecimals ==
    ASSUME NEW a, NEW b, a = Zero \/ a \in Nonzero, b = Zero \/ b \in Nonzero
    PROVE  /\ compareDecimals(a, b) \in {-1, 0, 1}
           /\ compareDecimals(b, a) = -compareDecimals(a, b)
<1>1. /\ a.sign \in {-1, 0, 1} /\ b.sign \in {-1, 0, 1}
      /\ a.exp \in Int /\ b.exp \in Int
      /\ a.digits \in DigitStrings /\ b.digits \in DigitStrings
  <2>1. <<>> \in DigitStrings
    BY EmptySeq DEF DigitStrings
  <2> QED BY <2>1 DEF Zero, Nonzero, TrimmedDigits
<1> DEFINE da == padRight(a.digits, b.digits)
           db == padRight(b.digits, a.digits)
<1>2. da \in Blob /\ db \in Blob
  BY <1>1, PaddedDigits
<1>3. da # db => (Precedes(da, db) <=> ~Precedes(db, da))
  BY <1>2, PrecedesTotal, PrecedesTransitive, PrecedesIrreflexive
<1>4. /\ a.sign < b.sign => compareDecimals(a, b) = -1
      /\ a.sign > b.sign => compareDecimals(a, b) = 1
      /\ a.sign = b.sign /\ a.sign = 0 => compareDecimals(a, b) = 0
      /\ a.sign = b.sign /\ a.sign # 0 =>
            /\ a.exp < b.exp => compareDecimals(a, b) = a.sign * (-1)
            /\ a.exp > b.exp => compareDecimals(a, b) = a.sign
            /\ a.exp = b.exp =>
                  compareDecimals(a, b) =
                      a.sign * (IF da = db THEN 0 ELSE IF Precedes(da, db) THEN -1 ELSE 1)
  BY <1>1 DEF compareDecimals
<1>5. /\ b.sign < a.sign => compareDecimals(b, a) = -1
      /\ b.sign > a.sign => compareDecimals(b, a) = 1
      /\ b.sign = a.sign /\ b.sign = 0 => compareDecimals(b, a) = 0
      /\ b.sign = a.sign /\ b.sign # 0 =>
            /\ b.exp < a.exp => compareDecimals(b, a) = b.sign * (-1)
            /\ b.exp > a.exp => compareDecimals(b, a) = b.sign
            /\ b.exp = a.exp =>
                  compareDecimals(b, a) =
                      b.sign * (IF db = da THEN 0 ELSE IF Precedes(db, da) THEN -1 ELSE 1)
  BY <1>1 DEF compareDecimals
<1> HIDE DEF da, db
<1> QED BY <1>1, <1>3, <1>4, <1>5

LEMMA CompareNumbers ==
    ASSUME NEW m \in Numerals, NEW n \in Numerals
    PROVE  /\ compareNumbers(m, n) \in {-1, 0, 1}
           /\ compareNumbers(n, m) = -compareNumbers(m, n)
BY ParseFacts, CompareDecimals DEF compareNumbers

=============================================================================
