---------------------------- MODULE PagingProofs ----------------------------
(***************************************************************************)
(* Listings of any length, in any interleaving with writers: keys sort as  *)
(* their attributes do, key conditions select what they describe, pages    *)
(* come in order, and a listing is complete.                               *)
(***************************************************************************)
EXTENDS Paging, KeyProofs, FiniteSetTheorems

-----------------------------------------------------------------------------
StrictTotalOrder(R, S) ==
    /\ \A i \in S : <<i, i>> \notin R
    /\ \A i, j, k \in S : <<i, j>> \in R /\ <<j, k>> \in R => <<i, k>> \in R
    /\ \A i, j \in S : i = j \/ <<i, j>> \in R \/ <<j, i>> \in R

(* A strict total order of a finite set has a greatest element.            *)
LEMMA GreatestOf ==
    ASSUME NEW S, IsFiniteSet(S), S # {}, NEW R, StrictTotalOrder(R, S)
    PROVE  \E m \in S : \A j \in S : j = m \/ <<j, m>> \in R
<1>0. /\ \A i \in S : <<i, i>> \notin R
      /\ \A i, j, k \in S : <<i, j>> \in R /\ <<j, k>> \in R => <<i, k>> \in R
      /\ \A i, j \in S : i = j \/ <<i, j>> \in R \/ <<j, i>> \in R
  BY DEF StrictTotalOrder
<1> DEFINE Lower(k) == {j \in S : <<j, k>> \in R}
           Counts   == {Cardinality(Lower(k)) : k \in S}
<1>1. ASSUME NEW k \in S
      PROVE  /\ IsFiniteSet(Lower(k))
             /\ Cardinality(Lower(k)) \in 0..Cardinality(S)
  <2>1. Lower(k) \subseteq S
    OBVIOUS
  <2> HIDE DEF Lower
  <2>2. IsFiniteSet(Lower(k)) /\ Cardinality(Lower(k)) <= Cardinality(S)
    BY <2>1, FS_Subset
  <2>3. Cardinality(Lower(k)) \in Nat /\ Cardinality(S) \in Nat
    BY <2>2, FS_CardinalityType
  <2> QED BY <2>2, <2>3
<1>2. PICK m \in S : \A k \in S : Cardinality(Lower(k)) <= Cardinality(Lower(m))
  <2> DEFINE T == {Cardinality(S) - n : n \in Counts}
  <2> HIDE DEF Lower
  <2>0. Cardinality(S) \in Nat
    BY FS_CardinalityType
  <2>1. T \in SUBSET Nat /\ T # {}
    BY <1>1, <2>0
  <2>2. PICK t \in T : \A u \in T : t <= u
    <3> HIDE DEF T
    <3> QED BY <2>1, Least
  <2>3. PICK m \in S : t = Cardinality(S) - Cardinality(Lower(m))
    BY <2>2
  <2>4. ASSUME NEW k \in S PROVE Cardinality(Lower(k)) <= Cardinality(Lower(m))
    <3>1. Cardinality(S) - Cardinality(Lower(m)) <= Cardinality(S) - Cardinality(Lower(k))
      BY <2>2, <2>3, <2>4
    <3> HIDE DEF T, Counts
    <3>2. Cardinality(Lower(m)) \in Nat /\ Cardinality(Lower(k)) \in Nat
      BY <1>1, <2>4
    <3> QED BY <2>0, <3>1, <3>2
  <2> QED BY <2>4
<1>3. ASSUME NEW j \in S, j # m, <<j, m>> \notin R PROVE FALSE
  <2>1. <<m, j>> \in R
    BY <1>0, <1>3
  <2>2. Lower(m) \union {m} \subseteq Lower(j) /\ m \notin Lower(m)
    BY <1>0, <2>1
  <2> HIDE DEF Lower
  <2>3. Cardinality(Lower(m) \union {m}) = Cardinality(Lower(m)) + 1
    BY <1>1, <2>2, FS_AddElement
  <2>4. Cardinality(Lower(m) \union {m}) <= Cardinality(Lower(j))
    BY <1>1, <2>2, FS_Subset
  <2>5. Cardinality(Lower(j)) <= Cardinality(Lower(m))
    BY <1>2
  <2>6. Cardinality(Lower(m)) \in Nat /\ Cardinality(Lower(j)) \in Nat
    BY <1>1
  <2> QED BY <2>3, <2>4, <2>5, <2>6
<1> QED BY <1>3

-----------------------------------------------------------------------------
(* Encoded attributes                                                      *)

Text == [type : {"S", "B"}, bytes : Blob]

(* A string or a binary is its tag, its escaped bytes and a terminator.    *)
LEMMA TextEncoded ==
    ASSUME NEW x \in Text, encodeKeyValue(x) # NoBytes
    PROVE  /\ <<keyTag[x.type]>> \in Blob
           /\ encodeKeyValue(x) = <<keyTag[x.type]>> \o Terminated(x.bytes)
           /\ encodeKeyValue(x) \in Blob
           /\ keyPrefix(x) = <<keyTag[x.type]>> \o appendEscaped[x.bytes]
           /\ keyPrefix(x) \in Blob
<1>1. x.type \in {"S", "B"} /\ x.bytes \in Blob
  BY DEF Text
<1>2. /\ keyTag[x.type] \in {1, 3}
      /\ 1 \in Byte /\ 3 \in Byte
  BY <1>1, ByteFacts DEF keyTag
<1>3. PICK c \in Blob : c = <<keyTag[x.type]>>
  <2>1. keyTag[x.type] \in Byte
    BY <1>2
  <2>2. \A y \in Byte : <<y>> \in Seq(Byte)
    OBVIOUS
  <2> QED BY <2>1, <2>2 DEF Blob
<1>4. PICK e \in Blob : e = appendEscaped[x.bytes]
  BY <1>1, EscapedIsBlob
<1>5. PICK z \in Blob : z = <<0, 0>> /\ Len(z) = 2
  BY TerminatorIsBlob
<1>6. encodeKeyValue(x) = (c \o e) \o z
  BY <1>1, <1>3, <1>4, <1>5 DEF encodeKeyValue
<1>7. (c \o e) \o z = c \o (e \o z)
  BY ConcatAssociative DEF Blob
<1>8. Terminated(x.bytes) = e \o z
  BY <1>4, <1>5 DEF Terminated
<1>9. PICK p \in Blob : p = c \o e
  BY ConcatFacts
<1>10. PICK q \in Blob :
          /\ q = p \o z
          /\ Len(p) \in Nat /\ Len(q) = Len(p) + 2
          /\ \A i \in 1..Len(p) : q[i] = p[i]
  BY <1>5, ConcatFacts
<1>11. SubSeq(q, 1, Len(q) - 2) = p
  <2>1. Len(q) - 2 = Len(p)
    BY <1>10
  <2>2. /\ SubSeq(q, 1, Len(p)) \in Seq(Byte)
        /\ Len(SubSeq(q, 1, Len(p))) = Len(p)
        /\ \A i \in 1..Len(p) : SubSeq(q, 1, Len(p))[i] = q[i]
    BY <1>10, BlobFacts DEF Blob
  <2>3. SubSeq(q, 1, Len(p)) = p
    BY <1>10, <2>2, SeqEqual DEF Blob
  <2> QED BY <2>1, <2>3
<1>12. encodeKeyValue(x) = q
  BY <1>6, <1>9, <1>10
<1>13. keyPrefix(x) = SubSeq(q, 1, Len(q) - 2)
  BY <1>1, <1>12 DEF keyPrefix
<1> QED BY <1>3, <1>4, <1>6, <1>7, <1>8, <1>9, <1>11, <1>12, <1>13, Zenon

LEMMA NumberEncoded ==
    ASSUME NEW num \in Numerals, encodeNumberKey(num) # NoBytes
    PROVE  encodeNumberKey(num) \in Blob
<1> DEFINE dec == parseDecimal(num)
<1>1. 0 \in Byte /\ 1 \in Byte /\ 2 \in Byte
  BY ByteFacts
<1>2. CASE encodeNumberKey(num) = <<2, 1>>
  BY <1>1, <1>2 DEF Blob
<1>3. CASE dec \in Nonzero /\ encodeNumberKey(num) = Tagged(2, Payload(dec))
  BY <1>1, <1>3, PayloadFacts, TaggedFacts
<1>4. CASE dec \in Nonzero /\ encodeNumberKey(num) = Tagged(0, Complement(Payload(dec)))
  <2>1. Complement(Payload(dec)) \in Blob
    BY <1>4, PayloadFacts, ComplementFacts
  <2> QED BY <1>1, <1>4, <2>1, TaggedFacts
<1> QED BY <1>2, <1>3, <1>4, EncodingOf

LEMMA AttributeKinds ==
    ASSUME NEW x \in KeyAttribute
    PROVE  /\ x.type = "N" \/ x.type \in {"S", "B"}
           /\ x.type # "N" => x \in Text
           /\ x.type = "N" => x.num \in Numerals /\ encodeKeyValue(x) = encodeNumberKey(x.num)
<1>1. CASE x \in [type : {"S", "B"}, bytes : Seq(Byte)]
  <2>1. x.type \in {"S", "B"} /\ x \in Text
    BY <1>1 DEF Text, Blob
  <2> QED BY <2>1
<1>2. CASE x \in [type : {"N"}, num : Numerals]
  BY <1>2 DEF encodeKeyValue
<1> QED BY <1>1, <1>2 DEF KeyAttribute

(* Every key is a BLOB, of which the first byte tells the type.            *)
LEMMA AttributeEncoded ==
    ASSUME NEW x \in KeyAttribute, encodeKeyValue(x) # NoBytes
    PROVE  /\ encodeKeyValue(x) \in Blob
           /\ Len(encodeKeyValue(x)) >= 1
           /\ encodeKeyValue(x)[1] = keyTag[x.type]
<1>1. CASE x.type = "N"
  <2>1. x.num \in Numerals /\ encodeKeyValue(x) = encodeNumberKey(x.num)
    BY <1>1, AttributeKinds
  <2>2. encodeNumberKey(x.num) \in Blob
    BY <2>1, NumberEncoded
  <2>3. LET key == encodeNumberKey(x.num) IN Len(key) \in Nat /\ Len(key) >= 2 /\ key[1] = 2
    BY <2>1, SignByte
  <2>4. keyTag[x.type] = 2
    BY <1>1 DEF keyTag
  <2> QED BY <2>1, <2>2, <2>3, <2>4
<1>2. CASE x.type # "N"
  <2>1. x \in Text /\ x.bytes \in Blob
    BY <1>2, AttributeKinds DEF Text
  <2>2. PICK c \in Blob : c = <<keyTag[x.type]>>
    BY <2>1, TextEncoded
  <2>3. PICK t \in Blob : t = Terminated(x.bytes)
    BY <2>1, TerminatedEquation
  <2>4. encodeKeyValue(x) = c \o t /\ encodeKeyValue(x) \in Blob
    BY <2>1, <2>2, <2>3, TextEncoded
  <2>5. Len(c) = 1 /\ c[1] = keyTag[x.type]
    BY <2>2
  <2>6. /\ Len(c) \in Nat /\ Len(t) \in Nat /\ Len(c \o t) = Len(c) + Len(t)
        /\ \A i \in 1..Len(c) : (c \o t)[i] = c[i]
    BY ConcatFacts
  <2>7. Len(c \o t) >= 1 /\ (c \o t)[1] = c[1]
    BY <2>5, <2>6
  <2> QED BY <2>4, <2>5, <2>7
<1> QED BY <1>1, <1>2

(* Of two keys of one type, SQLite's order of their BLOBs is the order of  *)
(* their values, and one value, however it is spelled, is one BLOB: the    *)
(* order of listings, and that a put replaces the item with its key, are   *)
(* no more than this (encodeKeyValue).                                     *)
THEOREM AttributesSort ==
    \A x, y \in KeyAttribute :
       x.type = y.type /\ encodeKeyValue(x) # NoBytes /\ encodeKeyValue(y) # NoBytes
       => /\ Before(x, y) <=> Precedes(encodeKeyValue(x), encodeKeyValue(y))
          /\ Same(x, y) <=> encodeKeyValue(x) = encodeKeyValue(y)
<1> SUFFICES ASSUME NEW x \in KeyAttribute, NEW y \in KeyAttribute, x.type = y.type,
                    encodeKeyValue(x) # NoBytes, encodeKeyValue(y) # NoBytes
             PROVE  /\ Before(x, y) <=> Precedes(encodeKeyValue(x), encodeKeyValue(y))
                    /\ Same(x, y) <=> encodeKeyValue(x) = encodeKeyValue(y)
  OBVIOUS
<1>1. PICK p \in Blob : p = encodeKeyValue(x)
  BY AttributeEncoded
<1>2. PICK q \in Blob : q = encodeKeyValue(y)
  BY AttributeEncoded
<1>3. /\ p = q => ~Precedes(p, q) /\ ~Precedes(q, p)
      /\ ~(Precedes(p, q) /\ Precedes(q, p))
  BY PrecedesIrreflexive, PrecedesTransitive
<1>4. \/ compareOrder(x, y) = -1 /\ Precedes(p, q)
      \/ compareOrder(x, y) = 0 /\ p = q
      \/ compareOrder(x, y) = 1 /\ Precedes(q, p)
  <2>1. CASE x.type = "N"
    <3>1. /\ x.num \in Numerals /\ encodeNumberKey(x.num) = p
          /\ y.num \in Numerals /\ encodeNumberKey(y.num) = q
      BY <1>1, <1>2, <2>1, AttributeKinds
    <3>2. encodeNumberKey(x.num) # NoBytes /\ encodeNumberKey(y.num) # NoBytes
      BY <1>1, <1>2, <3>1
    <3>3. compareOrder(x, y) = compareNumbers(x.num, y.num)
      BY <2>1 DEF compareOrder
    <3>4. compareNumbers(x.num, y.num) \in {-1, 0, 1}
      BY <3>1, CompareAnswers
    <3>5. /\ compareNumbers(x.num, y.num) = -1 => Precedes(p, q)
          /\ compareNumbers(x.num, y.num) = 0 => p = q
          /\ compareNumbers(x.num, y.num) = 1 => Precedes(q, p)
      BY <3>1, <3>2, NumbersSort
    <3> QED BY <3>3, <3>4, <3>5
  <2>2. CASE x.type # "N"
    <3>1. x \in Text /\ y \in Text
      BY <2>2, AttributeKinds
    <3>2. PICK a \in Blob : a = x.bytes
      BY <3>1 DEF Text
    <3>3. PICK b \in Blob : b = y.bytes
      BY <3>1 DEF Text
    <3>4. PICK c \in Blob : c = <<keyTag[x.type]>>
      BY <3>1, TextEncoded
    <3>5. p = c \o Terminated(a) /\ q = c \o Terminated(b)
      BY <1>1, <1>2, <3>1, <3>2, <3>3, <3>4, TextEncoded
    <3>6. Terminated(a) \in Blob /\ Terminated(b) \in Blob
      BY TerminatedEquation
    <3>7. compareOrder(x, y) = IF a = b THEN 0 ELSE IF Precedes(a, b) THEN -1 ELSE 1
      BY <2>2, <3>2, <3>3 DEF compareOrder
    <3>8. Precedes(a, b) => Precedes(p, q)
      BY <3>5, <3>6, EscapedSorts, PrecedesBehind
    <3>9. Precedes(b, a) => Precedes(q, p)
      BY <3>5, <3>6, EscapedSorts, PrecedesBehind
    <3>10. a = b \/ Precedes(a, b) \/ Precedes(b, a)
      BY PrecedesTotal
    <3> QED BY <3>5, <3>7, <3>8, <3>9, <3>10
  <2> QED BY <2>1, <2>2
<1>5. Before(x, y) <=> Precedes(p, q)
  BY <1>3, <1>4 DEF Before
<1>6. Same(x, y) <=> p = q
  BY <1>3, <1>4 DEF Same
<1> QED BY <1>1, <1>2, <1>5, <1>6

(* begins_with as a predicate on the BLOBs of keys: those that start with  *)
(* the encoded prefix are the keys that start with it (keyPrefix).         *)
LEMMA PrefixesMatch ==
    ASSUME NEW x \in KeyAttribute, NEW y \in KeyAttribute, y.type # "N",
           encodeKeyValue(x) # NoBytes, encodeKeyValue(y) # NoBytes
    PROVE  keyPrefix(y) \in Blob /\ (IsPrefix(keyPrefix(y), encodeKeyValue(x)) <=> StartsWith(x, y))
<1>1. y \in Text /\ y.type \in {"S", "B"}
  BY AttributeKinds
<1>2. PICK b \in Blob : b = y.bytes
  BY <1>1 DEF Text
<1>3. PICK d \in Blob : d = <<keyTag[y.type]>>
  BY <1>1, TextEncoded
<1>4. PICK f \in Blob : f = keyPrefix(y)
  BY <1>1, TextEncoded
<1>5. PICK e \in Blob : e = appendEscaped[b]
  BY EscapedIsBlob
<1>6. f = d \o e
  BY <1>1, <1>2, <1>3, <1>4, <1>5, TextEncoded
<1>7. PICK p \in Blob : p = encodeKeyValue(x) /\ Len(p) >= 1 /\ p[1] = keyTag[x.type]
  BY AttributeEncoded
<1>8. CASE x.type = y.type
  <2>1. x \in Text
    BY <1>1, <1>8, AttributeKinds
  <2>2. PICK a \in Blob : a = x.bytes
    BY <2>1 DEF Text
  <2>3. p = d \o Terminated(a)
    BY <1>3, <1>7, <1>8, <2>1, <2>2, TextEncoded
  <2>4. Terminated(a) \in Blob
    BY TerminatedEquation
  <2>5. IsPrefix(f, p) <=> IsPrefix(e, Terminated(a))
    BY <1>6, <2>3, <2>4, PrefixBehind
  <2>6. IsPrefix(b, a) <=> IsPrefix(e, Terminated(a))
    BY <1>5, EscapedPrefix
  <2>7. StartsWith(x, y) <=> IsPrefix(b, a)
    BY <1>1, <1>2, <1>8, <2>2 DEF StartsWith
  <2> QED BY <1>4, <1>7, <2>5, <2>6, <2>7
<1>9. CASE x.type # y.type
  <2>1. ~StartsWith(x, y)
    BY <1>9 DEF StartsWith
  <2>2. Len(d) = 1 /\ d[1] = keyTag[y.type]
    BY <1>3
  <2>3. keyTag[x.type] # keyTag[y.type]
    BY <1>1, <1>9, AttributeKinds DEF keyTag
  <2>4. Len(f) >= 1 /\ f[1] = keyTag[y.type]
    <3>1. /\ Len(d) \in Nat /\ Len(e) \in Nat /\ Len(d \o e) = Len(d) + Len(e)
          /\ \A i \in 1..Len(d) : (d \o e)[i] = d[i]
      BY ConcatFacts
    <3>2. Len(d \o e) >= 1 /\ (d \o e)[1] = d[1]
      BY <2>2, <3>1
    <3> QED BY <1>6, <2>2, <3>2
  <2>5. f[1] # p[1] /\ Len(f) \in Nat
    BY <1>7, <2>3, <2>4, BlobFacts
  <2>6. IsPrefix(f, p) => p[1] = f[1]
    <3>1. IsPrefix(f, p) => \A i \in 1..Len(f) : p[i] = f[i]
      BY PrefixPointwise
    <3>2. 1 \in 1..Len(f)
      BY <2>4, <2>5
    <3> QED BY <3>1, <3>2
  <2> QED BY <1>4, <1>7, <2>1, <2>5, <2>6
<1> QED BY <1>8, <1>9

-----------------------------------------------------------------------------
(* Rows                                                                    *)

(* The columns of rows are BLOBs that order as their keys.                 *)
LEMMA KeysAreFaithful == KeysFaithful
<1> SUFFICES ASSUME NEW t \in Tables, NEW j \in Keys[t], NEW k \in Keys[t]
             PROVE  /\ itemKey(k) \in Seq(Byte) \X Seq(Byte)
                    /\ itemKey(j) = itemKey(k) => j = k
                    /\ <<j, k>> \in SamePk[t] <=> Same(HashKey[j], HashKey[k])
                    /\ <<j, k>> \in LessPk[t] <=> Before(HashKey[j], HashKey[k])
                    /\ RangeType[t] # "" =>
                          (<<j, k>> \in LessSk[t] <=> Before(RangeKey[j], RangeKey[k]))
  BY DEF KeysFaithful, Faithful
<1> DEFINE h(x) == encodeKeyValue(HashKey[x])
           r(x) == encodeKeyValue(RangeKey[x])
           sk(x) == IF RangeKey[x] = NoSort THEN <<>> ELSE r(x)
<1>1. /\ HashKey[j].type = HashKey[k].type
      /\ RangeType[t] = "" => RangeKey[j] = NoSort /\ RangeKey[k] = NoSort
      /\ RangeType[t] # "" => /\ RangeKey[j] # NoSort /\ RangeKey[k] # NoSort
                              /\ RangeKey[j].type = RangeKey[k].type
  <2>1. \A x \in Keys[t] : /\ HashKey[x].type = HashType[t]
                           /\ RangeType[t] = "" => RangeKey[x] = NoSort
                           /\ RangeType[t] # "" => /\ RangeKey[x] # NoSort
                                                   /\ RangeKey[x].type = RangeType[t]
    BY PagingAssumption
  <2>2. HashKey[j].type = HashType[t] /\ HashKey[k].type = HashType[t]
    BY <2>1, Zenon
  <2>3. CASE RangeType[t] = ""
    BY <2>1, <2>2, <2>3, Zenon
  <2>4. CASE RangeType[t] # ""
    <3>1. /\ RangeKey[j] # NoSort /\ RangeKey[j].type = RangeType[t]
          /\ RangeKey[k] # NoSort /\ RangeKey[k].type = RangeType[t]
      BY <2>1, <2>4, Zenon
    <3> QED BY <2>2, <2>4, <3>1, Zenon
  <2> QED BY <2>3, <2>4
<1>2. /\ HashKey[j] \in KeyAttribute /\ h(j) # NoBytes
      /\ HashKey[k] \in KeyAttribute /\ h(k) # NoBytes
      /\ RangeType[t] # "" => /\ RangeKey[j] \in KeyAttribute /\ r(j) # NoBytes
                              /\ RangeKey[k] \in KeyAttribute /\ r(k) # NoBytes
  BY KeysAssumption DEF Encodable
<1>3. /\ Same(HashKey[j], HashKey[k]) /\ (RangeType[t] # "" => Same(RangeKey[j], RangeKey[k]))
      => j = k
  BY KeysAssumption DEF Same
<1>4. /\ Before(HashKey[j], HashKey[k]) <=> Precedes(h(j), h(k))
      /\ Same(HashKey[j], HashKey[k]) <=> h(j) = h(k)
  BY <1>1, <1>2, AttributesSort
<1>5. RangeType[t] # "" =>
         /\ Before(RangeKey[j], RangeKey[k]) <=> Precedes(r(j), r(k))
         /\ Same(RangeKey[j], RangeKey[k]) <=> r(j) = r(k)
  BY <1>1, <1>2, AttributesSort
<1>6. /\ h(j) \in Blob /\ h(k) \in Blob
      /\ RangeType[t] # "" => r(j) \in Blob /\ r(k) \in Blob
  BY <1>2, AttributeEncoded
<1>7. itemKey(j) = <<h(j), sk(j)>> /\ itemKey(k) = <<h(k), sk(k)>>
  BY DEF itemKey
<1>8. /\ RangeType[t] = "" => sk(j) = <<>> /\ sk(k) = <<>>
      /\ RangeType[t] # "" => sk(j) = r(j) /\ sk(k) = r(k)
  BY <1>1
<1>9. /\ <<j, k>> \in SamePk[t] <=> itemKey(j)[1] = itemKey(k)[1]
      /\ <<j, k>> \in LessPk[t] <=> Precedes(itemKey(j)[1], itemKey(k)[1])
      /\ <<j, k>> \in LessSk[t] <=> Precedes(itemKey(j)[2], itemKey(k)[2])
  <2>1. Columns[t][j] = itemKey(j) /\ Columns[t][k] = itemKey(k)
    BY DEF Columns
  <2> HIDE DEF Columns
  <2> QED BY <2>1 DEF SamePk, LessPk, LessSk
<1> HIDE DEF h, r, sk
<1>10. itemKey(j)[1] = h(j) /\ itemKey(j)[2] = sk(j) /\ itemKey(k)[1] = h(k) /\ itemKey(k)[2] = sk(k)
  BY <1>7
<1>11. itemKey(k) \in Seq(Byte) \X Seq(Byte)
  <2>1. sk(k) \in Seq(Byte)
    BY <1>6, <1>8, EmptySeq DEF Blob
  <2>2. h(k) \in Seq(Byte)
    BY <1>6 DEF Blob
  <2>3. <<h(k), sk(k)>> \in Seq(Byte) \X Seq(Byte)
    BY <2>1, <2>2
  <2> QED BY <1>7, <2>3
<1>12. itemKey(j) = itemKey(k) => j = k
  BY <1>3, <1>4, <1>5, <1>8, <1>10
<1> QED BY <1>4, <1>5, <1>8, <1>9, <1>10, <1>11, <1>12

(* The predicate that a fitting key condition becomes accepts what the     *)
(* condition describes.                                                    *)
LEMMA ConditionAccepts ==
    ASSUME NEW t \in Tables, NEW req \in Requests[t], req.kind = "Query", Accepted(t, req),
           NEW k \in Keys[t]
    PROVE  Satisfies(req.cond, Columns[t][k][2]) <=> Describes(req.cond, RangeKey[k])
<1> DEFINE op == req.cond.op
<1>1. op \in Ops
  BY PagingAssumption
<1>2. CASE op = ""
  BY <1>2 DEF Satisfies, Describes
<1>3. CASE op # ""
  <2>1. /\ RangeType[t] # ""
        /\ req.cond.lo \in KeyAttribute /\ encodeKeyValue(req.cond.lo) # NoBytes
        /\ op = "begins_with" => req.cond.lo.type \in {"S", "B"}
        /\ op # "begins_with" => req.cond.lo.type = RangeType[t]
        /\ op = "between" => /\ req.cond.hi \in KeyAttribute
                             /\ encodeKeyValue(req.cond.hi) # NoBytes
                             /\ req.cond.hi.type = RangeType[t]
    BY <1>3, KeysAssumption DEF Accepted
  <2>2. /\ RangeKey[k] \in KeyAttribute /\ encodeKeyValue(RangeKey[k]) # NoBytes
        /\ RangeKey[k].type = RangeType[t] /\ RangeKey[k] # NoSort
    BY <2>1, KeysAssumption, PagingAssumption, ZenonT(60) DEF Encodable
  <2>3. PICK key \in Blob : key = encodeKeyValue(RangeKey[k])
    BY <2>2, AttributeEncoded
  <2>4. Columns[t][k][2] = key
    BY <2>2, <2>3 DEF Columns, itemKey
  <2>5. PICK lo \in Blob : lo = encodeKeyValue(req.cond.lo)
    BY <2>1, AttributeEncoded
  <2>6. CASE op = "begins_with"
    <3>1. req.cond.lo.type # "N"
      BY <2>1, <2>6
    <3>2. PICK pref \in Blob : pref = keyPrefix(req.cond.lo)
      BY <2>1, <2>2, <3>1, PrefixesMatch
    <3>3. IsPrefix(pref, key) <=> StartsWith(RangeKey[k], req.cond.lo)
      BY <2>1, <2>2, <2>3, <3>1, <3>2, PrefixesMatch
    <3>4. IsPrefix(pref, key) <=> /\ ~Precedes(key, pref)
                                  /\ successor(pref) # NoBytes => Precedes(key, successor(pref))
      BY PrefixRange
    <3>5. Satisfies(req.cond, key) <=> /\ ~Precedes(key, pref)
                                       /\ successor(pref) # NoBytes => Precedes(key, successor(pref))
      BY <2>6, <3>2 DEF Satisfies
    <3>6. Describes(req.cond, RangeKey[k]) <=> StartsWith(RangeKey[k], req.cond.lo)
      BY <2>6 DEF Describes
    <3> QED BY <2>4, <3>3, <3>4, <3>5, <3>6
  <2>7. CASE op # "begins_with"
    <3>1. /\ Before(RangeKey[k], req.cond.lo) <=> Precedes(key, lo)
          /\ Before(req.cond.lo, RangeKey[k]) <=> Precedes(lo, key)
          /\ Same(RangeKey[k], req.cond.lo) <=> key = lo
      BY <2>1, <2>2, <2>3, <2>5, <2>7, AttributesSort
    <3>2. CASE op = "between"
      <4>1. PICK hi \in Blob : hi = encodeKeyValue(req.cond.hi)
        BY <2>1, <3>2, AttributeEncoded
      <4>2. Before(req.cond.hi, RangeKey[k]) <=> Precedes(hi, key)
        BY <2>1, <2>2, <2>3, <3>2, <4>1, AttributesSort
      <4>3. Satisfies(req.cond, key) <=> ~Precedes(key, lo) /\ ~Precedes(hi, key)
        BY <2>5, <3>2, <4>1 DEF Satisfies
      <4>4. Describes(req.cond, RangeKey[k]) <=>
               ~Before(RangeKey[k], req.cond.lo) /\ ~Before(req.cond.hi, RangeKey[k])
        BY <3>2 DEF Describes
      <4> QED BY <2>4, <3>1, <4>2, <4>3, <4>4
    <3>3. CASE op # "between"
      <4>1. op \in {"=", "<", "<=", ">", ">="}
        BY <1>1, <1>3, <2>7, <3>3 DEF Ops
      <4>2. Satisfies(req.cond, key) <=> \/ op = "="  /\ key = lo
                                         \/ op = "<"  /\ Precedes(key, lo)
                                         \/ op = "<=" /\ ~Precedes(lo, key)
                                         \/ op = ">"  /\ Precedes(lo, key)
                                         \/ op = ">=" /\ ~Precedes(key, lo)
        BY <2>5, <4>1 DEF Satisfies
      <4>3. Describes(req.cond, RangeKey[k]) <=>
               \/ op = "="  /\ Same(RangeKey[k], req.cond.lo)
               \/ op = "<"  /\ Before(RangeKey[k], req.cond.lo)
               \/ op = "<=" /\ ~Before(req.cond.lo, RangeKey[k])
               \/ op = ">"  /\ Before(req.cond.lo, RangeKey[k])
               \/ op = ">=" /\ ~Before(RangeKey[k], req.cond.lo)
        BY <4>1 DEF Describes
      <4> QED BY <2>4, <3>1, <4>2, <4>3
    <3> QED BY <3>2, <3>3
  <2> QED BY <2>6, <2>7
<1> QED BY <1>2, <1>3

LEMMA ConditionsAreFaithful == ConditionsFaithful
<1> SUFFICES ASSUME NEW t \in Tables PROVE Asked[t] = Wanted[t]
  BY DEF ConditionsFaithful
<1> DEFINE Fitting == {req \in Requests[t] : Accepted(t, req)}
           A == [req \in Fitting |->
                   {k \in Keys[t] :
                       req.kind = "Query" => /\ Columns[t][k][1] = encodeKeyValue(req.pk)
                                             /\ Satisfies(req.cond, Columns[t][k][2])}]
           B == [req \in Fitting |->
                   {k \in Keys[t] :
                       req.kind = "Query" => Same(HashKey[k], req.pk) /\ Describes(req.cond, RangeKey[k])}]
<1>1. Asked[t] = A /\ Wanted[t] = B
  BY DEF Asked, Wanted
<1>2. ASSUME NEW req \in Fitting, NEW k \in Keys[t], req.kind = "Query"
      PROVE  /\ Columns[t][k][1] = encodeKeyValue(req.pk) <=> Same(HashKey[k], req.pk)
             /\ Satisfies(req.cond, Columns[t][k][2]) <=> Describes(req.cond, RangeKey[k])
  <2>1. req \in Requests[t] /\ Accepted(t, req)
    OBVIOUS
  <2>2. /\ req.pk \in KeyAttribute /\ encodeKeyValue(req.pk) # NoBytes
        /\ req.pk.type = HashType[t]
    BY <1>2, <2>1, KeysAssumption DEF Accepted
  <2>3. /\ HashKey[k] \in KeyAttribute /\ encodeKeyValue(HashKey[k]) # NoBytes
        /\ HashKey[k].type = HashType[t]
    BY KeysAssumption, PagingAssumption DEF Encodable
  <2>4. Same(HashKey[k], req.pk) <=> encodeKeyValue(HashKey[k]) = encodeKeyValue(req.pk)
    BY <2>2, <2>3, AttributesSort
  <2>5. Columns[t][k][1] = encodeKeyValue(HashKey[k])
    BY DEF Columns, itemKey
  <2> QED BY <1>2, <2>1, <2>4, <2>5, ConditionAccepts
<1>3. ASSUME NEW req \in Fitting PROVE A[req] = B[req]
  <2> HIDE DEF Fitting
  <2> QED BY <1>2
<1>4. A = B
  BY <1>3
<1> QED BY <1>1, <1>4

(* What that gives for the columns pk and sk.                              *)
LEMMA ColumnFacts ==
    ASSUME KeysFaithful, NEW t \in Tables, NEW j \in Keys[t], NEW k \in Keys[t]
    PROVE  /\ Columns[t][k][1] \in Blob
           /\ Columns[t][k][2] \in Blob
           /\ j # k => \/ Columns[t][j][1] # Columns[t][k][1]
                       \/ Columns[t][j][2] # Columns[t][k][2]
           /\ <<j, k>> \in SamePk[t] <=> Columns[t][j][1] = Columns[t][k][1]
           /\ <<j, k>> \in LessPk[t] <=> Precedes(Columns[t][j][1], Columns[t][k][1])
           /\ <<j, k>> \in LessSk[t] <=> Precedes(Columns[t][j][2], Columns[t][k][2])
<1>1. Columns[t][k] = itemKey(k) /\ Columns[t][j] = itemKey(j)
  BY DEF Columns
<1>2. itemKey(k) \in Blob \X Blob /\ itemKey(j) \in Blob \X Blob
  BY DEF KeysFaithful, Faithful, Blob
<1>3. itemKey(j) = itemKey(k) => j = k
  BY DEF KeysFaithful, Faithful
<1> HIDE DEF itemKey
<1>4. j # k => itemKey(j)[1] # itemKey(k)[1] \/ itemKey(j)[2] # itemKey(k)[2]
  BY <1>2, <1>3
<1>5. /\ <<j, k>> \in SamePk[t] <=> Columns[t][j][1] = Columns[t][k][1]
      /\ <<j, k>> \in LessPk[t] <=> Precedes(Columns[t][j][1], Columns[t][k][1])
      /\ <<j, k>> \in LessSk[t] <=> Precedes(Columns[t][j][2], Columns[t][k][2])
  BY DEF SamePk, LessPk, LessSk
<1> QED BY <1>1, <1>2, <1>4, <1>5

(* The order of a listing's rows, in terms of their columns.               *)
LEMMA OrderFacts ==
    ASSUME KeysFaithful, table \in Tables, NEW j \in Keys[table], NEW k \in Keys[table]
    PROVE  OrderedBefore(j, k) <=>
              \/ request.kind = "Scan" /\ Precedes(Columns[table][j][1], Columns[table][k][1])
              \/ /\ Columns[table][j][1] = Columns[table][k][1]
                 /\ IF request.forward
                    THEN Precedes(Columns[table][j][2], Columns[table][k][2])
                    ELSE Precedes(Columns[table][k][2], Columns[table][j][2])
<1>1. /\ <<j, k>> \in SamePk[table] <=> Columns[table][j][1] = Columns[table][k][1]
      /\ <<j, k>> \in LessPk[table] <=> Precedes(Columns[table][j][1], Columns[table][k][1])
      /\ <<j, k>> \in LessSk[table] <=> Precedes(Columns[table][j][2], Columns[table][k][2])
      /\ <<k, j>> \in LessSk[table] <=> Precedes(Columns[table][k][2], Columns[table][j][2])
  BY ColumnFacts
<1> QED BY <1>1 DEF OrderedBefore

LEMMA OrderedIrreflexive ==
    ASSUME KeysFaithful, table \in Tables, NEW k \in Keys[table]
    PROVE  ~OrderedBefore(k, k)
<1>1. Columns[table][k][1] \in Blob /\ Columns[table][k][2] \in Blob
  BY ColumnFacts
<1> QED BY <1>1, OrderFacts, PrecedesIrreflexive

LEMMA OrderedTransitive ==
    ASSUME KeysFaithful, table \in Tables,
           NEW i \in Keys[table], NEW j \in Keys[table], NEW k \in Keys[table],
           OrderedBefore(i, j), OrderedBefore(j, k)
    PROVE  OrderedBefore(i, k)
<1> DEFINE pk(x) == Columns[table][x][1]
           sk(x) == Columns[table][x][2]
           On(x, y) == IF request.forward THEN Precedes(sk(x), sk(y)) ELSE Precedes(sk(y), sk(x))
           Is(x, y) == \/ request.kind = "Scan" /\ Precedes(pk(x), pk(y))
                       \/ pk(x) = pk(y) /\ On(x, y)
<1>1. /\ OrderedBefore(i, j) <=> Is(i, j)
      /\ OrderedBefore(j, k) <=> Is(j, k)
      /\ OrderedBefore(i, k) <=> Is(i, k)
  BY OrderFacts
<1>2. /\ pk(i) \in Blob /\ pk(j) \in Blob /\ pk(k) \in Blob
      /\ sk(i) \in Blob /\ sk(j) \in Blob /\ sk(k) \in Blob
  BY ColumnFacts
<1> HIDE DEF pk, sk
<1>3. On(i, j) /\ On(j, k) => On(i, k)
  BY <1>2, PrecedesTransitive
<1>4. Precedes(pk(i), pk(j)) /\ Precedes(pk(j), pk(k)) => Precedes(pk(i), pk(k))
  BY <1>2, PrecedesTransitive
<1> HIDE DEF On
<1> QED BY <1>1, <1>3, <1>4

-----------------------------------------------------------------------------
(* The rows of one SELECT                                                  *)

(* A SELECT that runs for a fitting request asks for rows of the table;    *)
(* those of a Query share their partition key.                             *)
LEMMA AskedFacts ==
    ASSUME TypeOK, phase = "select"
    PROVE  /\ table \in Tables /\ request \in Requests[table]
           /\ Selected \subseteq Keys[table]
           /\ IsFiniteSet(Selected)
           /\ \A k \in Selected :
                 request.kind = "Query" => Columns[table][k][1] = encodeKeyValue(request.pk)
<1>1. table \in Tables /\ request \in Requests[table] /\ Accepted(table, request)
  BY DEF TypeOK
<1>2. Asked[table][request] =
         {k \in Keys[table] :
             request.kind = "Query" =>
                /\ Columns[table][k][1] = encodeKeyValue(request.pk)
                /\ Satisfies(request.cond, Columns[table][k][2])}
  BY <1>1 DEF Asked
<1>3. Selected \subseteq Asked[table][request]
  BY DEF Selected
<1>4. IsFiniteSet(Keys[table])
  BY <1>1, PagingAssumption
<1>5. IsFiniteSet(Selected)
  BY <1>2, <1>3, <1>4, FS_Subset
<1> QED BY <1>1, <1>2, <1>3, <1>5

(* Two keys that a request may meet can be told apart by its ORDER BY.     *)
LEMMA KeysComparable ==
    ASSUME KeysFaithful, TypeOK, NEW j \in Keys[table], NEW k \in Keys[table], j # k,
           request.kind = "Query" => Columns[table][j][1] = Columns[table][k][1]
    PROVE  OrderedBefore(j, k) \/ OrderedBefore(k, j)
<1>1. table \in Tables /\ request.kind \in {"Query", "Scan"}
  BY PagingAssumption DEF TypeOK
<1>2. /\ Columns[table][j][1] \in Blob /\ Columns[table][k][1] \in Blob
      /\ Columns[table][j][2] \in Blob /\ Columns[table][k][2] \in Blob
      /\ \/ Columns[table][j][1] # Columns[table][k][1]
         \/ Columns[table][j][2] # Columns[table][k][2]
  BY <1>1, ColumnFacts
<1>3. CASE Columns[table][j][1] # Columns[table][k][1]
  <2>1. request.kind = "Scan"
    BY <1>1, <1>3
  <2>2. \/ Precedes(Columns[table][j][1], Columns[table][k][1])
        \/ Precedes(Columns[table][k][1], Columns[table][j][1])
    BY <1>2, <1>3, PrecedesTotal
  <2> QED BY <1>1, <2>1, <2>2, OrderFacts
<1>4. CASE Columns[table][j][1] = Columns[table][k][1]
  <2>1. \/ Precedes(Columns[table][j][2], Columns[table][k][2])
        \/ Precedes(Columns[table][k][2], Columns[table][j][2])
    BY <1>2, <1>4, PrecedesTotal
  <2> QED BY <1>1, <1>4, <2>1, OrderFacts
<1> QED BY <1>3, <1>4

LEMMA SelectedComparable ==
    ASSUME KeysFaithful, TypeOK, phase = "select",
           NEW j \in Selected, NEW k \in Selected, j # k
    PROVE  OrderedBefore(j, k) \/ OrderedBefore(k, j)
<1>1. /\ j \in Keys[table] /\ k \in Keys[table]
      /\ request.kind = "Query" => Columns[table][j][1] = Columns[table][k][1]
  BY AskedFacts
<1> QED BY <1>1, KeysComparable

(* The last row of a part of a SELECT's rows exists.                       *)
LEMMA LastKeyFacts ==
    ASSUME KeysFaithful, TypeOK, phase = "select",
           NEW S \in SUBSET Selected, S # {}
    PROVE  /\ LastKey(S) \in S
           /\ \A j \in S : j = LastKey(S) \/ OrderedBefore(j, LastKey(S))
<1> DEFINE R == {jk \in S \X S : OrderedBefore(jk[1], jk[2])}
<1>1. table \in Tables /\ S \subseteq Keys[table] /\ IsFiniteSet(S)
  BY AskedFacts, FS_Subset
<1>2. \A i, j \in S : <<i, j>> \in R <=> OrderedBefore(i, j)
  OBVIOUS
<1> HIDE DEF R
<1>3. \A i \in S : <<i, i>> \notin R
  BY <1>1, <1>2, OrderedIrreflexive
<1>4. \A i, j, k \in S : <<i, j>> \in R /\ <<j, k>> \in R => <<i, k>> \in R
  BY <1>1, <1>2, OrderedTransitive
<1>5. \A i, j \in S : i = j \/ <<i, j>> \in R \/ <<j, i>> \in R
  BY <1>2, SelectedComparable
<1>6. \E m \in S : \A j \in S : j = m \/ <<j, m>> \in R
  <2>1. IsFiniteSet(S) /\ S # {}
    BY <1>1
  <2>2. StrictTotalOrder(R, S)
    BY <1>3, <1>4, <1>5 DEF StrictTotalOrder
  <2> QED BY <2>1, <2>2, GreatestOf
<1>7. \E m \in S : \A j \in S : j = m \/ OrderedBefore(j, m)
  BY <1>2, <1>6
<1> QED BY <1>7 DEF LastKey

(* A SELECT that finds rows scans some, whatever its limit.                *)
LEMMA ScannedSome ==
    ASSUME KeysFaithful, TypeOK, phase = "select", Selected # {}
    PROVE  Scanned # {}
<1> DEFINE R == {jk \in Selected \X Selected : OrderedBefore(jk[2], jk[1])}
<1>1. /\ table \in Tables /\ Selected \subseteq Keys[table] /\ IsFiniteSet(Selected)
      /\ request.limit \in Nat
  BY AskedFacts, PagingAssumption
<1>2. \A i, j \in Selected : <<i, j>> \in R <=> OrderedBefore(j, i)
  OBVIOUS
<1> HIDE DEF R
<1>3. \A i \in Selected : <<i, i>> \notin R
  BY <1>1, <1>2, OrderedIrreflexive
<1>4. \A i, j, k \in Selected : <<i, j>> \in R /\ <<j, k>> \in R => <<i, k>> \in R
  BY <1>1, <1>2, OrderedTransitive
<1>5. \A i, j \in Selected : i = j \/ <<i, j>> \in R \/ <<j, i>> \in R
  BY <1>2, SelectedComparable
<1>6. PICK m \in Selected : \A j \in Selected : j = m \/ <<j, m>> \in R
  <2>1. IsFiniteSet(Selected) /\ Selected # {}
    BY <1>1
  <2>2. StrictTotalOrder(R, Selected)
    BY <1>3, <1>4, <1>5 DEF StrictTotalOrder
  <2> QED BY <2>1, <2>2, GreatestOf
<1>7. ASSUME NEW j \in Selected, OrderedBefore(j, m) PROVE FALSE
  BY <1>1, <1>2, <1>6, <1>7, OrderedTransitive, OrderedIrreflexive
<1>8. {j \in Selected : OrderedBefore(j, m)} = {}
  BY <1>7
<1>9. request.limit > 0 => Cardinality({j \in Selected : OrderedBefore(j, m)}) < request.limit
  BY <1>1, <1>8, FS_EmptySet
<1> QED BY <1>9 DEF Scanned, FirstOf

Single == request.kind = "Query" /\ RangeType[table] = ""

(* A Query on a table without a sort key finds one row, and scans it.      *)
LEMMA SingleRow ==
    ASSUME KeysFaithful, TypeOK, phase = "select", Single
    PROVE  Scanned = Selected
<1>1. /\ table \in Tables /\ Selected \subseteq Keys[table]
      /\ request.limit \in Nat
      /\ \A k \in Selected : Columns[table][k][1] = encodeKeyValue(request.pk)
  BY AskedFacts, PagingAssumption DEF Single
<1>2. ASSUME NEW k \in Selected PROVE Columns[table][k][2] = <<>>
  <2>1. RangeKey[k] = NoSort
    BY <1>1, PagingAssumption DEF Single
  <2> QED BY <1>1, <2>1 DEF Columns, itemKey
<1>3. ASSUME NEW j \in Selected, NEW k \in Selected, j # k PROVE FALSE
  <2>1. \/ Columns[table][j][1] # Columns[table][k][1]
        \/ Columns[table][j][2] # Columns[table][k][2]
    BY <1>1, <1>3, ColumnFacts
  <2> QED BY <1>1, <1>2, <2>1
<1>4. ASSUME NEW k \in Selected PROVE k \in Scanned
  <2>1. {j \in Selected : OrderedBefore(j, k)} = {}
    BY <1>1, <1>3, OrderedIrreflexive
  <2>2. request.limit > 0 => Cardinality({j \in Selected : OrderedBefore(j, k)}) < request.limit
    BY <1>1, <2>1, FS_EmptySet
  <2> QED BY <2>2 DEF Scanned, FirstOf
<1> QED BY <1>4 DEF Scanned, FirstOf

(* The rows after an ExclusiveStartKey come after it in the ORDER BY.      *)
LEMMA Continuation ==
    ASSUME TypeOK, phase = "select", ~Single,
           KeysFaithful, start # NoKey,
           request.kind = "Query" => Columns[table][start][1] = encodeKeyValue(request.pk),
           NEW k \in Selected
    PROVE  OrderedBefore(start, k)
<1>1. /\ table \in Tables /\ k \in Keys[table] /\ start \in Keys[table]
      /\ request.kind \in {"Query", "Scan"}
      /\ request.kind = "Scan" => request.forward
      /\ request.kind = "Query" => Columns[table][k][1] = encodeKeyValue(request.pk)
  BY AskedFacts, PagingAssumption DEF TypeOK
<1>2. Continues(start, k)
  BY DEF Selected
<1>3. CASE request.kind = "Scan"
  BY <1>1, <1>2, <1>3 DEF Continues, OrderedBefore
<1>4. CASE request.kind = "Query"
  <2>1. <<start, k>> \in SamePk[table]
    BY <1>1, <1>4, ColumnFacts
  <2> QED BY <1>2, <1>4, <2>1 DEF Continues, OrderedBefore, Single
<1> QED BY <1>1, <1>3, <1>4

(* The order of rows is the order that the client expects.                 *)
LEMMA FollowsFacts ==
    ASSUME KeysFaithful, table \in Tables, request \in Requests[table],
           NEW j \in Keys[table], NEW k \in Keys[table]
    PROVE  Follows(j, k) <=> OrderedBefore(j, k)
<1>1. Follows(j, k) <=> Comes(request, j, k)
  BY DEF Follows, InOrder
<1>2. /\ <<j, k>> \in SamePk[table] <=> Same(HashKey[j], HashKey[k])
      /\ <<j, k>> \in LessPk[table] <=> Before(HashKey[j], HashKey[k])
  BY DEF KeysFaithful, Faithful
<1>3. CASE RangeType[table] # ""
  <2>1. RangeKey[j] # NoSort
    BY <1>3, PagingAssumption
  <2>2. /\ <<j, k>> \in LessSk[table] <=> Before(RangeKey[j], RangeKey[k])
        /\ <<k, j>> \in LessSk[table] <=> Before(RangeKey[k], RangeKey[j])
    BY <1>3 DEF KeysFaithful, Faithful
  <2> QED BY <1>1, <1>2, <2>1, <2>2 DEF Comes, OrderedBefore
<1>4. CASE RangeType[table] = ""
  <2>1. RangeKey[j] = NoSort /\ RangeKey[k] = NoSort
    BY <1>4, PagingAssumption
  <2>2. Columns[table][j][2] = <<>> /\ Columns[table][k][2] = <<>>
    BY <2>1 DEF Columns, itemKey
  <2>3. <<j, k>> \notin LessSk[table] /\ <<k, j>> \notin LessSk[table]
    BY <2>2, ColumnFacts, PrecedesIrreflexive
  <2> QED BY <1>1, <1>2, <2>1, <2>3 DEF Comes, OrderedBefore
<1> QED BY <1>3, <1>4

-----------------------------------------------------------------------------
(* The invariant of a listing                                              *)

(* What the client has comes before, or up to, the key it continues after. *)
Reached ==
    Listing => \A j \in got \union page : start # NoKey /\ (j = start \/ Follows(j, start))

(* A Query that finds one row does not continue from it.                   *)
Lone == Listing /\ Single => got \union page = {}

Fresh == phase = "idle" => got = {} /\ page = {}

(* A Query's ExclusiveStartKey is of the partition it asks for.            *)
Located ==
    phase = "select" /\ request.kind = "Query" /\ start # NoKey
    => Columns[table][start][1] = encodeKeyValue(request.pk)

PagingInv == TypeOK /\ PagesInOrder /\ Reached /\ Lone /\ Fresh /\ Located

LEMMA PagingInit == Init => PagingInv
BY DEF Init, PagingInv, TypeOK, PagesInOrder, Reached, Lone, Fresh, Located, Listing

LEMMA LoadStep ==
    ASSUME PagingInv, Load
    PROVE  PagingInv'
BY DEF PagingInv, Load, Refused, TypeOK, PagesInOrder, Follows, Reached, Lone, Single,
       Fresh, Located, Listing

LEMMA BeginStep ==
    ASSUME PagingInv, NEW esk \in Keys[table] \union {NoKey}, Begin(esk)
    PROVE  PagingInv'
BY DEF PagingInv, Begin, TypeOK, PagesInOrder, Follows, Reached, Lone, Single,
       Fresh, Located, Listing

(* A step of the others, and a page that fails, leave the listing where it *)
(* is or end it.                                                           *)
LEMMA OtherStep ==
    ASSUME PagingInv,
           \/ PageFails
           \/ \E k \in Keys[table], item \in Items \union {NoItem} : Write(k, item)
           \/ DeleteTable
           \/ CreateTable
           \/ UNCHANGED vars
    PROVE  PagingInv'
<1>1. TypeOK'
  BY DEF PagingInv, TypeOK, PageFails, Write, DeleteTable, CreateTable, vars, listing
<1>2. /\ UNCHANGED <<table, request, start, page, got>>
      /\ phase' = phase \/ phase' = "failed"
  BY DEF PageFails, Write, DeleteTable, CreateTable, vars, listing
<1> QED BY <1>1, <1>2 DEF PagingInv, PagesInOrder, Follows, Reached, Lone, Single,
                          Fresh, Located, Listing

LEMMA PageStep ==
    ASSUME KeysFaithful, PagingInv, Page
    PROVE  PagingInv'
<1>1. /\ phase = "select" /\ TypeOK
      /\ UNCHANGED <<table, rows, exists, request, origin, steady>>
      /\ got' = got \union page
      /\ page' \subseteq Scanned
      /\ start' = IF Scanned # Selected THEN LastKey(Scanned) ELSE NoKey
      /\ phase' = IF start' # NoKey THEN "load" ELSE "done"
  BY DEF Page, PagingInv, Scanned
<1>2. /\ table \in Tables /\ request \in Requests[table]
      /\ Scanned \subseteq Selected /\ Selected \subseteq Keys[table]
      /\ got \subseteq Keys[table] /\ page \subseteq Keys[table]
  BY <1>1, AskedFacts DEF Scanned, FirstOf, TypeOK
<1>3. ASSUME start' # NoKey
      PROVE  /\ Scanned # Selected
             /\ start' \in Scanned
             /\ \A j \in Scanned : j = start' \/ OrderedBefore(j, start')
  <2>1. Scanned # Selected /\ start' = LastKey(Scanned)
    BY <1>1, <1>3
  <2>2. Selected # {}
    BY <1>2, <2>1
  <2>3. Scanned # {}
    BY <1>1, <2>2, ScannedSome
  <2>4. /\ LastKey(Scanned) \in Scanned
        /\ \A j \in Scanned : j = LastKey(Scanned) \/ OrderedBefore(j, LastKey(Scanned))
    BY <1>1, <1>2, <2>3, LastKeyFacts
  <2> QED BY <2>1, <2>4
<1>4. ASSUME NEW j \in got \union page, NEW k \in Selected
      PROVE  OrderedBefore(j, k)
  <2>1. start # NoKey /\ start \in Keys[table] /\ (j = start \/ Follows(j, start))
    BY <1>1 DEF PagingInv, Reached, Listing, TypeOK
  <2>2. ~Single
    BY <1>1 DEF PagingInv, Lone, Listing
  <2>3. OrderedBefore(start, k)
    BY <1>1, <2>1, <2>2, Continuation DEF PagingInv, Located
  <2>4. j = start \/ OrderedBefore(j, start)
    BY <1>2, <2>1, FollowsFacts
  <2> QED BY <1>2, <2>1, <2>3, <2>4, OrderedTransitive
<1>5. TypeOK'
  <2>1. start' \in Keys[table] \union {NoKey}
    BY <1>2, <1>3
  <2>2. phase' \in {"load", "done"}
    BY <1>1
  <2> QED BY <1>1, <1>2, <2>1, <2>2 DEF TypeOK
<1>6. PagesInOrder'
  <2>1. ASSUME NEW j \in got \union page, NEW k \in page'
        PROVE  <<j, k>> \in InOrder[table][request]
    <3>1. k \in Selected /\ j \in Keys[table] /\ k \in Keys[table]
      BY <1>1, <1>2
    <3>2. Follows(j, k)
      BY <1>2, <1>4, <3>1, FollowsFacts
    <3> QED BY <3>2 DEF Follows
  <2> QED BY <1>1, <2>1 DEF PagesInOrder, Follows
<1>7. Reached'
  <2>1. ASSUME start' # NoKey, NEW j \in got \union page \union page', j # start'
        PROVE  <<j, start'>> \in InOrder[table][request]
    <3>1. start' \in Selected /\ start' \in Keys[table] /\ j \in Keys[table]
      BY <1>1, <1>2, <1>3, <2>1
    <3>2. OrderedBefore(j, start')
      BY <1>1, <1>3, <1>4, <2>1, <3>1
    <3>3. Follows(j, start')
      BY <1>2, <3>1, <3>2, FollowsFacts
    <3> QED BY <3>3 DEF Follows
  <2>2. Listing' => start' # NoKey
    BY <1>1 DEF Listing
  <2> QED BY <1>1, <2>1, <2>2 DEF Reached, Follows
<1>8. Lone'
  <2>1. Listing' => start' # NoKey
    BY <1>1 DEF Listing
  <2>2. ~(Listing' /\ Single)
    BY <1>1, <1>3, <2>1, SingleRow
  <2> QED BY <1>1, <2>2 DEF Lone, Single
<1>9. Fresh' /\ Located'
  BY <1>1 DEF Fresh, Located
<1> QED BY <1>5, <1>6, <1>7, <1>8, <1>9 DEF PagingInv

LEMMA PagingStep ==
    ASSUME KeysFaithful, PagingInv, [Next]_vars
    PROVE  PagingInv'
BY BeginStep, LoadStep, PageStep, OtherStep DEF Next

-----------------------------------------------------------------------------
(* What a listing starts after                                             *)

(* Every table has a sort key, or is only scanned: the ExclusiveStartKey   *)
(* of a Query is compared with the sort key alone.                         *)
Continuable ==
    \A t \in Tables : \A req \in Requests[t] : req.kind = "Query" => RangeType[t] # ""

Advanced ==
    Listing /\ origin # NoKey => start # NoKey /\ (start = origin \/ Follows(origin, start))

(* Until it begins, a listing starts nowhere.                              *)
Unbegun == phase = "idle" => origin = NoKey

AfterInv == Advanced /\ Unbegun /\ StrictlyAfter

LEMMA AfterInit == Init => AfterInv
BY DEF Init, AfterInv, Advanced, Unbegun, Listing, StrictlyAfter

LEMMA AfterPageStep ==
    ASSUME KeysFaithful, Continuable, PagingInv, AfterInv, Page
    PROVE  AfterInv'
<1>1. /\ phase = "select" /\ TypeOK
      /\ UNCHANGED <<table, request, origin>>
      /\ got' = got \union page
      /\ page' \subseteq Scanned
      /\ start' = IF Scanned # Selected THEN LastKey(Scanned) ELSE NoKey
      /\ phase' = IF start' # NoKey THEN "load" ELSE "done"
  BY DEF Page, PagingInv, Scanned
<1>2. /\ table \in Tables /\ request \in Requests[table]
      /\ Scanned \subseteq Selected /\ Selected \subseteq Keys[table]
      /\ origin \in Keys[table] \union {NoKey}
  BY <1>1, AskedFacts DEF Scanned, FirstOf, TypeOK
<1>3. ASSUME origin # NoKey, NEW k \in Selected
      PROVE  <<origin, k>> \in InOrder[table][request]
  <2>1. start # NoKey /\ start \in Keys[table] /\ (start = origin \/ Follows(origin, start))
    BY <1>1, <1>3 DEF AfterInv, Advanced, Listing, TypeOK
  <2>2. ~Single
    BY <1>2 DEF Continuable, Single
  <2>3. OrderedBefore(start, k)
    BY <1>1, <2>1, <2>2, Continuation DEF PagingInv, Located
  <2>4. start = origin \/ OrderedBefore(origin, start)
    BY <1>2, <1>3, <2>1, FollowsFacts
  <2>5. OrderedBefore(origin, k)
    BY <1>2, <1>3, <2>1, <2>3, <2>4, OrderedTransitive
  <2>6. Follows(origin, k)
    BY <1>2, <1>3, <2>5, FollowsFacts
  <2> QED BY <2>6 DEF Follows
<1>4. start' # NoKey => start' \in Selected
  <2>1. ASSUME start' # NoKey PROVE start' \in Selected
    <3>1. Scanned # Selected /\ start' = LastKey(Scanned)
      BY <1>1, <2>1
    <3>2. Scanned # {}
      BY <1>1, <1>2, <3>1, ScannedSome
    <3> QED BY <1>1, <1>2, <3>1, <3>2, LastKeyFacts
  <2> QED BY <2>1
<1>5. Advanced'
  BY <1>1, <1>3, <1>4 DEF Advanced, Listing, Follows
<1>6. StrictlyAfter'
  <2>1. ASSUME origin # NoKey, NEW k \in got \union page
        PROVE  <<origin, k>> \in InOrder[table][request]
    BY <2>1 DEF AfterInv, StrictlyAfter, Follows
  <2> QED BY <1>1, <1>2, <1>3, <2>1 DEF StrictlyAfter, Follows
<1>7. Unbegun'
  BY <1>1 DEF Unbegun
<1> QED BY <1>5, <1>6, <1>7 DEF AfterInv

LEMMA AfterStep ==
    ASSUME KeysFaithful, Continuable, PagingInv, AfterInv, [Next]_vars
    PROVE  AfterInv'
<1>1. CASE \E esk \in Keys[table] \union {NoKey} : Begin(esk)
  BY <1>1 DEF PagingInv, Fresh, AfterInv, Begin, Advanced, Unbegun, Listing, StrictlyAfter
<1>2. CASE Load
  BY <1>2 DEF AfterInv, Load, Advanced, Unbegun, Listing, StrictlyAfter, Follows
<1>3. CASE Page
  BY <1>3, AfterPageStep
<1>4. CASE \/ PageFails
           \/ \E k \in Keys[table], item \in Items \union {NoItem} : Write(k, item)
           \/ DeleteTable
           \/ CreateTable
           \/ UNCHANGED vars
  <2>1. /\ UNCHANGED <<table, request, origin, start, page, got>>
        /\ phase' = phase \/ phase' = "failed"
    BY <1>4 DEF PageFails, Write, DeleteTable, CreateTable, vars, listing
  <2> QED BY <2>1 DEF AfterInv, Advanced, Unbegun, Listing, StrictlyAfter, Follows
<1> QED BY <1>1, <1>2, <1>3, <1>4 DEF Next

-----------------------------------------------------------------------------
(* What a listing has given                                                *)

(* An item that the client is owed: wanted, and left alone since it began. *)
Due(k) ==
    /\ k \in steady \intersect Wanted[table][request]
    /\ rows[k] # NoItem /\ Outcome(k) = "yes"
    /\ origin # NoKey => Follows(origin, k)

(* Up to the key it continues after, the client has what it is owed.       *)
GivenSoFar ==
    Listing /\ start # NoKey
    => \A k \in Keys[table] : Due(k) /\ (k = start \/ Follows(k, start)) => k \in got \union page

GivenAll == phase = "done" => \A k \in Keys[table] : Due(k) => k \in got \union page

OnlyWanted == got \union page \subseteq Wanted[table][request]

OnlyPresent == \A k \in (got \union page) \intersect steady : rows[k] # NoItem

CompleteInv == GivenSoFar /\ GivenAll /\ OnlyWanted /\ OnlyPresent

LEMMA CompleteInit == Init => CompleteInv
BY DEF Init, CompleteInv, GivenSoFar, GivenAll, OnlyWanted, OnlyPresent, Listing

(* Of two rows of a SELECT, the limit does not cut off the first.          *)
LEMMA ScannedDownward ==
    ASSUME KeysFaithful, TypeOK, phase = "select",
           NEW k \in Selected, NEW m \in Scanned, OrderedBefore(k, m)
    PROVE  k \in Scanned
<1> DEFINE Lower(x) == {j \in Selected : OrderedBefore(j, x)}
<1>1. /\ table \in Tables /\ Selected \subseteq Keys[table] /\ IsFiniteSet(Selected)
      /\ m \in Selected /\ request.limit \in Nat
      /\ request.limit > 0 => Cardinality(Lower(m)) < request.limit
  BY AskedFacts, PagingAssumption DEF Scanned, FirstOf
<1>2. Lower(k) \subseteq Lower(m) /\ Lower(m) \subseteq Selected
  BY <1>1, OrderedTransitive
<1>3. k \in Scanned <=> (request.limit > 0 => Cardinality(Lower(k)) < request.limit)
  BY DEF Scanned, FirstOf
<1> HIDE DEF Lower
<1>4. IsFiniteSet(Lower(m))
  BY <1>1, <1>2, FS_Subset
<1>5. /\ Cardinality(Lower(k)) <= Cardinality(Lower(m))
      /\ Cardinality(Lower(k)) \in Nat /\ Cardinality(Lower(m)) \in Nat
  BY <1>2, <1>4, FS_Subset, FS_CardinalityType
<1> QED BY <1>1, <1>3, <1>5

(* A row that was asked for, and is not up to the ExclusiveStartKey, is    *)
(* not left out for it.                                                    *)
LEMMA NotSkipped ==
    ASSUME KeysFaithful, TypeOK, start # NoKey,
           NEW k \in Keys[table], k # start, ~OrderedBefore(k, start),
           request.kind = "Query" => Columns[table][start][1] = Columns[table][k][1]
    PROVE  Continues(start, k)
<1>1. start \in Keys[table] /\ table \in Tables /\ request \in Requests[table]
  BY DEF TypeOK
<1>2. request.kind \in {"Query", "Scan"} /\ (request.kind = "Scan" => request.forward)
  BY <1>1, PagingAssumption
<1>3. OrderedBefore(start, k)
  BY <1>1, KeysComparable
<1> QED BY <1>2, <1>3 DEF OrderedBefore, Continues

LEMMA CompletePageStep ==
    ASSUME KeysFaithful, ConditionsFaithful, PagingInv, CompleteInv, Page
    PROVE  CompleteInv'
<1>1. /\ phase = "select" /\ TypeOK
      /\ UNCHANGED <<table, rows, request, origin, steady>>
      /\ got' = got \union page
      /\ page' = {k \in Scanned : Outcome(k) = "yes"}
      /\ start' = IF Scanned # Selected THEN LastKey(Scanned) ELSE NoKey
      /\ phase' = IF start' # NoKey THEN "load" ELSE "done"
  BY DEF Page, PagingInv, Scanned
<1>2. /\ table \in Tables /\ request \in Requests[table] /\ Accepted(table, request)
      /\ Scanned \subseteq Selected /\ Selected \subseteq Keys[table]
  BY <1>1, AskedFacts DEF Scanned, FirstOf, TypeOK
<1>3. /\ Wanted[table][request] = Asked[table][request]
      /\ \A k \in Asked[table][request] :
            k \in Keys[table] /\ (request.kind = "Query" =>
                                     Columns[table][k][1] = encodeKeyValue(request.pk))
  BY <1>2 DEF ConditionsFaithful, Asked
<1>4. ASSUME NEW k \in Keys[table], Due(k), k \notin got \union page
      PROVE  k \in Selected
  <2>1. k \in Asked[table][request] /\ rows[k] # NoItem
    BY <1>3, <1>4 DEF Due
  <2>2. ASSUME start # NoKey PROVE Continues(start, k)
    <3>1. k # start /\ ~Follows(k, start)
      BY <1>1, <1>4, <2>2 DEF CompleteInv, GivenSoFar, Listing
    <3>2. start \in Keys[table]
      BY <1>1, <2>2 DEF TypeOK
    <3>3. ~OrderedBefore(k, start)
      BY <1>2, <3>1, <3>2, FollowsFacts
    <3>4. request.kind = "Query" => Columns[table][start][1] = Columns[table][k][1]
      BY <1>1, <1>3, <2>1, <2>2 DEF PagingInv, Located
    <3> QED BY <1>1, <2>2, <3>1, <3>3, <3>4, NotSkipped
  <2> QED BY <2>1, <2>2 DEF Selected
<1>5. ASSUME start' # NoKey, NEW k \in Keys[table], Due(k),
             k = start' \/ <<k, start'>> \in InOrder[table][request],
             k \notin got \union page
      PROVE  k \in page'
  <2>1. k \in Selected /\ Outcome(k) = "yes"
    BY <1>4, <1>5 DEF Due
  <2>2. Scanned # Selected /\ start' = LastKey(Scanned)
    BY <1>1, <1>5
  <2>3. Scanned # {}
    BY <1>1, <1>2, <2>2, ScannedSome
  <2>4. start' \in Scanned /\ start' \in Keys[table]
    BY <1>1, <1>2, <2>2, <2>3, LastKeyFacts
  <2>5. k = start' \/ OrderedBefore(k, start')
    <3>1. k = start' \/ Follows(k, start')
      BY <1>5 DEF Follows
    <3> QED BY <1>2, <2>4, <3>1, FollowsFacts
  <2>6. k \in Scanned
    BY <1>1, <2>1, <2>4, <2>5, ScannedDownward
  <2> QED BY <1>1, <2>1, <2>6
<1>6. ASSUME start' = NoKey, NEW k \in Keys[table], Due(k), k \notin got \union page
      PROVE  k \in page'
  <2>1. CASE Scanned # Selected
    <3>1. Scanned # {}
      BY <1>1, <1>2, <2>1, ScannedSome
    <3>2. start' \in Keys[table]
      BY <1>1, <1>2, <2>1, <3>1, LastKeyFacts
    <3> QED BY <1>2, <1>6, <3>2, PagingAssumption
  <2>2. CASE Scanned = Selected
    BY <1>1, <1>4, <1>6, <2>2 DEF Due
  <2> QED BY <2>1, <2>2
<1>7. \A k \in Keys[table] : Due(k)' <=> Due(k)
  BY <1>1 DEF Due, Outcome, Follows
<1>8. GivenSoFar'
  BY <1>1, <1>5, <1>7 DEF GivenSoFar, Follows
<1>9. GivenAll'
  BY <1>1, <1>6, <1>7 DEF GivenAll
<1>10. OnlyWanted'
  BY <1>1, <1>3 DEF CompleteInv, OnlyWanted, Scanned, FirstOf, Selected
<1>11. OnlyPresent'
  BY <1>1 DEF CompleteInv, OnlyPresent, Scanned, FirstOf, Selected
<1> QED BY <1>8, <1>9, <1>10, <1>11 DEF CompleteInv

LEMMA CompleteBeginStep ==
    ASSUME KeysFaithful, PagingInv, CompleteInv,
           NEW esk \in Keys[table] \union {NoKey}, Begin(esk)
    PROVE  CompleteInv'
<1>1. /\ table \in Tables /\ request \in Requests[table] /\ got = {} /\ page = {}
      /\ UNCHANGED <<table, rows, request, page, got>>
      /\ origin' = esk /\ start' = esk /\ phase' = "load"
  BY DEF Begin, PagingInv, TypeOK, Fresh
<1>2. ASSUME esk # NoKey, NEW k \in Keys[table],
             <<esk, k>> \in InOrder[table][request],
             k = esk \/ <<k, esk>> \in InOrder[table][request]
      PROVE  FALSE
  <2>1. OrderedBefore(esk, k) /\ (k = esk \/ OrderedBefore(k, esk))
    BY <1>1, <1>2, FollowsFacts DEF Follows
  <2> QED BY <1>1, <1>2, <2>1, OrderedIrreflexive, OrderedTransitive
<1>3. GivenSoFar'
  BY <1>1, <1>2 DEF GivenSoFar, Due, Follows
<1>4. GivenAll' /\ OnlyWanted' /\ OnlyPresent'
  BY <1>1 DEF GivenAll, OnlyWanted, OnlyPresent
<1> QED BY <1>3, <1>4 DEF CompleteInv

(* A write takes its key out of what is owed, and changes no other row.    *)
LEMMA CompleteOtherStep ==
    ASSUME PagingInv, CompleteInv,
           \/ Load
           \/ PageFails
           \/ \E k \in Keys[table], item \in Items \union {NoItem} : Write(k, item)
           \/ DeleteTable
           \/ CreateTable
           \/ UNCHANGED vars
    PROVE  CompleteInv'
<1>1. /\ UNCHANGED <<table, request, origin, start, page, got>>
      /\ phase' = phase \/ phase' = "failed" \/ (phase = "load" /\ phase' = "select")
  <2>1. CASE Load
    BY <2>1 DEF Load
  <2>2. CASE PageFails
    BY <2>2 DEF PageFails
  <2>3. CASE \/ \E k \in Keys[table], item \in Items \union {NoItem} : Write(k, item)
             \/ DeleteTable \/ CreateTable \/ UNCHANGED vars
    BY <2>3 DEF Write, DeleteTable, CreateTable, vars, listing
  <2> QED BY <2>1, <2>2, <2>3
<1>2. steady' \subseteq steady /\ \A k \in steady' : rows'[k] = rows[k]
  <2>1. rows \in [Keys[table] -> Items \union {NoItem}] /\ steady \subseteq Keys[table]
    BY DEF PagingInv, TypeOK
  <2>2. CASE \E k \in Keys[table], item \in Items \union {NoItem} : Write(k, item)
    BY <2>1, <2>2 DEF Write
  <2>3. CASE DeleteTable
    BY <2>3 DEF DeleteTable
  <2>4. CASE Load \/ PageFails \/ CreateTable \/ UNCHANGED vars
    BY <2>4 DEF Load, PageFails, CreateTable, vars
  <2> QED BY <2>2, <2>3, <2>4
<1>3. \A k \in Keys[table] : Due(k)' => Due(k)
  BY <1>1, <1>2 DEF Due, Outcome, Follows
<1>4. GivenSoFar' /\ GivenAll'
  BY <1>1, <1>3 DEF CompleteInv, GivenSoFar, GivenAll, Listing, Follows
<1>5. OnlyWanted' /\ OnlyPresent'
  BY <1>1, <1>2 DEF CompleteInv, OnlyWanted, OnlyPresent
<1> QED BY <1>4, <1>5 DEF CompleteInv

LEMMA CompleteStep ==
    ASSUME KeysFaithful, ConditionsFaithful, PagingInv, CompleteInv, [Next]_vars
    PROVE  CompleteInv'
BY CompleteBeginStep, CompletePageStep, CompleteOtherStep DEF Next

-----------------------------------------------------------------------------
(* Theorems                                                                *)

(* No SELECT runs for a request that does not fit the table's keys, and    *)
(* the key a listing continues after is a key of the table (opQuery,       *)
(* opScan).                                                                *)
THEOREM PagingTypeCorrect == FairSpec => []TypeOK
<1>1. PagingInv /\ [Next]_vars => PagingInv'
  BY KeysAreFaithful, PagingStep
<1>2. PagingInv => TypeOK
  BY DEF PagingInv
<1> QED BY PagingInit, <1>1, <1>2, PTL DEF FairSpec

(* Whatever the keys of a table, its rows are ordered as their attributes' *)
(* values, and two keys of different values are two rows (encodeKeyValue,  *)
(* itemKey).                                                               *)
THEOREM RowsOrderedAsKeysHolds == FairSpec => []RowsOrderedAsKeys
<1>1. TypeOK => RowsOrderedAsKeys
  BY KeysAreFaithful DEF TypeOK, RowsOrderedAsKeys, KeysFaithful
<1> QED BY <1>1, PagingTypeCorrect, PTL

(* Whatever the key condition, the predicate it becomes accepts the rows   *)
(* that it describes, and no other (addSk, keyPrefix, successor).          *)
THEOREM SelectsAsDescribedHolds == FairSpec => []SelectsAsDescribed
<1>1. TypeOK => SelectsAsDescribed
  BY ConditionsAreFaithful DEF TypeOK, SelectsAsDescribed, ConditionsFaithful
<1> QED BY <1>1, PagingTypeCorrect, PTL

(* Pages come in the order of the sort key and never repeat an item, for   *)
(* any number of keys, pages and writers (the ORDER BY and the             *)
(* ExclusiveStartKey of opQuery, opScan).                                  *)
THEOREM PagesInOrderHolds == FairSpec => []PagesInOrder
<1>1. PagingInv /\ [Next]_vars => PagingInv'
  BY KeysAreFaithful, PagingStep
<1>2. PagingInv => PagesInOrder
  BY DEF PagingInv
<1> QED BY PagingInit, <1>1, <1>2, PTL DEF FairSpec

(* No page has the key it was asked to continue after, or an earlier item, *)
(* unless a Query continues on a table without a sort key.                 *)
THEOREM StrictlyAfterHolds == Continuable => (FairSpec => []StrictlyAfter)
<1> SUFFICES ASSUME Continuable PROVE FairSpec => []StrictlyAfter
  OBVIOUS
<1> DEFINE Both == PagingInv /\ AfterInv
<1>1. Init => Both
  BY PagingInit, AfterInit
<1>2. Both /\ [Next]_vars => Both'
  BY KeysAreFaithful, PagingStep, AfterStep
<1>3. Both => StrictlyAfter
  BY DEF AfterInv
<1> HIDE DEF Both
<1> QED BY <1>1, <1>2, <1>3, PTL DEF FairSpec

(* A listing that ends has given every item it was asked for that nobody   *)
(* wrote in the meantime, and nothing else, whatever the keys, limits,     *)
(* filters and writers.                                                    *)
THEOREM ListingCompleteHolds == FairSpec => []ListingComplete
<1> DEFINE Both == PagingInv /\ CompleteInv
<1>1. Init => Both
  BY PagingInit, CompleteInit
<1>2. Both /\ [Next]_vars => Both'
  BY KeysAreFaithful, ConditionsAreFaithful, PagingStep, CompleteStep
<1>3. Both => ListingComplete
  <2> SUFFICES ASSUME Both, phase = "done" PROVE ListingComplete
    BY DEF ListingComplete
  <2>1. steady \subseteq Keys[table]
    BY DEF PagingInv, TypeOK
  <2> QED BY <2>1 DEF CompleteInv, GivenAll, OnlyWanted, OnlyPresent, Due, ListingComplete
<1> HIDE DEF Both
<1> QED BY <1>1, <1>2, <1>3, PTL DEF FairSpec

=============================================================================
