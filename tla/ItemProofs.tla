------------------------------ MODULE ItemProofs ------------------------------
(***************************************************************************)
(* What an item is: updates store well-formed items only, ADD and DELETE   *)
(* are union and difference of sets, and conditions agree with one another *)
(* on every item.                                                          *)
(*                                                                         *)
(* An update works on a copy of the item in which containers are shared.   *)
(* Sound says what is true of the copy after each action: paths that lead  *)
(* to one container lead to the same elements of it (Heap), what is in a   *)
(* container fits its type and lists have no gaps (Shaped), nodes are      *)
(* nodes and sets are sets (NodesOK), the key is untouched (KeyKept), and  *)
(* a container that the update made was made by an action that has run     *)
(* (MadeBy): so one that an action makes is new.                           *)
(***************************************************************************)
EXTENDS DocumentProofs

-----------------------------------------------------------------------------
(* Digits                                                                  *)

(* f is the recursion by tenths, up to n.                                  *)
ByTenths(f, V, stop, base, step, n) ==
    /\ f \in [Nat -> V]
    /\ \A k \in 0..n : f[k] = IF k \in stop THEN base[k] ELSE step[k][f[k \div 10]]

LEMMA Tenth ==
    ASSUME NEW n \in Nat
    PROVE  n \div 10 \in Nat /\ (n # 0 => n \div 10 <= n - 1)
OBVIOUS

LEMMA TenthsAgree ==
    ASSUME NEW V, NEW stop, 0 \in stop, NEW base, NEW step, NEW m \in Nat, NEW n \in Nat,
           NEW f, NEW g, ByTenths(f, V, stop, base, step, m), ByTenths(g, V, stop, base, step, n),
           NEW k \in Nat, k <= m, k <= n
    PROVE  f[k] = g[k]
<1> DEFINE S == {i \in Nat : i <= m /\ i <= n /\ f[i] # g[i]}
<1> SUFFICES ASSUME S # {} PROVE FALSE
  OBVIOUS
<1>1. PICK i \in S : \A j \in S : i <= j
  <2>1. S \in SUBSET Nat
    OBVIOUS
  <2> HIDE DEF S
  <2> QED BY <2>1, Least
<1>2. i \in 0..m /\ i \in 0..n /\ i \in Nat
  OBVIOUS
<1>3. i # 0
  BY <1>1, <1>2 DEF ByTenths
<1>4. i \div 10 \in Nat /\ i \div 10 <= i - 1
  BY <1>2, <1>3, Tenth
<1>5. ~(i \div 10 \in S)
  BY <1>1, <1>2, <1>4
<1>6. f[i \div 10] = g[i \div 10]
  BY <1>2, <1>4, <1>5
<1> QED BY <1>1, <1>2, <1>6 DEF ByTenths

LEMMA TenthsExist ==
    ASSUME NEW V, NEW stop, 0 \in stop, NEW base \in [Nat -> V], NEW step \in [Nat -> [V -> V]],
           NEW n \in Nat
    PROVE  \E f : ByTenths(f, V, stop, base, step, n)
<1> DEFINE S == {i \in Nat : ~ \E f : ByTenths(f, V, stop, base, step, i)}
<1> SUFFICES ASSUME S # {} PROVE FALSE
  OBVIOUS
<1>1. PICK i \in S : \A j \in S : i <= j
  <2>1. S \in SUBSET Nat
    OBVIOUS
  <2> HIDE DEF S
  <2> QED BY <2>1, Least
<1>2. i \in Nat /\ ~ \E f : ByTenths(f, V, stop, base, step, i)
  OBVIOUS
<1>3. i # 0
  <2>1. ByTenths(base, V, stop, base, step, 0)
    BY DEF ByTenths
  <2> QED BY <1>2, <2>1
<1>4. i - 1 \in Nat /\ ~(i - 1 \in S)
  BY <1>1, <1>2, <1>3
<1>5. PICK g : ByTenths(g, V, stop, base, step, i - 1)
  BY <1>4
<1>6. i \div 10 \in Nat /\ i \div 10 <= i - 1
  BY <1>2, <1>3, Tenth
<1> DEFINE v == IF i \in stop THEN base[i] ELSE step[i][g[i \div 10]]
           f == [g EXCEPT ![i] = v]
<1>7. g \in [Nat -> V] /\ v \in V
  BY <1>2, <1>5, <1>6 DEF ByTenths
<1>8. f \in [Nat -> V] /\ f[i] = v /\ \A k \in Nat : k # i => f[k] = g[k]
  BY <1>2, <1>7
<1> HIDE DEF f
<1>9. ASSUME NEW k \in 0..i
      PROVE  f[k] = IF k \in stop THEN base[k] ELSE step[k][f[k \div 10]]
  <2>1. CASE k = i
    BY <1>6, <1>8, <2>1, <1>2
  <2>2. CASE k # i
    <3>1. k \in Nat /\ k \in 0..(i - 1)
      BY <1>2, <2>2
    <3>2. k \div 10 \in Nat /\ k \div 10 <= k
      BY <3>1, Tenth
    <3>3. k \div 10 # i
      BY <1>2, <3>1, <3>2
    <3> QED BY <1>5, <1>8, <2>2, <3>1, <3>2, <3>3 DEF ByTenths
  <2> QED BY <2>1, <2>2
<1>10. ByTenths(f, V, stop, base, step, i)
  BY <1>8, <1>9 DEF ByTenths
<1> QED BY <1>2, <1>10

LEMMA TenthsRecursion ==
    ASSUME NEW V, NEW stop, 0 \in stop, NEW base \in [Nat -> V], NEW step \in [Nat -> [V -> V]]
    PROVE  \E f \in [Nat -> V] :
              \A k \in Nat : f[k] = IF k \in stop THEN base[k] ELSE step[k][f[k \div 10]]
<1> DEFINE local(n) == CHOOSE f : ByTenths(f, V, stop, base, step, n)
<1>1. \A n \in Nat : ByTenths(local(n), V, stop, base, step, n)
  BY TenthsExist
<1>2. \A m, n, k \in Nat : k <= m /\ k <= n => local(m)[k] = local(n)[k]
  <2> TAKE m, n, k \in Nat
  <2> HAVE k <= m /\ k <= n
  <2> DEFINE a == local(m)
             b == local(n)
  <2>1. ByTenths(a, V, stop, base, step, m) /\ ByTenths(b, V, stop, base, step, n)
    BY <1>1
  <2> HIDE DEF a, b
  <2>2. a[k] = b[k]
    BY <2>1, TenthsAgree
  <2> QED BY <2>2 DEF a, b
<1> HIDE DEF local
<1> DEFINE f == [n \in Nat |-> local(n)[n]]
<1>3. f \in [Nat -> V]
  BY <1>1 DEF ByTenths
<1>4. ASSUME NEW k \in Nat
      PROVE  f[k] = IF k \in stop THEN base[k] ELSE step[k][f[k \div 10]]
  <2>1. k \div 10 \in Nat /\ k \div 10 <= k
    BY Tenth
  <2>2. f[k \div 10] = local(k)[k \div 10]
    BY <1>2, <2>1
  <2>3. k \in 0..k
    OBVIOUS
  <2>4. local(k)[k] = IF k \in stop THEN base[k] ELSE step[k][local(k)[k \div 10]]
    BY <1>1, <2>3 DEF ByTenths
  <2> QED BY <2>2, <2>4
<1> HIDE DEF f
<1> QED BY <1>3, <1>4

LEMMA DigitsTyped == \A n \in Nat : Digits[n] \in DigitStrings
<1> DEFINE stop == {n \in Nat : n < 10}
           base == [n \in Nat |-> IF n < 10 THEN <<n>> ELSE <<>>]
           step == [n \in Nat |-> [d \in DigitStrings |-> d \o <<n % 10>>]]
<1>1. base \in [Nat -> DigitStrings]
  <2>1. ASSUME NEW n \in Nat PROVE (IF n < 10 THEN <<n>> ELSE <<>>) \in DigitStrings
    <3>1. n < 10 => n \in Digit
      BY DEF Digit
    <3>2. <<>> \in Seq(Digit) /\ (n < 10 => <<n>> \in Seq(Digit))
      BY <3>1, EmptySeq
    <3> QED BY <3>2 DEF DigitStrings
  <2> QED BY <2>1
<1>2. step \in [Nat -> [DigitStrings -> DigitStrings]]
  <2>1. ASSUME NEW n \in Nat, NEW d \in DigitStrings PROVE d \o <<n % 10>> \in DigitStrings
    <3>1. n % 10 \in Digit
      BY DEF Digit
    <3>2. <<n % 10>> \in Seq(Digit)
      BY <3>1
    <3> QED BY <3>2, ConcatProperties DEF DigitStrings
  <2> QED BY <2>1
<1>3. 0 \in stop
  OBVIOUS
<1> HIDE DEF base, step, stop
<1>4. PICK f \in [Nat -> DigitStrings] :
         \A k \in Nat : f[k] = IF k \in stop THEN base[k] ELSE step[k][f[k \div 10]]
  BY <1>1, <1>2, <1>3, TenthsRecursion
<1>5. ASSUME NEW k \in Nat PROVE f[k] = IF k < 10 THEN <<k>> ELSE f[k \div 10] \o <<k % 10>>
  <2>1. k \div 10 \in Nat
    BY Tenth
  <2>2. f[k \div 10] \in DigitStrings
    BY <2>1
  <2>3. k \in stop <=> k < 10
    BY DEF stop
  <2>4. k < 10 => base[k] = <<k>>
    BY DEF base
  <2>5. step[k][f[k \div 10]] = f[k \div 10] \o <<k % 10>>
    BY <2>2 DEF step
  <2> QED BY <1>4, <2>3, <2>4, <2>5
<1>6. f = [n \in Nat |-> IF n < 10 THEN <<n>> ELSE f[n \div 10] \o <<n % 10>>]
  BY <1>5
<1>7. Digits = [n \in Nat |-> IF n < 10 THEN <<n>> ELSE Digits[n \div 10] \o <<n % 10>>]
  BY <1>6 DEF Digits
<1> DEFINE S == {n \in Nat : Digits[n] \notin DigitStrings}
<1>8. ASSUME S # {} PROVE FALSE
  <2>1. PICK n \in S : \A j \in S : n <= j
    <3>1. S \in SUBSET Nat
      OBVIOUS
    <3> HIDE DEF S
    <3> QED BY <1>8, <3>1, Least
  <2>2. n \in Nat /\ Digits[n] \notin DigitStrings
    OBVIOUS
  <2>3. Digits[n] = IF n < 10 THEN <<n>> ELSE Digits[n \div 10] \o <<n % 10>>
    BY <1>7, <2>2
  <2>4. ~(n < 10)
    <3>1. n < 10 => <<n>> \in DigitStrings
      BY <2>2 DEF DigitStrings, Digit
    <3> QED BY <2>2, <2>3, <3>1
  <2>5. n \div 10 \in Nat /\ ~(n \div 10 \in S)
    BY <2>1, <2>2, <2>4, Tenth
  <2>6. Digits[n \div 10] \in Seq(Digit)
    BY <2>5 DEF DigitStrings
  <2>7. <<n % 10>> \in Seq(Digit)
    <3>1. n % 10 \in Digit
      BY <2>2 DEF Digit
    <3> QED BY <3>1
  <2>8. Digits[n \div 10] \o <<n % 10>> \in Seq(Digit)
    BY <2>6, <2>7, ConcatProperties
  <2> QED BY <2>2, <2>3, <2>4, <2>8 DEF DigitStrings
<1> QED BY <1>8

LEMMA IntegerNode == \A n \in Int : Integer(n) \in Node /\ Integer(n).type = "N"
<1>1. <<>> \in Seq(Digit) /\ 0 \in Int
  BY EmptySeq
<1>2. ASSUME NEW n \in Int PROVE Integer(n) \in Node
  <2>1. (IF n < 0 THEN -n ELSE n) \in Nat
    OBVIOUS
  <2>2. Digits[IF n < 0 THEN -n ELSE n] \in Seq(Digit)
    BY <2>1, DigitsTyped DEF DigitStrings
  <2> QED BY <1>1, <2>2 DEF Integer, Node, Numerals
<1> QED BY <1>2 DEF Integer

-----------------------------------------------------------------------------
(* Values that are compared                                                *)

LEMMA NodeParts ==
    ASSUME NEW node \in Node
    PROVE  /\ node.type \in {"S", "B"} => node.bytes \in Blob
           /\ node.type = "N" => node.num \in Numerals
           /\ node.type \in {"SS", "BS"} => node.members \in Seq(Seq(Byte)) /\ node.members # <<>>
           /\ node.type = "NS" => node.nums \in Seq(Numerals) /\ node.nums # <<>>
           /\ node.type \in {"S", "B", "N", "BOOL", "NULL", "L", "M", "SS", "BS", "NS"}
BY DEF Node, Blob

(* Only lists and maps have something in them.                             *)
LEMMA Containers ==
    ASSUME NEW v, IsValue(v), NEW p \in DOMAIN v, NEW q \in DOMAIN v, IsPrefix(p, q), p # q
    PROVE  v[p].type \in {"L", "M"}
<1>1. p \in Paths /\ q \in Paths /\ IsTree(DOMAIN v)
  BY DEF IsValue, IsTree
<1>2. Len(p) \in Nat /\ Len(q) \in Nat /\ Len(p) <= Len(q) /\ \A i \in 1..Len(p) : q[i] = p[i]
  BY <1>1, PathFacts, LeadsPointwise
<1>3. Len(p) # Len(q)
  BY <1>1, <1>2, SamePath
<1>4. PICK n \in Nat : n = Len(p) + 1 /\ n \in 0..Len(q)
  BY <1>2, <1>3
<1>5. PICK r : r = Prefix(q, n)
  OBVIOUS
<1>6. r \in Paths /\ Len(r) = n /\ (\A i \in 1..n : r[i] = q[i]) /\ IsPrefix(r, q)
  BY <1>1, <1>4, <1>5, PrefixFacts, PrefixLeads
<1>7. r \in DOMAIN v
  BY <1>1, <1>6, LeadsInto
<1>8. r # Here
  BY <1>4, <1>6, PathFacts
<1>9. Front(r) = p
  <2>1. Front(r) \in Paths /\ Len(Front(r)) = n - 1 /\ \A i \in 1..(n - 1) : Front(r)[i] = r[i]
    BY <1>6, <1>8, FrontFacts
  <2> QED BY <1>1, <1>2, <1>4, <1>6, <2>1, SamePath
<1> QED BY <1>7, <1>8, <1>9 DEF IsValue

(* What comparisons need to know of a value.                               *)
Comparable(v) ==
    v[Here] \in Node /\ (v[Here].type \in {"S", "N", "B"} => DOMAIN v = {Here})

LEMMA ValueComparable ==
    ASSUME NEW v, IsValue(v)
    PROVE  Comparable(v)
<1>1. Here \in DOMAIN v /\ DOMAIN v \subseteq Paths
  BY DEF IsValue, IsTree
<1>2. ASSUME NEW q \in DOMAIN v, q # Here PROVE v[Here].type \in {"L", "M"}
  BY <1>1, <1>2, Containers, HereLeads
<1> QED BY <1>1, <1>2 DEF Comparable, IsValue

LEMMA FoundComparable ==
    ASSUME NEW at, IsValue(at), NEW path \in Paths, NEW v \in resolvePath(at, path)
    PROVE  Comparable(v) /\ IsTree(DOMAIN v)
<1>1. path \in DOMAIN at /\ v = At(at, path)
  BY DEF resolvePath
<1>2. IsTree(DOMAIN at) /\ DOMAIN at \subseteq Paths
  BY DEF IsValue, IsTree
<1>3. DOMAIN v = Onward(DOMAIN at, path) /\ \A q \in DOMAIN v : v[q] = at[path \o q]
  BY <1>1 DEF At, Onward
<1>4. IsTree(DOMAIN v)
  BY <1>1, <1>2, <1>3, OnwardTree
<1>5. Here \in DOMAIN v /\ path \o Here = path
  <2>1. path \o << >> = path
    BY ConcatEmptySeq DEF Paths
  <2> QED BY <1>4, <2>1 DEF IsTree, Here
<1>6. v[Here] = at[path] /\ at[path] \in Node
  BY <1>1, <1>3, <1>5 DEF IsValue
<1>7. ASSUME NEW q \in DOMAIN v, q # Here PROVE at[path].type \in {"L", "M"}
  <2>1. q \in Paths /\ path \o q \in DOMAIN at
    BY <1>2, <1>3, <1>4, OnwardFacts DEF IsTree
  <2>2. IsPrefix(path, path \o q)
    BY <2>1, JoinLeads
  <2>3. path \o q # path
    <3>1. Len(path \o q) = Len(path) + Len(q) /\ Len(path) \in Nat /\ Len(q) \in Nat /\ Len(q) # 0
      BY <1>7, <2>1, JoinFacts, PathFacts
    <3> QED BY <3>1
  <2> QED BY <1>1, <2>1, <2>2, <2>3, Containers
<1> QED BY <1>1, <1>4, <1>5, <1>6, <1>7 DEF Comparable

LEMMA SizeIsNat ==
    ASSUME NEW v, IsTree(DOMAIN v), v[Here] \in Node, v[Here].type \in Sized
    PROVE  sizeOf(v) \in Nat
<1>2. \A S : \A s \in Seq(S) : Len(s) \in Nat
  BY LenProperties
<1>3. Cardinality(Elements(v, Here)) \in Nat
  <2>2. IsFiniteSet(DOMAIN v)
    BY DEF IsTree
  <2> DEFINE few == {r \in DOMAIN v : Len(r) = Len(Here) + 1 /\ IsPrefix(Here, r)}
             f == [r \in few |-> r[Len(r)]]
  <2>3. IsFiniteSet(few)
    BY <2>2, FS_Subset
  <2>4. DOMAIN f = few /\ f = [r \in few |-> f[r]] /\ Elements(v, Here) = {f[r] : r \in few}
    BY DEF Elements
  <2> HIDE DEF f, few
  <2>5. IsFiniteSet({f[r] : r \in few})
    BY <2>3, <2>4, FiniteImage
  <2> QED BY <2>4, <2>5, FS_CardinalityType
<1> DEFINE node == v[Here]
<1>4. /\ node.type \in {"S", "B"} => node.bytes \in Seq(Byte)
      /\ node.type \in {"SS", "BS"} => node.members \in Seq(Seq(Byte))
      /\ node.type = "NS" => node.nums \in Seq(Numerals)
  BY NodeParts DEF Blob
<1>5. /\ node.type \in {"S", "B"} => sizeOf(v) = Len(node.bytes)
      /\ node.type \in {"SS", "BS"} => sizeOf(v) = Len(node.members)
      /\ node.type = "NS" => sizeOf(v) = Len(node.nums)
      /\ node.type \in {"L", "M"} => sizeOf(v) = Cardinality(Elements(v, Here))
  BY DEF sizeOf
<1> QED BY <1>2, <1>3, <1>4, <1>5 DEF Sized

(* What an operand finds: one value at most, that can be compared.         *)
LEMMA OperandComparable ==
    ASSUME NEW at, IsValue(at), NEW o, IsOperand(o), ~Erroneous(o, at)
    PROVE  /\ \A v \in resolveOperand(o, at) : Comparable(v)
           /\ \A v, w \in resolveOperand(o, at) : v = w
<1>1. CASE o.kind = "value"
  <2>1. o.vref \in DOMAIN Refs /\ IsValue(Refs[o.vref])
    BY <1>1, RefsAssumption DEF RefsAssumption, Erroneous
  <2>2. Comparable(Refs[o.vref])
    BY <2>1, ValueComparable
  <2>3. resolveOperand(o, at) = {Refs[o.vref]}
    BY <1>1 DEF resolveOperand
  <2> QED BY <2>2, <2>3
<1>2. CASE o.kind = "path"
  <2>1. resolveOperand(o, at) = resolvePath(at, o.path) /\ o.path \in Paths
    BY <1>2 DEF IsOperand, AttributePaths, resolveOperand
  <2>2. \A v, w \in resolvePath(at, o.path) : v = w
    BY DEF resolvePath
  <2> QED BY <2>1, <2>2, FoundComparable
<1>3. CASE o.kind = "size"
  <2>1. resolveOperand(o, at) = {Scalar(Integer(sizeOf(v))) : v \in resolvePath(at, o.path)}
        /\ o.path \in Paths
    BY <1>3 DEF IsOperand, AttributePaths, resolveOperand
  <2>2. \A v, w \in resolvePath(at, o.path) : v = w
    BY DEF resolvePath
  <2>3. ASSUME NEW v \in resolvePath(at, o.path) PROVE Comparable(Scalar(Integer(sizeOf(v))))
    <3>0. v[Here].type \in Sized /\ IsTree(DOMAIN v) /\ v[Here] \in Node
      BY <1>3, <2>1, FoundComparable DEF Erroneous, Comparable
    <3>1. sizeOf(v) \in Nat
      BY <3>0, SizeIsNat
    <3>2. Integer(sizeOf(v)) \in Node
      BY <3>1, IntegerNode
    <3> QED BY <3>2 DEF Comparable, Scalar
  <2> QED BY <2>1, <2>2, <2>3
<1> QED BY <1>1, <1>2, <1>3 DEF IsOperand, Erroneous

-----------------------------------------------------------------------------
(* The order of values                                                     *)

LEMMA OrderOfNodes ==
    ASSUME NEW a \in Node, NEW b \in Node, Ordered(a, b)
    PROVE  /\ compareOrder(a, b) \in {-1, 0, 1}
           /\ compareOrder(b, a) = -compareOrder(a, b)
           /\ compareOrder(a, b) = 0 <=> SameNode(a, b)
<1>1. a.type = b.type /\ a.type \in {"S", "N", "B"}
  BY DEF Ordered
<1>2. CASE a.type = "N"
  <2>1. a.num \in Numerals /\ b.num \in Numerals
    BY <1>1, <1>2, NodeParts
  <2>2. compareOrder(a, b) = compareNumbers(a.num, b.num)
        /\ compareOrder(b, a) = compareNumbers(b.num, a.num)
    BY <1>1, <1>2 DEF compareOrder
  <2>3. SameNode(a, b) <=> compareNumbers(a.num, b.num) = 0
    BY <1>1, <1>2 DEF SameNode, numbersEqual
  <2> QED BY <2>1, <2>2, <2>3, CompareNumbers
<1>3. CASE a.type # "N"
  <2>1. a.bytes \in Blob /\ b.bytes \in Blob
    BY <1>1, <1>3, NodeParts
  <2>2. /\ compareOrder(a, b) = IF a.bytes = b.bytes THEN 0 ELSE IF Precedes(a.bytes, b.bytes) THEN -1 ELSE 1
        /\ compareOrder(b, a) = IF b.bytes = a.bytes THEN 0 ELSE IF Precedes(b.bytes, a.bytes) THEN -1 ELSE 1
    BY <1>1, <1>3 DEF compareOrder
  <2>3. SameNode(a, b) <=> a.bytes = b.bytes
    BY <1>1, <1>3 DEF SameNode
  <2>4. a.bytes # b.bytes => (Precedes(a.bytes, b.bytes) <=> ~Precedes(b.bytes, a.bytes))
    BY <2>1, PrecedesTotal, PrecedesTransitive, PrecedesIrreflexive
  <2> QED BY <2>2, <2>3, <2>4
<1> QED BY <1>2, <1>3

(* Equal values that have an order have the order of equals, and back.     *)
LEMMA EqualInOrder ==
    ASSUME NEW l, NEW r, Comparable(l), Comparable(r), Ordered(l[Here], r[Here])
    PROVE  avEqual(l, r) <=> compareOrder(l[Here], r[Here]) = 0
<1>1. DOMAIN l = {Here} /\ DOMAIN r = {Here}
  BY DEF Comparable, Ordered
<1>2. avEqual(l, r) <=> SameNode(l[Here], r[Here])
  BY <1>1 DEF avEqual
<1> QED BY <1>2, OrderOfNodes DEF Comparable

(* How the comparisons of two values agree.                                *)
Coherent(l, r) ==
    /\ Compares("<>", l, r) <=> ~Compares("=", l, r)
    /\ Compares("<", l, r) <=> Compares(">", r, l)
    /\ ~(Compares("<", l, r) /\ Compares("=", l, r))
    /\ ~(Compares(">", l, r) /\ Compares("=", l, r))
    /\ ~(Compares("<", l, r) /\ Compares(">", l, r))
    /\ Compares("<=", l, r) /\ Compares(">=", l, r) => Compares("=", l, r)
    /\ ~(Compares("<=", l, r) /\ Compares(">", l, r))

LEMMA ComparisonsAgree ==
    ASSUME NEW l, NEW r, Comparable(l), Comparable(r)
    PROVE  Coherent(l, r)
<1>1. Ordered(l[Here], r[Here]) <=> Ordered(r[Here], l[Here])
  BY DEF Ordered
<1>2. CASE ~Ordered(l[Here], r[Here])
  BY <1>1, <1>2 DEF Coherent, Compares
<1>3. CASE Ordered(l[Here], r[Here])
  <2>1. PICK x, y : x = compareOrder(l[Here], r[Here]) /\ y = compareOrder(r[Here], l[Here])
    OBVIOUS
  <2>2. x \in {-1, 0, 1} /\ y = -x /\ (avEqual(l, r) <=> x = 0)
    BY <1>3, <2>1, OrderOfNodes, EqualInOrder DEF Comparable
  <2>3. /\ Compares("=", l, r) <=> avEqual(l, r)
        /\ Compares("<>", l, r) <=> ~avEqual(l, r)
        /\ Compares("<", l, r) <=> x < 0
        /\ Compares("<=", l, r) <=> x <= 0
        /\ Compares(">", l, r) <=> x > 0
        /\ Compares(">=", l, r) <=> x >= 0
        /\ Compares(">", r, l) <=> y > 0
    BY <1>1, <1>3, <2>1 DEF Compares
  <2> QED BY <2>2, <2>3 DEF Coherent
<1> QED BY <1>2, <1>3

-----------------------------------------------------------------------------
(* Conditions                                                              *)

Says(l, op, r, at) == evalCmp([kind |-> "cmp", op |-> op, left |-> l, right |-> r], at)

Ops == {"=", "<>", "<", "<=", ">", ">="}

(* A comparison is an error, or it is about what is missing, or it is the  *)
(* comparison of two values.                                               *)
SaysOf(l, r, at) ==
    \/ \A op \in Ops : Says(l, op, r, at) = "error" /\ Says(r, op, l, at) = "error"
    \/ \A op \in Ops : /\ Says(l, op, r, at) = Verdict(op = "<>")
                       /\ Says(r, op, l, at) = Verdict(op = "<>")
    \/ \E v, w : /\ Comparable(v) /\ Comparable(w)
                 /\ \A op \in Ops : /\ Says(l, op, r, at) = Verdict(Compares(op, v, w))
                                    /\ Says(r, op, l, at) = Verdict(Compares(op, w, v))

LEMMA Saying ==
    ASSUME NEW at, IsValue(at), NEW l, NEW r, IsOperand(l), IsOperand(r)
    PROVE  SaysOf(l, r, at)
<1> DEFINE ls == resolveOperand(l, at)
           rs == resolveOperand(r, at)
<1> DEFINE E == Erroneous(l, at) \/ Erroneous(r, at)
<1>0. ASSUME NEW op
      PROVE  /\ Says(l, op, r, at) =
                   IF E THEN "error"
                   ELSE Verdict(IF ls = {} \/ rs = {} THEN op = "<>"
                                ELSE \E v \in ls, w \in rs : Compares(op, v, w))
             /\ Says(r, op, l, at) =
                   IF E THEN "error"
                   ELSE Verdict(IF ls = {} \/ rs = {} THEN op = "<>"
                                ELSE \E v \in rs, w \in ls : Compares(op, v, w))
  BY DEF Says, evalCmp
<1>1. CASE E
  <2>1. \A op \in Ops : Says(l, op, r, at) = "error" /\ Says(r, op, l, at) = "error"
    BY <1>0, <1>1
  <2> QED BY <2>1 DEF SaysOf
<1>2. CASE ~E /\ (ls = {} \/ rs = {})
  <2>1. ASSUME NEW op \in Ops
        PROVE  Says(l, op, r, at) = Verdict(op = "<>") /\ Says(r, op, l, at) = Verdict(op = "<>")
    <3> HIDE DEF E, ls, rs
    <3> QED BY <1>0, <1>2
  <2> QED BY <2>1 DEF SaysOf
<1>3. CASE ~E /\ ls # {} /\ rs # {}
  <2>1. PICK v \in ls, w \in rs : TRUE
    BY <1>3
  <2>2. Comparable(v) /\ Comparable(w) /\ ls = {v} /\ rs = {w}
    BY <1>3, OperandComparable
  <2>3. ASSUME NEW op
        PROVE  /\ Says(l, op, r, at) = Verdict(Compares(op, v, w))
               /\ Says(r, op, l, at) = Verdict(Compares(op, w, v))
    <3> HIDE DEF E, ls, rs
    <3>1. /\ (\E x \in ls, y \in rs : Compares(op, x, y)) <=> Compares(op, v, w)
          /\ (\E x \in rs, y \in ls : Compares(op, x, y)) <=> Compares(op, w, v)
      BY <2>2
    <3> QED BY <1>0, <1>3, <3>1 DEF Verdict
  <2> QED BY <2>2, <2>3 DEF SaysOf
<1> QED BY <1>1, <1>2, <1>3

LEMMA AtMostOne ==
    ASSUME NEW P, P \subseteq {"<", "=", ">"},
           ~("<" \in P /\ "=" \in P), ~(">" \in P /\ "=" \in P), ~("<" \in P /\ ">" \in P)
    PROVE  Cardinality(P) <= 1
<1>1. P = {} \/ P = {"<"} \/ P = {"="} \/ P = {">"}
  OBVIOUS
<1>2. P = {} => Cardinality(P) = 0
  BY FS_EmptySet
<1>3. \A x : P = {x} => Cardinality(P) = 1
  BY FS_Singleton
<1>4. Cardinality(P) = 0 \/ Cardinality(P) = 1
  BY <1>1, <1>2, <1>3
<1> QED BY <1>4

(* How the comparisons of two operands agree.                              *)
SaysCoherently(l, r, at) ==
    LET yes(op) == Says(l, op, r, at) = "yes" IN
    /\ Says(l, "<>", r, at) = Negated[Says(l, "=", r, at)]
    /\ Says(l, "<", r, at) = Says(r, ">", l, at)
    /\ ~(yes("<") /\ yes("=")) /\ ~(yes(">") /\ yes("=")) /\ ~(yes("<") /\ yes(">"))
    /\ yes("<=") /\ yes(">=") => yes("=")
    /\ yes("<=") => ~yes(">")

LEMMA SayingAgrees ==
    ASSUME NEW at, NEW l, NEW r, SaysOf(l, r, at)
    PROVE  SaysCoherently(l, r, at)
<1>0. Negated["yes"] = "no" /\ Negated["no"] = "yes" /\ Negated["error"] = "error"
  BY DEF Negated
<1>1. CASE \A op \in Ops : Says(l, op, r, at) = "error" /\ Says(r, op, l, at) = "error"
  BY <1>0, <1>1 DEF Ops, SaysCoherently
<1>2. CASE \A op \in Ops : /\ Says(l, op, r, at) = Verdict(op = "<>")
                           /\ Says(r, op, l, at) = Verdict(op = "<>")
  BY <1>0, <1>2 DEF Ops, Verdict, SaysCoherently
<1>3. ASSUME NEW v, NEW w, Comparable(v), Comparable(w),
             \A op \in Ops : /\ Says(l, op, r, at) = Verdict(Compares(op, v, w))
                             /\ Says(r, op, l, at) = Verdict(Compares(op, w, v))
      PROVE  SaysCoherently(l, r, at)
  <2>1. Coherent(v, w)
    BY <1>3, ComparisonsAgree
  <2>2. /\ Says(l, "=", r, at) = Verdict(Compares("=", v, w))
        /\ Says(l, "<>", r, at) = Verdict(Compares("<>", v, w))
        /\ Says(l, "<", r, at) = Verdict(Compares("<", v, w))
        /\ Says(l, "<=", r, at) = Verdict(Compares("<=", v, w))
        /\ Says(l, ">", r, at) = Verdict(Compares(">", v, w))
        /\ Says(l, ">=", r, at) = Verdict(Compares(">=", v, w))
        /\ Says(r, ">", l, at) = Verdict(Compares(">", w, v))
    BY <1>3 DEF Ops
  <2> QED BY <1>0, <2>1, <2>2 DEF Coherent, Verdict, SaysCoherently
<1> QED BY <1>1, <1>2, <1>3 DEF SaysOf

(* BETWEEN is two comparisons.                                             *)
LEMMA BetweenAgrees ==
    ASSUME NEW at, IsValue(at), NEW c, IsOperand(c.v), IsOperand(c.lo), IsOperand(c.hi),
           evalBetween(c, at) # "error"
    PROVE  evalBetween(c, at) = "yes" <=>
              Says(c.v, ">=", c.lo, at) = "yes" /\ Says(c.v, "<=", c.hi, at) = "yes"
<1> DEFINE vs == resolveOperand(c.v, at)
           los == resolveOperand(c.lo, at)
           his == resolveOperand(c.hi, at)
<1>1. ~Erroneous(c.v, at) /\ ~Erroneous(c.lo, at) /\ ~Erroneous(c.hi, at)
  BY DEF evalBetween
<1>2. \A v, w \in vs : v = w
  BY <1>1, OperandComparable
<1>3. evalBetween(c, at) = "yes" <=>
         \E v \in vs, lo \in los, hi \in his : Compares(">=", v, lo) /\ Compares("<=", v, hi)
  BY <1>1 DEF evalBetween, Verdict
<1>4. Says(c.v, ">=", c.lo, at) = "yes" <=> \E v \in vs, lo \in los : Compares(">=", v, lo)
  BY <1>1 DEF Says, evalCmp, Verdict
<1>5. Says(c.v, "<=", c.hi, at) = "yes" <=> \E v \in vs, hi \in his : Compares("<=", v, hi)
  BY <1>1 DEF Says, evalCmp, Verdict
<1> HIDE DEF vs, los, his
<1> QED BY <1>2, <1>3, <1>4, <1>5

(* IN is a comparison with each of the list.                               *)
LEMMA InAgrees ==
    ASSUME NEW at, IsValue(at), NEW c, Len(c.list) \in Nat, evalIn(c, at) # "error"
    PROVE  evalIn(c, at) = "yes" <=> \E i \in 1..Len(c.list) : Says(c.v, "=", c.list[i], at) = "yes"
<1> DEFINE values == resolveOperand(c.v, at)
           Equals(o) == \E v \in values, w \in resolveOperand(o, at) : avEqual(v, w)
           ends == {i \in 1..Len(c.list) : Erroneous(c.list[i], at) \/ Equals(c.list[i])}
           end == CHOOSE i \in ends : \A j \in ends : i <= j
<1>1. ~Erroneous(c.v, at)
  BY DEF evalIn
<1>2. evalIn(c, at) = IF values = {} \/ ends = {} THEN "no"
                      ELSE IF Erroneous(c.list[end], at) THEN "error" ELSE "yes"
  BY <1>1 DEF evalIn
<1>3. ASSUME NEW i \in 1..Len(c.list)
      PROVE  Says(c.v, "=", c.list[i], at) = "yes" <=> ~Erroneous(c.list[i], at) /\ Equals(c.list[i])
  <2>1. \A v, w : Compares("=", v, w) <=> avEqual(v, w)
    BY DEF Compares
  <2> QED BY <1>1, <2>1 DEF Says, evalCmp, Verdict
<1>4. ends # {} => end \in ends
  <2>1. ends \in SUBSET Nat
    OBVIOUS
  <2> HIDE DEF ends
  <2>2. ends # {} => \E i \in ends : \A j \in ends : i <= j
    BY <2>1, Least
  <2> QED BY <2>2
<1>5. CASE values = {} \/ ends = {}
  <2>1. \A i \in 1..Len(c.list) : ~(~Erroneous(c.list[i], at) /\ Equals(c.list[i]))
    BY <1>5
  <2> QED BY <1>2, <1>3, <1>5, <2>1
<1>6. CASE values # {} /\ ends # {}
  <2>1. end \in 1..Len(c.list) /\ (Erroneous(c.list[end], at) \/ Equals(c.list[end]))
    BY <1>4, <1>6
  <2> HIDE DEF end, ends, Equals, values
  <2> QED BY <1>2, <1>3, <1>6, <2>1
<1> QED BY <1>5, <1>6

(* Conditions agree with one another on every item that is well-formed.    *)
LEMMA ConditionsAgree ==
    ASSUME IsValue(Current)
    PROVE  ConditionsCoherent
<1> SUFFICES ASSUME NEW c \in Conds
             PROVE  LET yes(l, op, r) == Says(l, op, r, Current) = "yes" IN
                    /\ c.kind = "cmp" =>
                          /\ Says(c.left, "<>", c.right, Current) =
                                Negated[Says(c.left, "=", c.right, Current)]
                          /\ Says(c.left, "<", c.right, Current) = Says(c.right, ">", c.left, Current)
                          /\ Cardinality({op \in {"<", "=", ">"} : yes(c.left, op, c.right)}) <= 1
                          /\ yes(c.left, "<=", c.right) /\ yes(c.left, ">=", c.right)
                                => yes(c.left, "=", c.right)
                          /\ yes(c.left, "<=", c.right) => ~yes(c.left, ">", c.right)
                    /\ c.kind = "between" /\ evalBetween(c, Current) # "error" =>
                          (evalBetween(c, Current) = "yes")
                             <=> (yes(c.v, ">=", c.lo) /\ yes(c.v, "<=", c.hi))
                    /\ c.kind = "in" /\ evalIn(c, Current) # "error" =>
                          (evalIn(c, Current) = "yes")
                             <=> \E i \in 1..Len(c.list) : yes(c.v, "=", c.list[i])
  BY DEF ConditionsCoherent, Says
<1>1. ASSUME c.kind = "cmp"
      PROVE  /\ SaysCoherently(c.left, c.right, Current)
             /\ Cardinality({op \in {"<", "=", ">"} : Says(c.left, op, c.right, Current) = "yes"}) <= 1
  <2>1. SaysCoherently(c.left, c.right, Current)
    BY <1>1, CondsAssumption, Saying, SayingAgrees
  <2> DEFINE P == {op \in {"<", "=", ">"} : Says(c.left, op, c.right, Current) = "yes"}
  <2>2. /\ P \subseteq {"<", "=", ">"}
        /\ ~("<" \in P /\ "=" \in P) /\ ~(">" \in P /\ "=" \in P) /\ ~("<" \in P /\ ">" \in P)
    BY <2>1 DEF SaysCoherently
  <2> HIDE DEF P
  <2>3. Cardinality(P) <= 1
    BY <2>2, AtMostOne
  <2> QED BY <2>1, <2>3 DEF P
<1>2. ASSUME c.kind = "between", evalBetween(c, Current) # "error"
      PROVE  evalBetween(c, Current) = "yes" <=>
                Says(c.v, ">=", c.lo, Current) = "yes" /\ Says(c.v, "<=", c.hi, Current) = "yes"
  BY <1>2, CondsAssumption, BetweenAgrees
<1>3. ASSUME c.kind = "in", evalIn(c, Current) # "error"
      PROVE  evalIn(c, Current) = "yes" <=>
                \E i \in 1..Len(c.list) : Says(c.v, "=", c.list[i], Current) = "yes"
  <2>1. Len(c.list) \in Nat
    BY <1>3, CondsAssumption, LenProperties
  <2> QED BY <1>3, <2>1, InAgrees
<1> QED BY <1>1, <1>2, <1>3 DEF SaysCoherently

(* What conditions are evaluated on is a value.                           *)
LEMMA CurrentValue == TypeOK => IsValue(Current)
<1>1. Here \in Paths
  BY HereLeads
<1>2. IsFiniteSet({Here})
  BY FS_Singleton
<1>3. IsValue(Nothing)
  BY <1>1, <1>2 DEF IsValue, IsTree, Nothing, Node
<1> QED BY <1>3 DEF TypeOK, WellFormed, Current

-----------------------------------------------------------------------------
(* Sums of numbers are numbers                                             *)

LEMMA TrimmedTyped == \A n \in Nat : Sums!TrimRight[n] \in Nat
<1> DEFINE stop == {n \in Nat : ~(n > 0 /\ n % 10 = 0)}
           base == [n \in Nat |-> n]
           step == [n \in Nat |-> [v \in Nat |-> v]]
<1>1. base \in [Nat -> Nat] /\ step \in [Nat -> [Nat -> Nat]] /\ 0 \in stop
  OBVIOUS
<1>2. /\ \A k \in Nat : k \in stop <=> ~(k > 0 /\ k % 10 = 0)
      /\ \A k \in Nat : base[k] = k
      /\ \A k, v \in Nat : step[k][v] = v
  OBVIOUS
<1> HIDE DEF base, step, stop
<1>3. PICK f \in [Nat -> Nat] :
         \A k \in Nat : f[k] = IF k \in stop THEN base[k] ELSE step[k][f[k \div 10]]
  <2>1. PICK V : V = Nat
    OBVIOUS
  <2>2. base \in [Nat -> V] /\ step \in [Nat -> [V -> V]]
    BY <1>1, <2>1
  <2>3. \E f \in [Nat -> V] :
           \A k \in Nat : f[k] = IF k \in stop THEN base[k] ELSE step[k][f[k \div 10]]
    <3>1. base \in [Nat -> V]
      BY <2>2
    <3>2. step \in [Nat -> [V -> V]]
      BY <2>2
    <3>3. 0 \in stop
      BY <1>1
    <3> QED BY <3>1, <3>2, <3>3, TenthsRecursion
  <2> QED BY <2>1, <2>3
<1>4. ASSUME NEW k \in Nat PROVE f[k] = IF k > 0 /\ k % 10 = 0 THEN f[k \div 10] ELSE k
  <2>1. k \div 10 \in Nat
    BY Tenth
  <2>2. f[k \div 10] \in Nat
    BY <2>1
  <2> QED BY <1>2, <1>3, <2>1, <2>2
<1>5. f = [n \in Nat |-> IF n > 0 /\ n % 10 = 0 THEN f[n \div 10] ELSE n]
  BY <1>4
<1> DEFINE T == Sums!TrimRight
<1>6. T = [n \in Nat |-> IF n > 0 /\ n % 10 = 0 THEN T[n \div 10] ELSE n]
  BY <1>5 DEF Sums!TrimRight
<1> HIDE DEF T
<1> DEFINE S == {n \in Nat : T[n] \notin Nat}
<1>7. ASSUME S # {} PROVE FALSE
  <2>1. PICK n \in S : \A j \in S : n <= j
    <3>1. S \in SUBSET Nat
      OBVIOUS
    <3> HIDE DEF S
    <3> QED BY <1>7, <3>1, Least
  <2>2. n \in Nat /\ T[n] \notin Nat
    OBVIOUS
  <2>3. T[n] = IF n > 0 /\ n % 10 = 0 THEN T[n \div 10] ELSE n
    BY <1>6, <2>2
  <2>4. n # 0 /\ T[n] = T[n \div 10]
    BY <2>2, <2>3
  <2>5. n \div 10 \in Nat /\ n \div 10 <= n - 1
    BY <2>2, <2>4, Tenth
  <2>6. ~(n <= n \div 10)
    BY <2>2, <2>5
  <2>7. ~(n \div 10 \in S)
    BY <2>1, <2>6
  <2> QED BY <2>2, <2>4, <2>5, <2>7
<1>8. \A n \in Nat : T[n] \in Nat
  BY <1>7
<1> QED BY <1>8 DEF T

LEMMA AddedTyped ==
    ASSUME NEW m \in Int, NEW n \in Int, NEW minus
    PROVE  Sums!addNumbers(m, n, minus) \in Int
<1>1. PICK k \in Int : k = IF minus THEN m - n ELSE m + n
  <2>1. CASE minus
    BY <2>1
  <2>2. CASE ~minus
    BY <2>2
  <2> QED BY <2>1, <2>2
<1>2. k % 1 = 0 /\ k \div 1 = k /\ (k < 0 => (-k) \div 1 = -k)
  OBVIOUS
<1>3. k >= 0 => Sums!TrimRight[k \div 1] \in Nat
  BY <1>2, TrimmedTyped
<1>4. k < 0 => Sums!TrimRight[(-k) \div 1] \in Nat
  <2>1. k < 0 => -k \in Nat
    OBVIOUS
  <2> QED BY <1>2, <2>1, TrimmedTyped
<1>5. Sums!ratDecimalString(k) \in Int
  BY <1>2, <1>3, <1>4 DEF Sums!ratDecimalString
<1> QED BY <1>1, <1>5 DEF Sums!addNumbers

(* Recursion along a sequence.                                             *)
Along(f, V, first, step, n) ==
    /\ f \in [0..n -> V] /\ f[0] = first
    /\ \A k \in 1..n : f[k] = step[k][f[k - 1]]

LEMMA AlongExists ==
    ASSUME NEW V, NEW first \in V, NEW n \in Nat, NEW step \in [1..n -> [V -> V]]
    PROVE  \E f : Along(f, V, first, step, n)
<1> DEFINE S == {m \in 0..n : ~\E f : Along(f, V, first, step, m)}
<1> SUFFICES ASSUME S # {} PROVE FALSE
  <2>1. n \in 0..n
    OBVIOUS
  <2> QED BY <2>1
<1>1. PICK m \in S : \A j \in S : m <= j
  <2>1. S \in SUBSET Nat
    OBVIOUS
  <2> HIDE DEF S
  <2> QED BY <2>1, Least
<1>2. m \in 0..n /\ ~\E f : Along(f, V, first, step, m)
  OBVIOUS
<1>3. CASE m = 0
  <2> DEFINE f == [k \in 0..0 |-> first]
  <2>1. f \in [0..0 -> V] /\ f[0] = first
    OBVIOUS
  <2> HIDE DEF f
  <2>2. Along(f, V, first, step, m)
    BY <1>3, <2>1 DEF Along
  <2> QED BY <1>2, <2>2
<1>4. CASE m # 0
  <2>1. m - 1 \in 0..n /\ ~(m <= m - 1) /\ m \in 1..n
    BY <1>2, <1>4
  <2>2. m - 1 \notin S
    <3> HIDE DEF S
    <3> QED BY <1>1, <2>1
  <2>3. PICK g : Along(g, V, first, step, m - 1)
    BY <2>1, <2>2
  <2> DEFINE f == [k \in 0..m |-> IF k = m THEN step[m][g[m - 1]] ELSE g[k]]
  <2>4. g \in [0..(m - 1) -> V] /\ g[0] = first /\ \A k \in 1..(m - 1) : g[k] = step[k][g[k - 1]]
    BY <2>3 DEF Along
  <2>5. g[m - 1] \in V /\ step[m][g[m - 1]] \in V
    BY <2>1, <2>4
  <2>6. \A k \in 0..m : k # m => k \in 0..(m - 1)
    BY <1>2
  <2>7. f \in [0..m -> V]
    BY <2>4, <2>5, <2>6
  <2>8. f[m] = step[m][g[m - 1]] /\ \A k \in 0..(m - 1) : f[k] = g[k]
    BY <1>2
  <2> HIDE DEF f
  <2>9. f[0] = first
    BY <1>4, <1>2, <2>4, <2>8
  <2>10. ASSUME NEW k \in 1..m PROVE f[k] = step[k][f[k - 1]]
    <3>1. k - 1 \in 0..(m - 1)
      BY <1>2
    <3>2. CASE k = m
      BY <2>8, <3>1, <3>2
    <3>3. CASE k # m
      <4>1. k \in 1..(m - 1) /\ k \in 0..(m - 1)
        BY <1>2, <3>3
      <4> QED BY <2>4, <2>8, <3>1, <4>1
    <3> QED BY <3>2, <3>3
  <2>11. Along(f, V, first, step, m)
    BY <2>7, <2>9, <2>10 DEF Along
  <2> QED BY <1>2, <2>11
<1> QED BY <1>3, <1>4

(* By steps from 0 to n.                                                   *)
LEMMA Reaches ==
    ASSUME NEW n \in Nat, NEW S, S \subseteq 0..n, 0 \in S, \A k \in 1..n : k - 1 \in S => k \in S
    PROVE  S = 0..n
<1> DEFINE off == {k \in 0..n : k \notin S}
<1> SUFFICES ASSUME off # {} PROVE FALSE
  OBVIOUS
<1>1. PICK m \in off : \A j \in off : m <= j
  <2>1. off \in SUBSET Nat
    OBVIOUS
  <2> HIDE DEF off
  <2> QED BY <2>1, Least
<1>2. m \in 0..n /\ m \notin S /\ m # 0
  OBVIOUS
<1>3. m \in 1..n /\ m - 1 \in 0..n /\ ~(m <= m - 1)
  BY <1>2
<1>4. m - 1 \in S
  BY <1>1, <1>3
<1> QED BY <1>2, <1>3, <1>4

LEMMA WholeTyped ==
    ASSUME NEW digits \in Seq(Digit)
    PROVE  Whole(digits) \in Int
<1> DEFINE n == Len(digits)
           step == [k \in 1..n |-> [v \in Int |-> 10 * v + digits[k]]]
<1>1. n \in Nat /\ \A k \in 1..n : digits[k] \in Int
  BY LenProperties DEF Digit
<1> DEFINE w == CHOOSE f : f = [k \in 0..n |-> IF k = 0 THEN 0 ELSE 10 * f[k - 1] + digits[k]]
<1>2. Whole(digits) = w[n]
  BY DEF Whole
<1> HIDE DEF n, w
<1>3. step \in [1..n -> [Int -> Int]]
  BY <1>1
<1>4. \A k \in 1..n : \A v \in Int : step[k][v] = 10 * v + digits[k]
  OBVIOUS
<1> HIDE DEF step
<1>5. PICK g : Along(g, Int, 0, step, n)
  <2>1. PICK V : V = Int
    OBVIOUS
  <2>2. 0 \in V /\ step \in [1..n -> [V -> V]]
    BY <1>3, <2>1
  <2>3. \E g : Along(g, V, 0, step, n)
    BY <1>1, <2>2, AlongExists
  <2> QED BY <2>1, <2>3
<1>6. ASSUME NEW k \in 0..n PROVE g[k] = IF k = 0 THEN 0 ELSE 10 * g[k - 1] + digits[k]
  <2>1. k # 0 => k - 1 \in 0..n /\ k \in 1..n
    BY <1>1
  <2> QED BY <1>4, <1>5, <2>1 DEF Along
<1>7. g = [k \in 0..n |-> IF k = 0 THEN 0 ELSE 10 * g[k - 1] + digits[k]]
  <2>1. g \in [0..n -> Int]
    BY <1>5 DEF Along
  <2> QED BY <1>6, <2>1
<1>8. w = [k \in 0..n |-> IF k = 0 THEN 0 ELSE 10 * w[k - 1] + digits[k]]
  BY <1>7 DEF w
<1> DEFINE S == {k \in 0..n : w[k] \in Int}
<1>9. S = 0..n
  <2>1. 0 \in S
    BY <1>1, <1>8
  <2>2. ASSUME NEW k \in 1..n, k - 1 \in S PROVE k \in S
    <3>1. k \in 0..n /\ k # 0 /\ w[k - 1] \in Int
      BY <1>1, <2>2
    <3>2. w[k] = 10 * w[k - 1] + digits[k]
      BY <1>8, <3>1
    <3> QED BY <1>1, <3>1, <3>2
  <2>3. S \subseteq 0..n
    OBVIOUS
  <2> HIDE DEF S
  <2> QED BY <1>1, <2>1, <2>2, <2>3, Reaches
<1>10. n \in S
  BY <1>1, <1>9
<1> QED BY <1>2, <1>10

LEMMA Int10Typed ==
    ASSUME NEW num \in Numerals
    PROVE  Int10(num) \in Int
<1> DEFINE dec == parseDecimal(num)
           zeros == [i \in 1..(dec.exp - Len(dec.digits)) |-> 0]
<1>1. dec.sign \in Int /\ dec.digits \in Seq(Digit) /\ dec.exp \in Int
  <2>1. dec = Zero \/ dec \in Nonzero
    BY ParseFacts
  <2>2. CASE dec = Zero
    BY <2>2 DEF Zero
  <2>3. CASE dec \in Nonzero
    BY <2>3 DEF Nonzero, TrimmedDigits, DigitStrings
  <2> QED BY <2>1, <2>2, <2>3
<1>2. Int10(num) = dec.sign * Whole(dec.digits \o zeros)
  BY DEF Int10
<1>3. zeros \in Seq(Digit)
  <2>1. PICK m \in Int : m = dec.exp - Len(dec.digits)
    BY <1>1, LenProperties
  <2>2. CASE m >= 0
    <3>1. m \in Nat /\ zeros \in [1..m -> Digit]
      BY <2>1, <2>2 DEF Digit
    <3> HIDE DEF zeros
    <3> QED BY <3>1
  <2>3. CASE ~(m >= 0)
    <3>1. 0 \in Nat /\ zeros \in [1..0 -> Digit]
      <4>1. 1..m = 1..0
        BY <2>3
      <4> QED BY <2>1, <4>1 DEF Digit
    <3> HIDE DEF zeros
    <3> QED BY <3>1
  <2> QED BY <2>2, <2>3
<1> HIDE DEF dec, zeros
<1>4. dec.digits \o zeros \in Seq(Digit)
  BY <1>1, <1>3, ConcatProperties
<1>5. Whole(dec.digits \o zeros) \in Int
  BY <1>4, WholeTyped
<1> QED BY <1>1, <1>2, <1>5

-----------------------------------------------------------------------------
(* Sets stay sets                                                          *)

Same(type, x, y) == IF type = "NS" THEN numbersEqual(x, y) ELSE x = y

Distinct(type, s) == \A i \in 1..Len(s) : \A j \in 1..Len(s) : j < i => ~Same(type, s[j], s[i])

LEMMA HasSame ==
    ASSUME NEW type, NEW s, NEW x
    PROVE  HasMember(type, s, x) <=> \E i \in 1..Len(s) : Same(type, s[i], x)
BY DEF HasMember, Same

(* What the members of a set are, and that it is an equivalence to be the  *)
(* same of them.                                                           *)
Kind(type) == IF type = "NS" THEN Numerals ELSE Seq(Byte)

Equates(type, X) ==
    /\ \A x \in X : \A y \in X : Same(type, x, y) => Same(type, y, x)
    /\ \A x \in X : \A y \in X : \A z \in X : Same(type, x, y) /\ Same(type, y, z) => Same(type, x, z)

LEMMA EqualDecimals ==
    ASSUME NEW a, NEW b, a = Zero \/ a \in Nonzero, b = Zero \/ b \in Nonzero
    PROVE  compareDecimals(a, b) = 0 <=> a = b
<1>1. /\ a.sign \in {-1, 0, 1} /\ b.sign \in {-1, 0, 1}
      /\ a.sign = 0 <=> a = Zero
      /\ b.sign = 0 <=> b = Zero
  BY DEF Zero, Nonzero
<1>2. a.sign # b.sign => compareDecimals(a, b) # 0
  BY <1>1 DEF compareDecimals
<1>3. a.sign = b.sign /\ a.sign = 0 => compareDecimals(a, b) = 0
  BY <1>1 DEF compareDecimals
<1>4. ASSUME a.sign = b.sign, a.sign # 0, compareDecimals(a, b) = 0 PROVE a = b
  <2>1. a \in Nonzero /\ b \in Nonzero
    BY <1>1, <1>4
  <2> QED BY <1>4, <2>1, CompareFacts
<1>5. ASSUME a = b PROVE compareDecimals(a, b) = 0
  <2>1. compareDecimals(a, a) \in {-1, 0, 1} /\ compareDecimals(a, a) = -compareDecimals(a, a)
    BY CompareDecimals
  <2> QED BY <1>5, <2>1
<1> QED BY <1>1, <1>2, <1>3, <1>4, <1>5

LEMMA KindEquates == \A type : Equates(type, Kind(type))
<1> SUFFICES ASSUME NEW type PROVE Equates(type, Kind(type))
  OBVIOUS
<1>1. ASSUME NEW x \in Numerals, NEW y \in Numerals
      PROVE  numbersEqual(x, y) <=> parseDecimal(x) = parseDecimal(y)
  BY ParseFacts, EqualDecimals DEF numbersEqual, compareNumbers
<1>2. CASE type = "NS"
  BY <1>1, <1>2 DEF Equates, Kind, Same
<1>3. CASE type # "NS"
  BY <1>3 DEF Equates, Kind, Same
<1> QED BY <1>2, <1>3

LEMMA SameMember ==
    ASSUME NEW type, NEW X, Equates(type, X), NEW s \in Seq(X), NEW x \in X, NEW y \in X,
           Same(type, x, y), HasMember(type, s, x)
    PROVE  HasMember(type, s, y)
<1>1. PICK i \in 1..Len(s) : Same(type, s[i], x)
  BY HasSame
<1>2. s[i] \in X
  BY LenProperties
<1>3. Same(type, s[i], y)
  BY <1>1, <1>2 DEF Equates
<1> QED BY <1>3, HasSame

LEMMA HasOneMore ==
    ASSUME NEW type, NEW X, NEW s \in Seq(X), NEW x \in X, NEW y
    PROVE  HasMember(type, Append(s, x), y) <=> HasMember(type, s, y) \/ Same(type, x, y)
<1>1. PICK t : t = Append(s, x)
  OBVIOUS
<1>2. Len(s) \in Nat /\ Len(t) = Len(s) + 1 /\ t[Len(s) + 1] = x /\ \A i \in 1..Len(s) : t[i] = s[i]
  BY <1>1, AppendProperties, LenProperties
<1>3. \A i : i \in 1..Len(t) <=> i \in 1..Len(s) \/ i = Len(s) + 1
  BY <1>2
<1>4. HasMember(type, t, y) <=> HasMember(type, s, y) \/ Same(type, x, y)
  <2>1. HasMember(type, t, y) <=> \E i \in 1..Len(t) : Same(type, t[i], y)
    BY HasSame
  <2>2. HasMember(type, s, y) <=> \E i \in 1..Len(s) : Same(type, s[i], y)
    BY HasSame
  <2> QED BY <1>2, <1>3, <2>1, <2>2
<1> QED BY <1>1, <1>4

LEMMA DistinctMembers ==
    ASSUME NEW node, node.type \in Sets, NEW X, NEW s \in Seq(X), s = Contents(node)
    PROVE  MembersDiffer(node) <=> Distinct(node.type, s)
<1>0. Len(s) \in Nat /\ \A i \in 1..Len(s) : s[i] \in X
  BY LenProperties
<1>1. ASSUME NEW i \in 1..Len(s)
      PROVE  HasMember(node.type, Prefix(s, i - 1), s[i]) <=>
                \E j \in 1..Len(s) : j < i /\ Same(node.type, s[j], s[i])
  <2>1. PICK n \in Int : n = i - 1 /\ n >= 0 /\ n <= Len(s)
    BY <1>0
  <2>2. PICK t : t = SubSeq(s, 1, n)
    OBVIOUS
  <2>3. \A j \in 1..n : s[j] \in X
    BY <1>0, <2>1
  <2>4. Len(t) = (IF 1 <= n THEN n - 1 + 1 ELSE 0) /\ \A j \in 1..(n - 1 + 1) : t[j] = s[1 + j - 1]
    BY <2>2, <2>3, SubSeqProperties
  <2>5. Len(t) = n /\ \A j \in 1..n : t[j] = s[j]
    BY <2>1, <2>4
  <2>6. HasMember(node.type, t, s[i]) <=> \E j \in 1..n : Same(node.type, s[j], s[i])
    BY <2>5, HasSame
  <2>7. \A j : j \in 1..n <=> j \in 1..Len(s) /\ j < i
    BY <1>0, <2>1
  <2> QED BY <2>1, <2>2, <2>6, <2>7 DEF Prefix
<1>2. MembersDiffer(node) <=> \A i \in 1..Len(s) : ~HasMember(node.type, Prefix(s, i - 1), s[i])
  BY DEF MembersDiffer
<1> QED BY <1>1, <1>2 DEF Distinct

LEMMA DistinctOn ==
    ASSUME NEW type, NEW X, NEW s \in Seq(X), NEW x \in X, Distinct(type, s), ~HasMember(type, s, x)
    PROVE  Distinct(type, Append(s, x))
<1>1. PICK t : t = Append(s, x)
  OBVIOUS
<1>2. Len(s) \in Nat /\ Len(t) = Len(s) + 1 /\ t[Len(s) + 1] = x /\ \A i \in 1..Len(s) : t[i] = s[i]
  BY <1>1, AppendProperties, LenProperties
<1>3. ASSUME NEW i \in 1..Len(t), NEW j \in 1..Len(t), j < i PROVE ~Same(type, t[j], t[i])
  <2>1. j \in 1..Len(s) /\ t[j] = s[j]
    BY <1>2, <1>3
  <2>2. CASE i = Len(s) + 1
    BY <1>2, <2>1, <2>2, HasSame
  <2>3. CASE i # Len(s) + 1
    <3>1. i \in 1..Len(s) /\ t[i] = s[i]
      BY <1>2, <2>3
    <3> QED BY <1>3, <2>1, <3>1 DEF Distinct
  <2> QED BY <2>2, <2>3
<1> QED BY <1>1, <1>3 DEF Distinct

LEMMA UnionFacts ==
    ASSUME NEW X, NEW type, NEW a \in Seq(X), NEW b \in Seq(X), NEW u, u = union(type, a, b)
    PROVE  /\ u \in Seq(X) /\ Len(a) <= Len(u) /\ (Distinct(type, a) => Distinct(type, u))
           /\ Equates(type, X) =>
                \A x \in X : HasMember(type, u, x) <=> HasMember(type, a, x) \/ HasMember(type, b, x)
<1> DEFINE n == Len(b)
           out == CHOOSE f : f = [k \in 0..n |->
                     IF k = 0 THEN a
                     ELSE IF HasMember(type, f[k - 1], b[k]) THEN f[k - 1]
                     ELSE Append(f[k - 1], b[k])]
           step == [k \in 1..n |-> [s \in Seq(X) |->
                       IF HasMember(type, s, b[k]) THEN s ELSE Append(s, b[k])]]
<1>1. n \in Nat /\ \A k \in 1..n : b[k] \in X
  BY LenProperties
<1>2. u = out[n]
  BY DEF union
<1> HIDE DEF n, out
<1>3. step \in [1..n -> [Seq(X) -> Seq(X)]]
  <2>1. ASSUME NEW k \in 1..n, NEW s \in Seq(X)
        PROVE  (IF HasMember(type, s, b[k]) THEN s ELSE Append(s, b[k])) \in Seq(X)
    BY <1>1, AppendProperties
  <2> QED BY <2>1
<1>4. \A k \in 1..n : \A s \in Seq(X) :
         step[k][s] = IF HasMember(type, s, b[k]) THEN s ELSE Append(s, b[k])
  OBVIOUS
<1> HIDE DEF step
<1>5. PICK g : Along(g, Seq(X), a, step, n)
  BY <1>1, <1>3, AlongExists
<1>6. ASSUME NEW k \in 0..n
      PROVE  g[k] = IF k = 0 THEN a
                    ELSE IF HasMember(type, g[k - 1], b[k]) THEN g[k - 1]
                    ELSE Append(g[k - 1], b[k])
  <2>1. k # 0 => k - 1 \in 0..n /\ k \in 1..n
    BY <1>1
  <2> QED BY <1>4, <1>5, <2>1 DEF Along
<1>7. g = [k \in 0..n |-> IF k = 0 THEN a
                          ELSE IF HasMember(type, g[k - 1], b[k]) THEN g[k - 1]
                          ELSE Append(g[k - 1], b[k])]
  <2>1. g \in [0..n -> Seq(X)]
    BY <1>5 DEF Along
  <2> QED BY <1>6, <2>1
<1>8. out = [k \in 0..n |-> IF k = 0 THEN a
                            ELSE IF HasMember(type, out[k - 1], b[k]) THEN out[k - 1]
                            ELSE Append(out[k - 1], b[k])]
  BY <1>7 DEF out
<1> DEFINE Joined(s, k) ==
             Equates(type, X) =>
                \A x \in X : HasMember(type, s, x) <=>
                            HasMember(type, a, x) \/ \E j \in 1..k : Same(type, b[j], x)
           S == {k \in 0..n : /\ out[k] \in Seq(X) /\ Len(a) <= Len(out[k])
                              /\ Distinct(type, a) => Distinct(type, out[k])
                              /\ Joined(out[k], k)}
<1>9. S = 0..n
  <2>1. 0 \in S
    <3>1. out[0] = a /\ Len(a) \in Nat
      BY <1>1, <1>8, LenProperties
    <3>2. Joined(a, 0)
      <4>1. \A j \in 1..0 : FALSE
        OBVIOUS
      <4> QED BY <4>1
    <3> HIDE DEF Joined
    <3> QED BY <1>1, <3>1, <3>2
  <2>2. ASSUME NEW k \in 1..n, k - 1 \in S PROVE k \in S
    <3>1. PICK s : s = out[k - 1]
      OBVIOUS
    <3>2. /\ k \in 0..n /\ k # 0 /\ s \in Seq(X) /\ Len(a) <= Len(s)
          /\ Distinct(type, a) => Distinct(type, s)
          /\ Joined(s, k - 1)
      BY <1>1, <2>2, <3>1
    <3>6. \A j : j \in 1..k <=> j \in 1..(k - 1) \/ j = k
      BY <1>1
    <3>7. b[k] \in X
      BY <1>1
    <3>3. out[k] = IF HasMember(type, s, b[k]) THEN s ELSE Append(s, b[k])
      BY <1>8, <3>1, <3>2
    <3>4. CASE HasMember(type, s, b[k])
      <4>1. Joined(s, k)
        <5> SUFFICES ASSUME Equates(type, X), NEW x \in X
                     PROVE  HasMember(type, s, x) <=>
                              HasMember(type, a, x) \/ \E j \in 1..k : Same(type, b[j], x)
          OBVIOUS
        <5>1. Same(type, b[k], x) => HasMember(type, s, x)
          BY <3>2, <3>4, <3>7, SameMember
        <5>2. HasMember(type, s, x) <=>
                HasMember(type, a, x) \/ \E j \in 1..(k - 1) : Same(type, b[j], x)
          BY <3>2
        <5> QED BY <3>6, <5>1, <5>2
      <4> HIDE DEF Joined
      <4> QED BY <3>2, <3>3, <3>4, <4>1
    <3>5. CASE ~HasMember(type, s, b[k])
      <4>0. PICK t : t = Append(s, b[k])
        OBVIOUS
      <4>1. b[k] \in X /\ out[k] = t
        BY <1>1, <3>3, <3>5, <4>0
      <4>2. t \in Seq(X) /\ Len(t) = Len(s) + 1
        BY <3>2, <4>0, <4>1, AppendProperties
      <4>3. Distinct(type, s) => Distinct(type, t)
        BY <3>2, <3>5, <4>0, <4>1, DistinctOn
      <4>4. Len(a) \in Nat /\ Len(s) \in Nat
        BY <3>2, LenProperties
      <4>5. Len(a) <= Len(t)
        BY <3>2, <4>2, <4>4
      <4>6. Joined(t, k)
        <5> SUFFICES ASSUME Equates(type, X), NEW x \in X
                     PROVE  HasMember(type, t, x) <=>
                              HasMember(type, a, x) \/ \E j \in 1..k : Same(type, b[j], x)
          OBVIOUS
        <5>1. HasMember(type, t, x) <=> HasMember(type, s, x) \/ Same(type, b[k], x)
          BY <3>2, <4>0, <4>1, HasOneMore
        <5>2. HasMember(type, s, x) <=>
                HasMember(type, a, x) \/ \E j \in 1..(k - 1) : Same(type, b[j], x)
          BY <3>2
        <5> QED BY <3>6, <5>1, <5>2
      <4> HIDE DEF Joined
      <4> QED BY <3>2, <4>1, <4>2, <4>3, <4>5, <4>6
    <3> QED BY <3>4, <3>5
  <2>3. S \subseteq 0..n
    OBVIOUS
  <2> HIDE DEF S
  <2> QED BY <1>1, <2>1, <2>2, <2>3, Reaches
<1>10. n \in S
  BY <1>1, <1>9
<1>11. \A x : HasMember(type, b, x) <=> \E j \in 1..n : Same(type, b[j], x)
  BY HasSame DEF n
<1> QED BY <1>2, <1>10, <1>11

LEMMA DiffFacts ==
    ASSUME NEW X, NEW type, NEW a \in Seq(X), NEW b, NEW u, u = diff(type, a, b)
    PROVE  /\ u \in Seq(X) /\ (Distinct(type, a) => Distinct(type, u))
           /\ Equates(type, X) /\ b \in Seq(X) =>
                \A x \in X : HasMember(type, u, x) <=> HasMember(type, a, x) /\ ~HasMember(type, b, x)
<1> DEFINE n == Len(a)
           out == CHOOSE f : f = [k \in 0..n |->
                     IF k = 0 THEN <<>>
                     ELSE IF HasMember(type, b, a[k]) THEN f[k - 1]
                     ELSE Append(f[k - 1], a[k])]
           step == [k \in 1..n |-> [s \in Seq(X) |->
                       IF HasMember(type, b, a[k]) THEN s ELSE Append(s, a[k])]]
<1>1. n \in Nat /\ \A k \in 1..n : a[k] \in X
  BY LenProperties
<1>2. u = out[n]
  BY DEF diff
<1> HIDE DEF n, out
<1>3. step \in [1..n -> [Seq(X) -> Seq(X)]]
  <2>1. ASSUME NEW k \in 1..n, NEW s \in Seq(X)
        PROVE  (IF HasMember(type, b, a[k]) THEN s ELSE Append(s, a[k])) \in Seq(X)
    BY <1>1, AppendProperties
  <2> QED BY <2>1
<1>4. \A k \in 1..n : \A s \in Seq(X) :
         step[k][s] = IF HasMember(type, b, a[k]) THEN s ELSE Append(s, a[k])
  OBVIOUS
<1> HIDE DEF step
<1>5. PICK g : Along(g, Seq(X), <<>>, step, n)
  <2>1. PICK e : e = <<>>
    OBVIOUS
  <2>2. e \in Seq(X)
    BY <2>1, EmptySeq
  <2>3. \E g : Along(g, Seq(X), e, step, n)
    BY <1>1, <1>3, <2>2, AlongExists
  <2> QED BY <2>1, <2>3
<1>6. ASSUME NEW k \in 0..n
      PROVE  g[k] = IF k = 0 THEN <<>>
                    ELSE IF HasMember(type, b, a[k]) THEN g[k - 1]
                    ELSE Append(g[k - 1], a[k])
  <2>1. k # 0 => k - 1 \in 0..n /\ k \in 1..n
    BY <1>1
  <2> QED BY <1>4, <1>5, <2>1 DEF Along
<1>7. g = [k \in 0..n |-> IF k = 0 THEN <<>>
                          ELSE IF HasMember(type, b, a[k]) THEN g[k - 1]
                          ELSE Append(g[k - 1], a[k])]
  <2>1. g \in [0..n -> Seq(X)]
    BY <1>5 DEF Along
  <2> QED BY <1>6, <2>1
<1>8. out = [k \in 0..n |-> IF k = 0 THEN <<>>
                            ELSE IF HasMember(type, b, a[k]) THEN out[k - 1]
                            ELSE Append(out[k - 1], a[k])]
  BY <1>7 DEF out
<1> DEFINE From(s, k) == \A i \in 1..Len(s) : \E j \in 1..k : s[i] = a[j]
           Remain(s, k) ==
             Equates(type, X) /\ b \in Seq(X) =>
                \A x \in X : HasMember(type, s, x) <=>
                            ~HasMember(type, b, x) /\ \E j \in 1..k : Same(type, a[j], x)
           S == {k \in 0..n : /\ out[k] \in Seq(X) /\ From(out[k], k)
                              /\ Distinct(type, a) => Distinct(type, out[k])
                              /\ Remain(out[k], k)}
<1>9. S = 0..n
  <2>1. 0 \in S
    <3>1. PICK e : e = <<>>
      OBVIOUS
    <3>2. 0 \in 0..n /\ out[0] = e
      <4>1. 0 \in 0..n
        BY <1>1
      <4> QED BY <1>8, <3>1, <4>1
    <3>3. e \in Seq(X) /\ Len(e) = 0
      BY <3>1, EmptySeq
    <3>4. From(e, 0) /\ Distinct(type, e)
      BY <3>3 DEF Distinct
    <3>5. Remain(e, 0)
      <4>1. \A x : HasMember(type, e, x) <=> \E i \in 1..Len(e) : Same(type, e[i], x)
        BY HasSame
      <4> QED BY <3>3, <4>1
    <3> HIDE DEF From, Remain
    <3> QED BY <3>2, <3>3, <3>4, <3>5
  <2>2. ASSUME NEW k \in 1..n, k - 1 \in S PROVE k \in S
    <3>1. PICK s : s = out[k - 1]
      OBVIOUS
    <3>2. /\ k \in 0..n /\ k # 0 /\ s \in Seq(X) /\ From(s, k - 1)
          /\ Distinct(type, a) => Distinct(type, s)
          /\ Remain(s, k - 1)
      <4>1. k \in 0..n /\ k # 0
        BY <1>1
      <4>2. k - 1 \in S
        BY <2>2
      <4> HIDE DEF From, Remain
      <4> QED BY <3>1, <4>1, <4>2
    <3>7. \A j : j \in 1..k <=> j \in 1..(k - 1) \/ j = k
      BY <1>1
    <3>8. a[k] \in X
      BY <1>1
    <3>3. out[k] = IF HasMember(type, b, a[k]) THEN s ELSE Append(s, a[k])
      BY <1>8, <3>1, <3>2
    <3>4. From(s, k)
      <4>1. \A j \in 1..(k - 1) : j \in 1..k
        BY <1>1
      <4> QED BY <3>2, <4>1
    <3>5. CASE HasMember(type, b, a[k])
      <4>1. Remain(s, k)
        <5> SUFFICES ASSUME Equates(type, X), b \in Seq(X), NEW x \in X
                     PROVE  HasMember(type, s, x) <=>
                              ~HasMember(type, b, x) /\ \E j \in 1..k : Same(type, a[j], x)
          OBVIOUS
        <5>1. Same(type, a[k], x) => HasMember(type, b, x)
          BY <3>5, <3>8, SameMember
        <5>2. HasMember(type, s, x) <=>
                ~HasMember(type, b, x) /\ \E j \in 1..(k - 1) : Same(type, a[j], x)
          BY <3>2
        <5> QED BY <3>7, <5>1, <5>2
      <4> HIDE DEF Remain, From
      <4> QED BY <3>2, <3>3, <3>4, <3>5, <4>1
    <3>6. CASE ~HasMember(type, b, a[k])
      <4>0. PICK t : t = Append(s, a[k])
        OBVIOUS
      <4>1. a[k] \in X /\ out[k] = t
        BY <1>1, <3>3, <3>6, <4>0
      <4>2. /\ t \in Seq(X) /\ Len(t) = Len(s) + 1 /\ t[Len(s) + 1] = a[k] /\ Len(s) \in Nat
            /\ \A i \in 1..Len(s) : t[i] = s[i]
        BY <3>2, <4>0, <4>1, AppendProperties, LenProperties
      <4>3. From(t, k)
        <5>1. ASSUME NEW i \in 1..Len(t) PROVE \E j \in 1..k : t[i] = a[j]
          <6>1. i \in 1..Len(s) \/ i = Len(s) + 1
            BY <4>2
          <6>2. k \in 1..k
            BY <1>1
          <6> QED BY <3>4, <4>2, <6>1, <6>2
        <5> QED BY <5>1
      <4>4. ASSUME Distinct(type, a) PROVE Distinct(type, t)
        <5>1. ASSUME HasMember(type, s, a[k]) PROVE FALSE
          <6>1. PICK i \in 1..Len(s) : Same(type, s[i], a[k])
            BY <5>1, HasSame
          <6>2. PICK j \in 1..(k - 1) : s[i] = a[j]
            BY <3>2
          <6>3. j \in 1..Len(a) /\ k \in 1..Len(a) /\ j < k
            BY <1>1 DEF n
          <6> QED BY <4>4, <6>1, <6>2, <6>3 DEF Distinct
        <5> QED BY <3>2, <4>0, <4>1, <4>4, <5>1, DistinctOn
      <4>5. Remain(t, k)
        <5> SUFFICES ASSUME Equates(type, X), b \in Seq(X), NEW x \in X
                     PROVE  HasMember(type, t, x) <=>
                              ~HasMember(type, b, x) /\ \E j \in 1..k : Same(type, a[j], x)
          OBVIOUS
        <5>1. HasMember(type, t, x) <=> HasMember(type, s, x) \/ Same(type, a[k], x)
          BY <3>2, <4>0, <4>1, HasOneMore
        <5>2. HasMember(type, s, x) <=>
                ~HasMember(type, b, x) /\ \E j \in 1..(k - 1) : Same(type, a[j], x)
          BY <3>2
        <5>3. Same(type, a[k], x) => ~HasMember(type, b, x)
          <6>1. Same(type, a[k], x) => Same(type, x, a[k])
            BY <3>8 DEF Equates
          <6> QED BY <3>6, <3>8, <6>1, SameMember
        <5> QED BY <3>7, <5>1, <5>2, <5>3
      <4> HIDE DEF From, Remain
      <4> QED BY <3>2, <4>1, <4>2, <4>3, <4>4, <4>5
    <3> QED BY <3>5, <3>6
  <2>3. S \subseteq 0..n
    OBVIOUS
  <2> HIDE DEF S
  <2> QED BY <1>1, <2>1, <2>2, <2>3, Reaches
<1>10. n \in S
  BY <1>1, <1>9
<1>11. \A x : HasMember(type, a, x) <=> \E j \in 1..n : Same(type, a[j], x)
  BY HasSame DEF n
<1> HIDE DEF From
<1> QED BY <1>2, <1>10, <1>11

-----------------------------------------------------------------------------
(* The copy that an update works on, while none of done has been set or    *)
(* added to.                                                               *)

RefsDiffer == \A v \in DOMAIN Refs : AllDiffer(Refs[v])

NodeOK(node) == node \in Node /\ (RefsDiffer => MembersDiffer(node))

NodesOK(doc) == \A p \in DOMAIN doc.at : NodeOK(doc.at[p])

(* One container, in two documents or at two places of one.                *)
Alike(doc1, p, doc2, q) ==
    /\ doc1.at[p] = doc2.at[q] /\ doc1.ref[p] = doc2.ref[q]
    /\ \A e \in Steps : Slot(p, e) \in DOMAIN doc1.at <=> Slot(q, e) \in DOMAIN doc2.at

(* Paths that lead to one container find the same in it.                   *)
Heap(doc) ==
    \A p \in DOMAIN doc.at : \A q \in DOMAIN doc.at :
        doc.ref[p] = doc.ref[q] => Alike(doc, p, doc, q)

(* The containers that are not Read were made by actions that have run.    *)
MadeBy(doc, done) == \A p \in DOMAIN doc.at : doc.ref[p].made => doc.ref[p].by \in done

KeyKept(doc) == \A p \in DOMAIN KeyAttributes : p \in DOMAIN doc.at /\ doc.at[p] = KeyAttributes[p]

(* The root holds the attributes and, beside them, what was sent: only it  *)
(* is a map with numbered elements.                                        *)
Sound(doc, done) ==
    /\ Rooted(doc) /\ Heap(doc) /\ NodesOK(doc) /\ KeyKept(doc) /\ MadeBy(doc, done) /\ Here \notin done
    /\ \A p \in DOMAIN doc.at : p # Here => Shaped(doc.at, p)

(* What an update assigns: containers of the copy, perhaps in a new list.  *)
FoundIn(sub, q, doc) == \E p \in DOMAIN doc.at : p # Here /\ Alike(sub, q, doc, p)

Part(sub, doc) ==
    /\ Branch(sub) /\ NodesOK(sub)
    /\ \A q \in DOMAIN sub.at :
          Shaped(sub.at, q) /\ ((q = Here /\ sub.ref[q] = Anonymous) \/ FoundIn(sub, q, doc))

LEMMA SlotOfFront ==
    ASSUME NEW p \in Paths, p # Here
    PROVE  Front(p) \in Paths /\ Last(p) \in Steps /\ Len(Front(p)) = Len(p) - 1 /\ p = Slot(Front(p), Last(p))
BY FrontFacts DEF Slot

LEMMA SlotIn ==
    ASSUME NEW S, IsTree(S), NEW p \in Paths, NEW e \in Steps, Slot(p, e) \in S
    PROVE  p \in S
BY SlotFacts DEF IsTree

LEMMA SlotOfJoin ==
    ASSUME NEW p \in Paths, NEW q \in Paths, NEW e \in Steps
    PROVE  Join(p, Slot(q, e)) = Slot(Join(p, q), e)
<1>1. PICK s : s = Slot(q, e)
  OBVIOUS
<1>2. /\ s \in Paths /\ Len(s) = Len(q) + 1 /\ s[Len(q) + 1] = e
      /\ \A i \in 1..Len(q) : s[i] = q[i]
  BY <1>1, SlotFacts
<1>3. PICK w : w = Join(p, q)
  OBVIOUS
<1>4. /\ w \in Paths /\ Len(w) = Len(p) + Len(q)
      /\ \A i \in 1..Len(p) : w[i] = p[i]
      /\ \A i \in 1..Len(q) : w[Len(p) + i] = q[i]
  BY <1>3, JoinFacts DEF Join
<1>5. PICK l : l = Join(p, s)
  OBVIOUS
<1>6. /\ l \in Paths /\ Len(l) = Len(p) + Len(s)
      /\ \A i \in 1..Len(p) : l[i] = p[i]
      /\ \A i \in 1..Len(s) : l[Len(p) + i] = s[i]
  BY <1>2, <1>5, JoinFacts DEF Join
<1>7. PICK r : r = Slot(w, e)
  OBVIOUS
<1>8. /\ r \in Paths /\ Len(r) = Len(w) + 1 /\ r[Len(w) + 1] = e
      /\ \A i \in 1..Len(w) : r[i] = w[i]
  BY <1>4, <1>7, SlotFacts
<1>9. Len(p) \in Nat /\ Len(q) \in Nat
  BY PathFacts
<1>10. Len(l) = Len(r)
  BY <1>2, <1>4, <1>6, <1>8, <1>9
<1>11. ASSUME NEW i \in 1..Len(l) PROVE l[i] = r[i]
  <2>1. CASE i <= Len(p)
    <3>1. i \in 1..Len(p) /\ i \in 1..Len(w)
      BY <1>4, <1>9, <2>1
    <3> QED BY <1>4, <1>6, <1>8, <3>1
  <2>2. CASE i > Len(p)
    <3>0. i - Len(p) \in Nat
      BY <1>9, <2>2
    <3>1. PICK k \in Nat : k = i - Len(p)
      BY <3>0
    <3>2. k \in 1..Len(s) /\ i = Len(p) + k
      BY <1>2, <1>6, <1>9, <2>2, <3>1
    <3>3. l[i] = s[k]
      BY <1>6, <3>2
    <3>4. CASE k = Len(q) + 1
      <4>1. i = Len(w) + 1
        BY <1>4, <1>9, <3>2, <3>4
      <4> QED BY <1>2, <1>8, <3>3, <3>4, <4>1
    <3>5. CASE k # Len(q) + 1
      <4>1. k \in 1..Len(q) /\ i \in 1..Len(w)
        BY <1>2, <1>4, <1>9, <3>2, <3>5
      <4> QED BY <1>2, <1>4, <1>8, <3>2, <3>3, <4>1
    <3> QED BY <3>4, <3>5
  <2> QED BY <1>9, <2>1, <2>2
<1>12. l = r
  BY <1>6, <1>8, <1>10, <1>11, SamePath
<1> QED BY <1>1, <1>3, <1>5, <1>7, <1>12

LEMMA SubdocumentFacts ==
    ASSUME NEW doc, Tree(doc), NEW path \in DOMAIN doc.at, NEW sub, sub = Subdocument(doc, path)
    PROVE  /\ DOMAIN sub.at \subseteq Paths /\ path \in Paths
           /\ \A q \in Paths : q \in DOMAIN sub.at <=> Join(path, q) \in DOMAIN doc.at
           /\ \A q \in DOMAIN sub.at : /\ sub.at[q] = doc.at[Join(path, q)]
                                       /\ sub.ref[q] = doc.ref[Join(path, q)]
<1>1. DOMAIN doc.at \subseteq Paths /\ path \in Paths
  BY DEF Tree, IsTree
<1>2. DOMAIN sub.at = Onward(DOMAIN doc.at, path)
      /\ \A q \in DOMAIN sub.at : sub.at[q] = doc.at[path \o q] /\ sub.ref[q] = doc.ref[path \o q]
  BY DEF Subdocument, At, Onward, Tree
<1>3. /\ Onward(DOMAIN doc.at, path) \subseteq Paths
      /\ \A q \in Paths : q \in Onward(DOMAIN doc.at, path) <=> path \o q \in DOMAIN doc.at
  BY <1>1, OnwardFacts
<1> QED BY <1>1, <1>2, <1>3 DEF Join

(* What SET copies is a part of the copy.                                  *)
LEMMA SubdocumentPart ==
    ASSUME NEW doc, NEW done, Sound(doc, done), NEW path \in DOMAIN doc.at, path # Here
    PROVE  Part(Subdocument(doc, path), doc)
<1> DEFINE sub == Subdocument(doc, path)
<1>1. Tree(doc) /\ Sole(doc) /\ NodesOK(doc) /\ \A p \in DOMAIN doc.at : p # Here => Shaped(doc.at, p)
  BY DEF Sound, Rooted
<1>2. Branch(sub)
  BY <1>1, SubdocumentBranch
<1>3. /\ DOMAIN sub.at \subseteq Paths /\ path \in Paths
      /\ \A q \in Paths : q \in DOMAIN sub.at <=> Join(path, q) \in DOMAIN doc.at
      /\ \A q \in DOMAIN sub.at : /\ sub.at[q] = doc.at[Join(path, q)]
                                  /\ sub.ref[q] = doc.ref[Join(path, q)]
  BY <1>1, SubdocumentFacts
<1> HIDE DEF sub
<1>4. NodesOK(sub)
  BY <1>1, <1>3 DEF NodesOK
<1>5. ASSUME NEW q \in DOMAIN sub.at
      PROVE  Shaped(sub.at, q) /\ FoundIn(sub, q, doc)
  <2>1. PICK p : p = Join(path, q)
    OBVIOUS
  <2>2. q \in Paths /\ p \in DOMAIN doc.at /\ sub.at[q] = doc.at[p] /\ sub.ref[q] = doc.ref[p]
    BY <1>3, <2>1
  <2>3. p \in Paths /\ p # Here
    <3>1. p \in Paths /\ Len(p) = Len(path) + Len(q)
      BY <1>3, <2>1, <2>2, JoinFacts DEF Join
    <3>2. Len(path) \in Nat /\ Len(path) # 0 /\ Len(q) \in Nat
      BY <1>3, <2>2, PathFacts
    <3>3. Len(p) # 0
      BY <3>1, <3>2
    <3> QED BY <3>1, <3>3, PathFacts
  <2>4. ASSUME NEW e \in Steps PROVE Slot(q, e) \in DOMAIN sub.at <=> Slot(p, e) \in DOMAIN doc.at
    <3>1. Slot(q, e) \in Paths
      BY <2>2, SlotFacts
    <3>2. Join(path, Slot(q, e)) = Slot(p, e)
      BY <1>3, <2>1, <2>2, SlotOfJoin
    <3> QED BY <1>3, <3>1, <3>2
  <2>5. Alike(sub, q, doc, p)
    BY <2>2, <2>4 DEF Alike
  <2>6. Shaped(doc.at, p)
    BY <1>1, <2>2, <2>3
  <2>7. Shaped(sub.at, q)
    <3>1. ASSUME NEW e \in Steps, Slot(q, e) \in DOMAIN sub.at
          PROVE  /\ sub.at[q].type = IF e.isIdx THEN "L" ELSE "M"
                 /\ e.isIdx /\ e.index > 0 => Slot(q, Index(e.index - 1)) \in DOMAIN sub.at
      <4>1. Slot(p, e) \in DOMAIN doc.at
        BY <2>4, <3>1
      <4>2. /\ doc.at[p].type = IF e.isIdx THEN "L" ELSE "M"
            /\ e.isIdx /\ e.index > 0 => Slot(p, Index(e.index - 1)) \in DOMAIN doc.at
        BY <2>6, <4>1 DEF Shaped
      <4>3. e.index > 0 => Index(e.index - 1) \in Steps
        <5>1. e.index > 0 => e.index - 1 \in Nat
          BY StepIndex
        <5> QED BY <5>1, IndexStep
      <4> QED BY <2>2, <2>4, <4>2, <4>3
    <3> QED BY <3>1 DEF Shaped
  <2> QED BY <2>2, <2>3, <2>5, <2>7 DEF FoundIn
<1>6. Part(sub, doc)
  BY <1>2, <1>4, <1>5 DEF Part
<1> QED BY <1>6 DEF sub

(* So is a new scalar.                                                     *)
LEMMA ScalarPart ==
    ASSUME NEW node, NodeOK(node), NEW doc
    PROVE  Part(Given(Scalar(node)), doc)
<1> DEFINE sub == Given(Scalar(node))
<1>1. Branch(sub)
  BY ScalarTree
<1>2. DOMAIN sub.at = {Here} /\ sub.at[Here] = node /\ sub.ref[Here] = Anonymous
  BY DEF Given, Scalar
<1> HIDE DEF sub
<1>3. \A e \in Steps : Slot(Here, e) \notin DOMAIN sub.at
  BY <1>2, SlotFacts, HereLeads
<1>4. Part(sub, doc)
  BY <1>1, <1>2, <1>3 DEF Part, NodesOK, Shaped
<1> QED BY <1>4 DEF sub

(* The elements of a list are numbered from 0.                             *)
LEMMA Counted ==
    ASSUME NEW I \in SUBSET Nat, IsFiniteSet(I), \A i \in I : i > 0 => i - 1 \in I
    PROVE  Cardinality(I) \in Nat /\ \A i \in Nat : i \in I <=> i < Cardinality(I)
<1>1. PICK n \in Nat : n = Cardinality(I)
  BY FS_CardinalityType
<1>2. ASSUME NEW i \in I, NEW k \in 0..i PROVE k \in I
  <2> DEFINE off == {j \in Nat : i - j \notin I /\ j <= i}
  <2>1. off = {}
    <3> SUFFICES ASSUME off # {} PROVE FALSE
      OBVIOUS
    <3>1. PICK m \in off : \A j \in off : m <= j
      <4>1. off \in SUBSET Nat
        OBVIOUS
      <4> HIDE DEF off
      <4> QED BY <4>1, Least
    <3>2. m \in Nat /\ i - m \notin I /\ m <= i /\ i \in Nat
      OBVIOUS
    <3>3. m # 0
      BY <3>2
    <3>4. m - 1 \in Nat /\ m - 1 <= i /\ ~(m <= m - 1)
      BY <3>2, <3>3
    <3>5. i - (m - 1) \in I
      BY <3>1, <3>4
    <3>6. i - (m - 1) > 0 /\ i - (m - 1) - 1 = i - m
      BY <3>2
    <3> QED BY <3>2, <3>5, <3>6
  <2>2. i \in Nat /\ i - k \in Nat /\ i - k <= i /\ i - (i - k) = k
    BY <1>2
  <2> QED BY <2>1, <2>2
<1>3. ASSUME NEW i \in I PROVE i < n
  <2>1. i \in Int /\ 0 \in Int /\ ~(0 > i)
    BY <1>3
  <2>2. IsFiniteSet(0..i) /\ Cardinality(0..i) = i - 0 + 1
    BY <2>1, FS_Interval
  <2>3. (0..i) \in SUBSET I
    BY <1>2
  <2>4. Cardinality(0..i) <= Cardinality(I)
    BY <2>3, FS_Subset
  <2> QED BY <1>1, <2>1, <2>2, <2>4
<1>4. ASSUME NEW i \in Nat, i < n PROVE i \in I
  <2>1. n - 1 \in Int /\ 0 \in Int /\ ~(0 > n - 1)
    BY <1>1, <1>4
  <2>2. IsFiniteSet(0..(n - 1)) /\ Cardinality(0..(n - 1)) = n - 1 - 0 + 1
    BY <2>1, FS_Interval
  <2>3. I \in SUBSET (0..(n - 1))
    BY <1>1, <1>3
  <2>4. Cardinality(I) = Cardinality(0..(n - 1))
    BY <1>1, <2>2
  <2>5. 0..(n - 1) = I
    BY <2>2, <2>3, <2>4, FS_Subset
  <2> QED BY <1>1, <1>4, <2>5
<1> QED BY <1>1, <1>3, <1>4

LEMMA HereHas == Here \in Paths /\ Len(Here) = 0
BY HereLeads, PathFacts

LEMMA TopSlot ==
    ASSUME NEW e \in Steps
    PROVE  Slot(Here, e) \in Paths /\ Len(Slot(Here, e)) = 1 /\ Slot(Here, e)[1] = e
<1>1. PICK h \in Paths : h = Here /\ Len(h) = 0
  BY HereHas
<1>2. Len(Slot(h, e)) = 0 + 1 /\ Slot(h, e) \in Paths /\ Slot(h, e)[0 + 1] = e
  BY <1>1, SlotFacts
<1> QED BY <1>1, <1>2

LEMMA ElementsAre ==
    ASSUME NEW at, IsTree(DOMAIN at)
    PROVE  /\ IsFiniteSet(Elements(at, Here))
           /\ Elements(at, Here) = {e \in Steps : Slot(Here, e) \in DOMAIN at}
<1> DEFINE T == {r \in DOMAIN at : Len(r) = Len(Here) + 1 /\ IsPrefix(Here, r)}
           f == [q \in T |-> q[Len(q)]]
<1>1. IsFiniteSet(T) /\ DOMAIN at \subseteq Paths
  BY FS_Subset DEF IsTree
<1>2. DOMAIN f = T /\ f = [q \in T |-> f[q]] /\ \A q \in T : f[q] = q[Len(q)]
  OBVIOUS
<1>3. Elements(at, Here) = {f[q] : q \in T}
  BY DEF Elements
<1>4. ASSUME NEW q \in T PROVE f[q] \in Steps /\ Slot(Here, f[q]) = q
  <2>1. q \in Paths /\ Len(q) = 1 /\ q # Here
    <3>1. q \in DOMAIN at /\ Len(q) = Len(Here) + 1
      OBVIOUS
    <3> HIDE DEF T
    <3>2. q \in Paths /\ Len(q) = 1
      BY <1>1, <3>1, HereHas
    <3>3. Len(q) # 0
      BY <3>2
    <3> QED BY <3>2, <3>3, PathFacts
  <2>2. Front(q) \in Paths /\ Last(q) \in Steps /\ Len(Front(q)) = Len(q) - 1 /\ q = Slot(Front(q), Last(q))
    BY <2>1, SlotOfFront
  <2>3. Front(q) = Here
    BY <2>1, <2>2, PathFacts
  <2>4. Last(q) = f[q]
    BY <2>1 DEF Last
  <2> QED BY <2>2, <2>3, <2>4
<1>5. ASSUME NEW e \in Steps, Slot(Here, e) \in DOMAIN at PROVE Slot(Here, e) \in T /\ f[Slot(Here, e)] = e
  <2>1. PICK s : s = Slot(Here, e)
    OBVIOUS
  <2>2. s \in Paths /\ Len(s) = 1 /\ s[1] = e
    BY <2>1, TopSlot
  <2>3. s \in T
    BY <1>5, <2>1, <2>2, HereHas, HereLeads
  <2>4. f[s] = e
    BY <2>2, <2>3
  <2> QED BY <2>1, <2>3, <2>4
<1> HIDE DEF T, f
<1>6. IsFiniteSet(Elements(at, Here))
  BY <1>1, <1>2, <1>3, FiniteImage
<1>7. \A q \in T : q \in DOMAIN at
  BY DEF T
<1> QED BY <1>3, <1>4, <1>5, <1>6, <1>7

LEMMA ListElements ==
    ASSUME NEW at, IsTree(DOMAIN at), Shaped(at, Here), at[Here].type = "L",
           NEW len, len = Cardinality(Elements(at, Here))
    PROVE  len \in Nat /\ \A e \in Steps : Slot(Here, e) \in DOMAIN at <=> e.isIdx /\ e.index < len
<1> DEFINE E == Elements(at, Here)
           I == {i \in Nat : Index(i) \in E}
           f == [e \in E |-> e.index]
<1>1. IsFiniteSet(E) /\ E = {e \in Steps : Slot(Here, e) \in DOMAIN at}
  BY ElementsAre
<1> HIDE DEF E
<1>2. ASSUME NEW e \in E
      PROVE  e \in Steps /\ e.isIdx /\ e = Index(e.index) /\ e.index \in I /\ (e.index > 0 => e.index - 1 \in I)
  <2>1. e \in Steps /\ Slot(Here, e) \in DOMAIN at
    BY <1>1
  <2>2. at[Here].type = (IF e.isIdx THEN "L" ELSE "M")
        /\ (e.isIdx /\ e.index > 0 => Slot(Here, Index(e.index - 1)) \in DOMAIN at)
    BY <2>1 DEF Shaped
  <2>3. e.isIdx
    BY <2>2
  <2>4. e = Index(e.index) /\ e.index \in Nat
    BY <2>1, <2>3, IndexesAre, StepIndex
  <2>5. e.index > 0 => e.index - 1 \in Nat
    BY <2>4
  <2>6. e.index > 0 => Index(e.index - 1) \in Steps
    BY <2>5, IndexStep
  <2>7. e.index > 0 => Index(e.index - 1) \in E
    BY <1>1, <2>2, <2>3, <2>6
  <2> QED BY <2>1, <2>3, <2>4, <2>5, <2>7
<1>3. ASSUME NEW i \in I PROVE Index(i) \in E /\ Index(i).index = i /\ i \in Nat
  BY DEF Index
<1>4. f \in Bijection(E, I)
  <2>1. f \in [E -> I] /\ \A e \in E : f[e] = e.index
    BY <1>2
  <2> HIDE DEF f
  <2>2. \A a, b \in E : f[a] = f[b] => a = b
    BY <1>2, <2>1
  <2>3. \A i \in I : \E e \in E : f[e] = i
    BY <1>3, <2>1
  <2> HIDE DEF I
  <2> QED BY <2>1, <2>2, <2>3 DEF Bijection, Injection, Surjection, IsInjective
<1>5. ExistsBijection(E, I)
  BY <1>4 DEF ExistsBijection
<1>6. IsFiniteSet(I) /\ Cardinality(I) = Cardinality(E)
  <2> HIDE DEF I
  <2> QED BY <1>1, <1>5, FS_Bijection
<1>7. \A i \in I : i > 0 => i - 1 \in I
  <2>1. ASSUME NEW i \in I, i > 0 PROVE i - 1 \in I
    <3>1. PICK e : e = Index(i)
      OBVIOUS
    <3>2. e \in E /\ e.index = i
      BY <1>3, <2>1, <3>1
    <3> HIDE DEF I
    <3> QED BY <1>2, <2>1, <3>2
  <2> QED BY <2>1
<1>8. I \in SUBSET Nat
  OBVIOUS
<1> HIDE DEF I
<1>9. len \in Nat /\ \A i \in Nat : i \in I <=> i < len
  <2>1. len = Cardinality(I)
    BY <1>6 DEF E
  <2> QED BY <1>6, <1>7, <1>8, <2>1, Counted
<1>10. ASSUME NEW e \in Steps PROVE Slot(Here, e) \in DOMAIN at <=> e.isIdx /\ e.index < len
  <2>1. Slot(Here, e) \in DOMAIN at <=> e \in E
    BY <1>1
  <2>2. e \in E => e.isIdx /\ e.index < len
    <3>1. e.index \in Nat
      BY StepIndex
    <3> QED BY <1>2, <1>9, <3>1
  <2>3. e.isIdx /\ e.index < len => e \in E
    <3>1. e.index \in Nat /\ (e.isIdx => e = Index(e.index))
      BY StepIndex, IndexesAre
    <3>2. e.isIdx /\ e.index < len => e.index \in I
      BY <1>9, <3>1
    <3> QED BY <3>1, <3>2 DEF I
  <2> QED BY <2>1, <2>2, <2>3
<1> QED BY <1>9, <1>10

LEMMA FirstStep ==
    ASSUME NEW S, IsTree(S), NEW p \in S, p # Here
    PROVE  p \in Paths /\ p[1] \in Steps /\ Slot(Here, p[1]) \in S
<1>1. p \in Paths /\ Len(p) \in Nat /\ Len(p) # 0
  BY PathFacts DEF IsTree
<1>2. 1 \in 0..Len(p) /\ 1 \in 1..Len(p)
  BY <1>1
<1>3. p[1] \in Steps
  BY <1>1, <1>2, PathFacts
<1>4. PICK r : r = Prefix(p, 1)
  OBVIOUS
<1>5. r \in Paths /\ Len(r) = 1 /\ \A i \in 1..1 : r[i] = p[i]
  BY <1>1, <1>2, <1>4, PrefixFacts
<1>6. r \in S
  <2>1. IsPrefix(r, p)
    BY <1>1, <1>2, <1>4, PrefixLeads
  <2> QED BY <1>5, <2>1, LeadsInto
<1>7. PICK s : s = Slot(Here, p[1])
  OBVIOUS
<1>8. s \in Paths /\ Len(s) = 1 /\ s[1] = p[1]
  BY <1>3, <1>7, TopSlot
<1>9. s = r
  <2>1. Len(s) = Len(r) /\ \A i \in 1..Len(s) : s[i] = r[i]
    BY <1>5, <1>8
  <2> QED BY <1>5, <1>8, <2>1, SamePath
<1> QED BY <1>1, <1>3, <1>6, <1>7, <1>9

(* list_append                                                             *)
Numbered(at, len) ==
    /\ IsTree(DOMAIN at) /\ len \in Nat
    /\ \A e \in Steps : Slot(Here, e) \in DOMAIN at <=> e.isIdx /\ e.index < len

Shift(p, len) == [p EXCEPT ![1] = Index(@.index + len)]

Tails(b, len) == {Shift(q, len) : q \in DOMAIN b.at \ {Here}}

AppendGives(out, a, b, len) ==
    /\ DOMAIN out.at = DOMAIN a.at \union Tails(b, len)
    /\ \A p \in DOMAIN a.at : /\ out.at[p] = a.at[p]
                              /\ out.ref[p] = IF p = Here THEN Anonymous ELSE a.ref[p]
    /\ \A q \in DOMAIN b.at \ {Here} : out.at[Shift(q, len)] = b.at[q] /\ out.ref[Shift(q, len)] = b.ref[q]

Lists(a, b, len, m) == Numbered(a.at, len) /\ Numbered(b.at, m)

Shifts(q, s, len) ==
    /\ s \in Paths /\ Len(s) = Len(q) /\ s # Here
    /\ \A i \in 1..Len(q) : s[i] = IF i = 1 THEN Index(q[1].index + len) ELSE q[i]

LEMMA ShiftApart ==
    ASSUME NEW a, NEW b, NEW len, NEW m, Lists(a, b, len, m),
           NEW q \in DOMAIN b.at, q # Here, NEW s, s = Shift(q, len)
    PROVE  /\ q \in Paths /\ q[1] \in Steps /\ q[1] = Index(q[1].index) /\ q[1].index < m
           /\ Shifts(q, s, len) /\ s \notin DOMAIN a.at
<1>0. Numbered(a.at, len) /\ Numbered(b.at, m)
  BY DEF Lists
<1>1. q \in Paths /\ q[1] \in Steps /\ Slot(Here, q[1]) \in DOMAIN b.at
  BY <1>0, FirstStep DEF Numbered
<1>2. q[1].isIdx /\ q[1].index < m /\ q[1].index \in Nat /\ len \in Nat /\ m \in Nat
  BY <1>0, <1>1, StepIndex DEF Numbered
<1>3. q[1] = Index(q[1].index)
  BY <1>1, <1>2, IndexesAre
<1>5. Shifts(q, s, len)
  <2>1. s = [q EXCEPT ![1] = Index(q[1].index + len)]
    BY DEF Shift
  <2>3. Len(q) \in Nat \ {0} /\ 1 \in 1..Len(q)
    BY <1>1, PathFacts
  <2>4. Index(q[1].index + len) \in Steps
    BY <1>2, IndexStep
  <2>5. /\ s \in Seq(Steps) /\ Len(s) = Len(q)
        /\ \A i \in 1..Len(q) : s[i] = IF i = 1 THEN Index(q[1].index + len) ELSE q[i]
    BY <1>1, <2>1, <2>3, <2>4, ExceptSeq DEF Paths
  <2>6. /\ s \in Paths /\ Len(s) = Len(q) /\ s # Here
        /\ \A i \in 1..Len(q) : s[i] = IF i = 1 THEN Index(q[1].index + len) ELSE q[i]
    BY <2>3, <2>5, PathFacts DEF Paths
  <2> QED BY <2>6 DEF Shifts
<1>6. s \notin DOMAIN a.at
  <2> SUFFICES ASSUME s \in DOMAIN a.at PROVE FALSE
    OBVIOUS
  <2>1. s[1] \in Steps /\ Slot(Here, s[1]) \in DOMAIN a.at
    BY <1>0, <1>5, FirstStep DEF Numbered, Shifts
  <2>2. Len(q) \in Nat /\ Len(q) # 0
    BY <1>1, PathFacts
  <2>3. 1 \in 1..Len(q)
    BY <2>2
  <2>4. s[1] = Index(q[1].index + len)
    BY <1>5, <2>3 DEF Shifts
  <2>5. s[1].index = q[1].index + len
    BY <2>4, IndexIs
  <2>6. s[1].index < len
    BY <1>0, <2>1 DEF Numbered
  <2> QED BY <1>2, <2>5, <2>6
<1> QED BY <1>1, <1>2, <1>3, <1>5, <1>6

LEMMA ShiftOnce ==
    ASSUME NEW a, NEW b, NEW len, NEW m, Lists(a, b, len, m),
           NEW q \in DOMAIN b.at, q # Here, NEW r \in DOMAIN b.at, r # Here,
           Shift(q, len) = Shift(r, len)
    PROVE  q = r
<1>1. PICK s : s = Shift(q, len)
  OBVIOUS
<1>2. q \in Paths /\ q[1] \in Steps /\ q[1] = Index(q[1].index) /\ Shifts(q, s, len)
  BY <1>1, ShiftApart
<1>3. r \in Paths /\ r[1] \in Steps /\ r[1] = Index(r[1].index) /\ Shifts(r, s, len)
  <2>1. s = Shift(r, len)
    BY <1>1
  <2> QED BY <2>1, ShiftApart
<1>4. len \in Nat /\ q[1].index \in Nat /\ r[1].index \in Nat
  BY <1>2, <1>3, StepIndex DEF Lists, Numbered
<1>5. Len(q) = Len(r) /\ Len(q) \in Nat /\ Len(q) # 0
  BY <1>2, <1>3, PathFacts DEF Shifts
<1>6. q[1] = r[1]
  <2>1. 1 \in 1..Len(q)
    BY <1>5
  <2>2. Index(q[1].index + len) = Index(r[1].index + len)
    BY <1>2, <1>3, <1>5, <2>1 DEF Shifts
  <2>3. q[1].index + len = r[1].index + len
    BY <2>2, IndexIs
  <2> QED BY <1>2, <1>3, <1>4, <2>3
<1>7. \A i \in 1..Len(q) : q[i] = r[i]
  BY <1>2, <1>3, <1>5, <1>6 DEF Shifts
<1> QED BY <1>2, <1>3, <1>5, <1>7, SamePath

LEMMA AppendFacts ==
    ASSUME NEW a, NEW b, NEW len, NEW m, Lists(a, b, len, m),
           len = Cardinality(Elements(a.at, Here))
    PROVE  AppendGives(Appended(a, b), a, b, len)
<1> DEFINE shifted(p) == [p EXCEPT ![1] = Index(@.index + len)]
           tails == {shifted(p) : p \in DOMAIN b.at \ {Here}}
           from(p) == CHOOSE q \in DOMAIN b.at \ {Here} : shifted(q) = p
           all == DOMAIN a.at \union tails
           out == Appended(a, b)
<1>1. \A q : shifted(q) = Shift(q, len)
  BY DEF Shift
<1>2. tails = Tails(b, len)
  BY DEF Tails, Shift
<1>3. DOMAIN out.at = all /\ \A p \in all :
         /\ out.at[p] = (IF p \in tails THEN b.at[from(p)] ELSE a.at[p])
         /\ out.ref[p] = (IF p = Here THEN Anonymous ELSE IF p \in tails THEN b.ref[from(p)] ELSE a.ref[p])
  BY DEF Appended
<1>4. ASSUME NEW p \in DOMAIN a.at PROVE p \notin tails
  <2>1. ASSUME NEW q \in DOMAIN b.at \ {Here} PROVE Shift(q, len) # p
    BY ShiftApart
  <2> HIDE DEF shifted
  <2> QED BY <1>1, <2>1
<1>5. ASSUME NEW q \in DOMAIN b.at \ {Here}
      PROVE  Shift(q, len) \in tails /\ Shift(q, len) # Here /\ from(Shift(q, len)) = q
  <2>1. Shift(q, len) \in tails
    BY <1>1
  <2>2. Shift(q, len) # Here
    BY ShiftApart DEF Shifts
  <2>3. \E r \in DOMAIN b.at \ {Here} : shifted(r) = Shift(q, len)
    BY <1>1
  <2> HIDE DEF shifted, tails
  <2>4. from(Shift(q, len)) \in DOMAIN b.at \ {Here} /\ shifted(from(Shift(q, len))) = Shift(q, len)
    BY <2>3
  <2>5. Shift(from(Shift(q, len)), len) = Shift(q, len)
    BY <1>1, <2>4
  <2> HIDE DEF from
  <2>6. from(Shift(q, len)) = q
    BY <2>4, <2>5, ShiftOnce
  <2> QED BY <2>1, <2>2, <2>6
<1> HIDE DEF shifted, tails, from, out
<1>6. \A p \in DOMAIN a.at : /\ out.at[p] = a.at[p]
                             /\ out.ref[p] = IF p = Here THEN Anonymous ELSE a.ref[p]
  BY <1>3, <1>4
<1>7. \A q \in DOMAIN b.at \ {Here} : out.at[Shift(q, len)] = b.at[q] /\ out.ref[Shift(q, len)] = b.ref[q]
  BY <1>3, <1>5
<1>8. AppendGives(out, a, b, len)
  BY <1>2, <1>3, <1>6, <1>7 DEF AppendGives
<1> QED BY <1>8 DEF out

(* The elements at a place of the list that list_append makes.             *)
LEMMA AppendedSlots ==
    ASSUME NEW a, NEW b, NEW len, NEW m, Lists(a, b, len, m),
           NEW out, AppendGives(out, a, b, len), NEW e \in Steps
    PROVE  /\ Slot(Here, e) \in DOMAIN out.at <=> e.isIdx /\ e.index < len + m
           /\ \A p \in DOMAIN a.at : p # Here => (Slot(p, e) \in DOMAIN out.at <=> Slot(p, e) \in DOMAIN a.at)
           /\ \A q \in DOMAIN b.at : q # Here =>
                (Slot(Shift(q, len), e) \in DOMAIN out.at <=> Slot(q, e) \in DOMAIN b.at)
<1>0. /\ len \in Nat /\ m \in Nat /\ e.index \in Nat
      /\ IsTree(DOMAIN a.at) /\ IsTree(DOMAIN b.at)
      /\ \A r : r \in DOMAIN out.at <=> r \in DOMAIN a.at \/ \E q \in DOMAIN b.at : q # Here /\ r = Shift(q, len)
  BY StepIndex DEF Lists, Numbered, AppendGives, Tails
<1>1. ASSUME NEW p \in Paths, NEW q \in DOMAIN b.at, q # Here, Slot(p, e) = Shift(q, len), p # Here
      PROVE  Front(q) \in DOMAIN b.at /\ Front(q) # Here /\ p = Shift(Front(q), len) /\ q = Slot(Front(q), e)
  <2>1. PICK s : s = Slot(p, e)
    OBVIOUS
  <2>2. /\ s \in Paths /\ Len(s) = Len(p) + 1 /\ s[Len(p) + 1] = e
        /\ \A i \in 1..Len(p) : s[i] = p[i]
    BY <2>1, SlotFacts
  <2>3. /\ q \in Paths /\ Len(s) = Len(q)
        /\ \A i \in 1..Len(q) : s[i] = IF i = 1 THEN Index(q[1].index + len) ELSE q[i]
    <3>1. s = Shift(q, len)
      BY <1>1, <2>1
    <3> QED BY <1>1, <3>1, ShiftApart DEF Shifts
  <2>4. PICK r : r = Front(q)
    OBVIOUS
  <2>5. /\ r \in Paths /\ Len(r) = Len(q) - 1 /\ (\A i \in 1..(Len(q) - 1) : r[i] = q[i])
        /\ q = Slot(r, Last(q)) /\ Last(q) \in Steps
    BY <1>1, <2>3, <2>4, FrontFacts, SlotOfFront
  <2>6. r \in DOMAIN b.at
    BY <1>0, <1>1, <2>4 DEF IsTree
  <2>7. Len(p) \in Nat /\ Len(p) # 0 /\ Len(r) = Len(p)
    BY <1>1, <2>2, <2>3, <2>5, PathFacts
  <2>8. r # Here
    BY <2>5, <2>7, PathFacts
  <2>9. Last(q) = e
    <3>1. Last(q) = q[Len(q)]
      BY DEF Last
    <3>2. Len(p) + 1 \in 1..Len(q) /\ Len(p) + 1 # 1 /\ Len(q) = Len(p) + 1
      BY <2>2, <2>3, <2>7
    <3> QED BY <2>2, <2>3, <3>1, <3>2
  <2>10. PICK t : t = Shift(r, len)
    OBVIOUS
  <2>11. /\ t \in Paths /\ Len(t) = Len(r)
         /\ \A i \in 1..Len(r) : t[i] = IF i = 1 THEN Index(r[1].index + len) ELSE r[i]
    BY <2>6, <2>8, <2>10, ShiftApart DEF Shifts
  <2>12. ASSUME NEW i \in 1..Len(p) PROVE p[i] = t[i]
    <3>1. i \in 1..Len(q) /\ i \in 1..Len(r) /\ i \in 1..(Len(q) - 1) /\ 1 \in 1..(Len(q) - 1)
      BY <2>2, <2>3, <2>5, <2>7
    <3>2. p[i] = (IF i = 1 THEN Index(q[1].index + len) ELSE q[i])
      BY <2>2, <2>3, <3>1
    <3> QED BY <2>5, <2>11, <3>1, <3>2
  <2>13. p = t
    BY <2>7, <2>11, <2>12, SamePath
  <2> QED BY <2>4, <2>5, <2>6, <2>8, <2>9, <2>10, <2>13
<1>2. Slot(Here, e) \in DOMAIN out.at <=> e.isIdx /\ e.index < len + m
  <2>0. PICK s : s = Slot(Here, e)
    OBVIOUS
  <2>1. s \in Paths /\ Len(s) = 1 /\ s[1] = e
    BY <2>0, TopSlot
  <2>2. s \in DOMAIN a.at <=> e.isIdx /\ e.index < len
    BY <2>0 DEF Lists, Numbered
  <2>3. ASSUME NEW q \in DOMAIN b.at, q # Here, s = Shift(q, len)
        PROVE  e.isIdx /\ e.index < len + m
    <3>1. /\ Len(s) = Len(q) /\ q[1] \in Steps /\ q[1].index < m
          /\ \A i \in 1..Len(q) : s[i] = IF i = 1 THEN Index(q[1].index + len) ELSE q[i]
      BY <2>3, ShiftApart DEF Shifts
    <3>2. e = Index(q[1].index + len)
      BY <2>1, <3>1
    <3>3. e.isIdx /\ e.index = q[1].index + len
      BY <3>2, IndexIs
    <3>4. q[1].index \in Nat
      BY <3>1, StepIndex
    <3> QED BY <1>0, <3>1, <3>3, <3>4
  <2>4. ASSUME e.isIdx, e.index < len + m, ~(e.index < len)
        PROVE  \E q \in DOMAIN b.at : q # Here /\ s = Shift(q, len)
    <3>1. PICK j \in Int : j = e.index - len
      BY <1>0
    <3>2. j \in Nat /\ j < m /\ e.index = j + len
      BY <1>0, <2>4, <3>1
    <3>3. PICK g \in Steps : g = Index(j)
      BY <3>2, IndexStep
    <3>4. g.isIdx /\ g.index = j
      BY <3>3, IndexIs
    <3>5. PICK q : q = Slot(Here, g)
      OBVIOUS
    <3>6. q \in DOMAIN b.at
      BY <3>2, <3>4, <3>5 DEF Lists, Numbered
    <3>7. q \in Paths /\ Len(q) = 1 /\ q[1] = g /\ q # Here
      BY <3>5, TopSlot, SlotFacts, HereHas
    <3>8. PICK t : t = Shift(q, len)
      OBVIOUS
    <3>9. /\ t \in Paths /\ Len(t) = Len(q)
          /\ \A i \in 1..Len(q) : t[i] = IF i = 1 THEN Index(q[1].index + len) ELSE q[i]
      BY <3>6, <3>7, <3>8, ShiftApart DEF Shifts
    <3>10. t[1] = Index(e.index)
      BY <3>2, <3>4, <3>7, <3>9
    <3>11. t[1] = s[1]
      BY <2>1, <2>4, <3>10, IndexesAre
    <3>12. \A i \in 1..Len(s) : s[i] = t[i]
      BY <2>1, <3>11
    <3>13. s = t
      BY <2>1, <3>7, <3>9, <3>12, SamePath
    <3> QED BY <3>6, <3>7, <3>8, <3>13
  <2> QED BY <1>0, <2>0, <2>2, <2>3, <2>4
<1>3. ASSUME NEW p \in DOMAIN a.at, p # Here
      PROVE  Slot(p, e) \in DOMAIN out.at <=> Slot(p, e) \in DOMAIN a.at
  <2>1. p \in Paths
    BY <1>0 DEF IsTree
  <2>2. ASSUME NEW q \in DOMAIN b.at, q # Here, Slot(p, e) = Shift(q, len) PROVE FALSE
    <3>1. Front(q) \in DOMAIN b.at /\ Front(q) # Here /\ p = Shift(Front(q), len)
      BY <1>1, <1>3, <2>1, <2>2
    <3>2. Shift(Front(q), len) \notin DOMAIN a.at
      BY <3>1, ShiftApart
    <3> QED BY <3>1, <3>2
  <2> QED BY <1>0, <2>2
<1>4. ASSUME NEW q \in DOMAIN b.at, q # Here
      PROVE  Slot(Shift(q, len), e) \in DOMAIN out.at <=> Slot(q, e) \in DOMAIN b.at
  <2>1. PICK p : p = Shift(q, len)
    OBVIOUS
  <2>2. p \in Paths /\ p # Here /\ p \notin DOMAIN a.at /\ q \in Paths
    BY <1>4, <2>1, ShiftApart DEF Shifts
  <2>3. Slot(p, e) \notin DOMAIN a.at
    BY <1>0, <2>2, SlotIn
  <2>4. ASSUME NEW r \in DOMAIN b.at, r # Here, Slot(p, e) = Shift(r, len) PROVE Slot(q, e) \in DOMAIN b.at
    <3>1. Front(r) \in DOMAIN b.at /\ Front(r) # Here /\ p = Shift(Front(r), len) /\ r = Slot(Front(r), e)
      BY <1>1, <2>2, <2>4
    <3>2. Front(r) = q
      BY <1>4, <2>1, <3>1, ShiftOnce
    <3> QED BY <2>4, <3>1, <3>2
  <2>5. ASSUME Slot(q, e) \in DOMAIN b.at PROVE Slot(p, e) = Shift(Slot(q, e), len) /\ Slot(q, e) # Here
    <3>1. PICK s : s = Slot(q, e)
      OBVIOUS
    <3>2. /\ s \in Paths /\ s # Here /\ Len(s) = Len(q) + 1 /\ s[Len(q) + 1] = e
          /\ \A i \in 1..Len(q) : s[i] = q[i]
      BY <2>2, <3>1, SlotFacts
    <3>3. PICK l : l = Slot(p, e)
      OBVIOUS
    <3>4. /\ l \in Paths /\ Len(l) = Len(p) + 1 /\ l[Len(p) + 1] = e
          /\ \A i \in 1..Len(p) : l[i] = p[i]
      BY <2>2, <3>3, SlotFacts
    <3>5. /\ Len(p) = Len(q)
          /\ \A i \in 1..Len(q) : p[i] = IF i = 1 THEN Index(q[1].index + len) ELSE q[i]
      BY <1>4, <2>1, ShiftApart DEF Shifts
    <3>6. PICK r : r = Shift(s, len)
      OBVIOUS
    <3>7. /\ r \in Paths /\ Len(r) = Len(s)
          /\ \A i \in 1..Len(s) : r[i] = IF i = 1 THEN Index(s[1].index + len) ELSE s[i]
      BY <2>5, <3>1, <3>2, <3>6, ShiftApart DEF Shifts
    <3>8. Len(q) \in Nat /\ Len(q) # 0
      BY <1>4, <2>2, PathFacts
    <3>9. ASSUME NEW i \in 1..Len(l) PROVE l[i] = r[i]
      <4>1. CASE i = Len(q) + 1
        <5>1. i \in 1..Len(s) /\ i # 1
          BY <3>2, <3>8, <4>1
        <5> QED BY <3>2, <3>4, <3>5, <3>7, <4>1, <5>1
      <4>2. CASE i # Len(q) + 1
        <5>1. i \in 1..Len(q) /\ i \in 1..Len(s) /\ 1 \in 1..Len(q)
          BY <3>2, <3>4, <3>5, <3>8, <4>2
        <5>2. l[i] = (IF i = 1 THEN Index(q[1].index + len) ELSE q[i])
          BY <3>4, <3>5, <5>1
        <5>3. r[i] = (IF i = 1 THEN Index(q[1].index + len) ELSE q[i])
          BY <3>2, <3>7, <5>1
        <5> QED BY <5>2, <5>3
      <4> QED BY <4>1, <4>2
    <3>10. l = r
      BY <3>2, <3>4, <3>5, <3>7, <3>9, SamePath
    <3> QED BY <3>1, <3>2, <3>3, <3>6, <3>10
  <2> QED BY <1>0, <2>1, <2>3, <2>4, <2>5
<1> QED BY <1>2, <1>3, <1>4

LEMMA AppendedPart ==
    ASSUME NEW doc, NEW a, NEW b, Part(a, doc), Part(b, doc), a.at[Here].type = "L", b.at[Here].type = "L"
    PROVE  Part(Appended(a, b), doc)
<1>1. /\ Branch(a) /\ NodesOK(a) /\ IsTree(DOMAIN a.at) /\ Here \in DOMAIN a.at
      /\ \A q \in DOMAIN a.at :
            Shaped(a.at, q) /\ ((q = Here /\ a.ref[q] = Anonymous) \/ FoundIn(a, q, doc))
  BY DEF Part, Branch, Tree, IsTree
<1>2. /\ Branch(b) /\ NodesOK(b) /\ IsTree(DOMAIN b.at) /\ Here \in DOMAIN b.at
      /\ \A q \in DOMAIN b.at :
            Shaped(b.at, q) /\ ((q = Here /\ b.ref[q] = Anonymous) \/ FoundIn(b, q, doc))
  BY DEF Part, Branch, Tree, IsTree
<1>3. PICK len : len = Cardinality(Elements(a.at, Here))
  OBVIOUS
<1>4. PICK m : m = Cardinality(Elements(b.at, Here))
  OBVIOUS
<1>5. Lists(a, b, len, m) /\ len \in Nat /\ m \in Nat
  BY <1>1, <1>2, <1>3, <1>4, ListElements DEF Lists, Numbered
<1>6. PICK out : out = Appended(a, b)
  OBVIOUS
<1>7. AppendGives(out, a, b, len)
  BY <1>3, <1>5, <1>6, AppendFacts
<1>8. Branch(out)
  BY <1>1, <1>2, <1>6, AppendedBranch
<1>9. ASSUME NEW e \in Steps
      PROVE  /\ Slot(Here, e) \in DOMAIN out.at <=> e.isIdx /\ e.index < len + m
             /\ \A p \in DOMAIN a.at : p # Here => (Slot(p, e) \in DOMAIN out.at <=> Slot(p, e) \in DOMAIN a.at)
             /\ \A q \in DOMAIN b.at : q # Here =>
                  (Slot(Shift(q, len), e) \in DOMAIN out.at <=> Slot(q, e) \in DOMAIN b.at)
  BY <1>5, <1>7, <1>9, AppendedSlots
<1>10. \A e \in Steps : e.index \in Nat /\ (e.index > 0 => Index(e.index - 1) \in Steps)
  <2>1. ASSUME NEW e \in Steps PROVE e.index \in Nat /\ (e.index > 0 => Index(e.index - 1) \in Steps)
    <3>1. e.index \in Nat
      BY StepIndex
    <3>2. e.index > 0 => e.index - 1 \in Nat
      BY <3>1
    <3> QED BY <3>1, <3>2, IndexStep
  <2> QED BY <2>1
<1> DEFINE Holds2(r) == /\ NodeOK(out.at[r]) /\ Shaped(out.at, r)
                        /\ ((r = Here /\ out.ref[r] = Anonymous) \/ FoundIn(out, r, doc))
<1>11. Holds2(Here)
  <2>1. out.at[Here] = a.at[Here] /\ out.ref[Here] = Anonymous
    BY <1>1, <1>7 DEF AppendGives
  <2>2. NodeOK(out.at[Here])
    BY <1>1, <2>1 DEF NodesOK
  <2>3. ASSUME NEW e \in Steps, Slot(Here, e) \in DOMAIN out.at
        PROVE  /\ out.at[Here].type = IF e.isIdx THEN "L" ELSE "M"
               /\ e.isIdx /\ e.index > 0 => Slot(Here, Index(e.index - 1)) \in DOMAIN out.at
    <3>1. e.isIdx /\ e.index < len + m
      BY <1>9, <2>3
    <3>2. ASSUME e.index > 0 PROVE Slot(Here, Index(e.index - 1)) \in DOMAIN out.at
      <4>1. PICK g \in Steps : g = Index(e.index - 1)
        BY <1>10, <3>2
      <4>2. g.isIdx /\ g.index = e.index - 1
        BY <4>1, IndexIs
      <4>3. g.index < len + m
        BY <1>5, <1>10, <3>1, <4>2
      <4> QED BY <1>9, <4>1, <4>2, <4>3
    <3> QED BY <2>1, <3>1, <3>2
  <2>4. Shaped(out.at, Here)
    BY <2>3 DEF Shaped
  <2> QED BY <2>1, <2>2, <2>4
<1>12. ASSUME NEW p \in DOMAIN a.at, p # Here PROVE Holds2(p)
  <2>1. out.at[p] = a.at[p] /\ out.ref[p] = a.ref[p]
    BY <1>7, <1>12 DEF AppendGives
  <2>2. \A e \in Steps : Slot(p, e) \in DOMAIN out.at <=> Slot(p, e) \in DOMAIN a.at
    BY <1>9, <1>12
  <2>3. NodeOK(out.at[p])
    BY <1>1, <2>1 DEF NodesOK
  <2>4. Shaped(out.at, p)
    BY <1>1, <1>10, <2>1, <2>2 DEF Shaped
  <2>5. FoundIn(out, p, doc)
    <3>1. PICK r \in DOMAIN doc.at : r # Here /\ Alike(a, p, doc, r)
      BY <1>1, <1>12 DEF FoundIn
    <3>2. Alike(out, p, doc, r)
      BY <2>1, <2>2, <3>1 DEF Alike
    <3> QED BY <3>1, <3>2 DEF FoundIn
  <2> QED BY <2>3, <2>4, <2>5
<1>13. ASSUME NEW q \in DOMAIN b.at, q # Here PROVE Holds2(Shift(q, len))
  <2>0. PICK p : p = Shift(q, len)
    OBVIOUS
  <2>1. out.at[p] = b.at[q] /\ out.ref[p] = b.ref[q]
    BY <1>7, <1>13, <2>0 DEF AppendGives
  <2>2. \A e \in Steps : Slot(p, e) \in DOMAIN out.at <=> Slot(q, e) \in DOMAIN b.at
    BY <1>9, <1>13, <2>0
  <2>3. NodeOK(out.at[p])
    BY <1>2, <2>1 DEF NodesOK
  <2>4. Shaped(out.at, p)
    BY <1>2, <1>10, <2>1, <2>2 DEF Shaped
  <2>5. FoundIn(out, p, doc)
    <3>1. PICK r \in DOMAIN doc.at : r # Here /\ Alike(b, q, doc, r)
      BY <1>2, <1>13 DEF FoundIn
    <3>2. Alike(out, p, doc, r)
      BY <2>1, <2>2, <3>1 DEF Alike
    <3> QED BY <3>1, <3>2 DEF FoundIn
  <2> QED BY <2>0, <2>3, <2>4, <2>5
<1>14. \A r \in DOMAIN out.at : r \in DOMAIN a.at \/ \E q \in DOMAIN b.at : q # Here /\ r = Shift(q, len)
  BY <1>7 DEF AppendGives, Tails
<1> HIDE DEF Holds2
<1>15. \A r \in DOMAIN out.at : Holds2(r)
  BY <1>11, <1>12, <1>13, <1>14
<1>16. Part(out, doc)
  BY <1>8, <1>15 DEF Part, NodesOK, Holds2
<1> QED BY <1>6, <1>16

LEMMA NumberPart ==
    ASSUME NEW n \in Int, NEW doc
    PROVE  Part(Given(Scalar(Integer(n))), doc)
<1>1. Integer(n) \in Node /\ Integer(n).type = "N"
  BY IntegerNode
<1>2. NodeOK(Integer(n))
  BY <1>1 DEF NodeOK, MembersDiffer, Sets
<1> QED BY <1>2, ScalarPart

(* Operands and right-hand sides are parts of the copy.                    *)
LEMMA OperandPart ==
    ASSUME NEW doc, NEW done, Sound(doc, done), NEW o, IsOperand(o), NEW sub \in operandValue(o, doc)
    PROVE  Part(sub, doc)
<1>0. Rooted(doc)
  BY DEF Sound
<1>1. ~Erroneous(o, doc.at)
  BY DEF operandValue
<1>2. o.kind \in {"value", "path", "size"}
  BY <1>1 DEF IsOperand, Erroneous
<1>3. CASE o.kind = "value"
  <2>1. sub = Subdocument(doc, RefPath(o.vref))
    BY <1>1, <1>3 DEF operandValue
  <2>2. o.vref \in DOMAIN Refs
    BY <1>1, <1>3 DEF Erroneous
  <2>3. RefPath(o.vref) \in DOMAIN doc.at /\ RefPath(o.vref) # Here
    BY <1>0, <2>2, RefPathFacts DEF Rooted, Holds
  <2> QED BY <2>1, <2>3, SubdocumentPart
<1>4. CASE o.kind = "path"
  <2>1. resolvePath(doc.at, o.path) # {}
    <3>1. SUFFICES ASSUME resolvePath(doc.at, o.path) = {} PROVE FALSE
      OBVIOUS
    <3>2. sub \in {Given(v) : v \in resolveOperand(o, doc.at)}
      BY <1>1, <1>4, <3>1 DEF operandValue
    <3>3. resolveOperand(o, doc.at) = {}
      BY <1>4, <3>1 DEF resolveOperand
    <3> QED BY <3>2, <3>3
  <2>2. sub = Subdocument(doc, o.path)
    BY <1>1, <1>4, <2>1 DEF operandValue
  <2>3. o.path \in DOMAIN doc.at /\ o.path # Here
    BY <2>1 DEF resolvePath
  <2> QED BY <2>2, <2>3, SubdocumentPart
<1>5. CASE o.kind = "size"
  <2>1. sub \in {Given(v) : v \in resolveOperand(o, doc.at)}
    BY <1>1, <1>5 DEF operandValue
  <2>2. resolveOperand(o, doc.at) = {Scalar(Integer(sizeOf(v))) : v \in resolvePath(doc.at, o.path)}
    BY <1>5 DEF resolveOperand
  <2>3. PICK v \in resolvePath(doc.at, o.path) : sub = Given(Scalar(Integer(sizeOf(v))))
    BY <2>1, <2>2
  <2>4. o.path \in DOMAIN doc.at /\ o.path # Here /\ v = At(doc.at, o.path)
    BY <2>3 DEF resolvePath
  <2>5. PICK found : found = Subdocument(doc, o.path)
    OBVIOUS
  <2>6. Part(found, doc) /\ found.at = v
    BY <2>4, <2>5, SubdocumentPart DEF Subdocument
  <2>7. IsTree(DOMAIN v) /\ v[Here] \in Node
    BY <2>6 DEF Part, Branch, Tree, IsTree, NodesOK, NodeOK
  <2>8. v[Here].type \in Sized
    BY <1>1, <1>5, <2>3 DEF Erroneous
  <2>9. sizeOf(v) \in Nat
    BY <2>7, <2>8, SizeIsNat
  <2>10. sizeOf(v) \in Int
    BY <2>9
  <2> QED BY <2>3, <2>10, NumberPart
<1> QED BY <1>2, <1>3, <1>4, <1>5

LEMMA RvaluePart ==
    ASSUME NEW doc, NEW done, Sound(doc, done), NEW rvalue \in Rvalues, NEW sub \in evalRvalue(rvalue, doc)
    PROVE  Part(sub, doc)
<1> DEFINE eval == CHOOSE f : f = [r \in Rvalues |-> evalWith(f, r, doc)]
<1>1. EvalOn(eval, Rvalues, doc)
  BY EvalExists DEF EvalOn
<1>2. evalRvalue(rvalue, doc) = eval[rvalue]
  BY DEF evalRvalue
<1> HIDE DEF eval
<1> DEFINE off == {r \in Rvalues : \E x \in eval[r] : ~Part(x, doc)}
<1>3. off = {}
  <2> SUFFICES ASSUME off # {} PROVE FALSE
    OBVIOUS
  <2>1. off \subseteq Rvalues
    OBVIOUS
  <2>2. PICK r \in off : Nested(r) \intersect off = {}
    <3> HIDE DEF off
    <3> QED BY <2>1, Innermost
  <2>3. PICK x \in eval[r] : ~Part(x, doc)
    OBVIOUS
  <2>4. r \in Rvalues
    BY <2>1
  <2>5. Nested(r) \subseteq Rvalues /\ r.fn \in {"operand", "if_not_exists", "list_append"}
        /\ (r.fn = "operand" => IsOperand(r.opnd))
    BY <2>4, RvaluesAssumption DEF RvaluesAssumption
  <2>6. \A s \in Nested(r) : \A y \in eval[s] : Part(y, doc)
    BY <2>2, <2>5
  <2>7. x \in evalWith(eval, r, doc)
    BY <1>1, <2>3, <2>4 DEF EvalOn
  <2>8. CASE r.fn = "operand"
    <3>1. x \in operandValue(r.opnd, doc)
      BY <2>7, <2>8 DEF evalWith
    <3> QED BY <2>3, <2>5, <2>8, <3>1, OperandPart
  <2>9. CASE r.fn = "if_not_exists"
    <3>1. CASE resolvePath(doc.at, r.path) # {}
      <4>1. x = Subdocument(doc, r.path)
        BY <2>7, <2>9, <3>1 DEF evalWith
      <4>2. r.path \in DOMAIN doc.at /\ r.path # Here
        BY <3>1 DEF resolvePath
      <4> QED BY <2>3, <4>1, <4>2, SubdocumentPart
    <3>2. CASE resolvePath(doc.at, r.path) = {}
      <4>1. x \in eval[r.b]
        BY <2>7, <2>9, <3>2 DEF evalWith
      <4>2. r.b \in Nested(r)
        BY <2>9 DEF Nested
      <4> QED BY <2>3, <2>6, <4>1, <4>2
    <3> QED BY <3>1, <3>2
  <2>10. CASE r.fn = "list_append"
    <3>1. x \in {Appended(a, b) : a \in {y \in eval[r.a] : y.at[Here].type = "L"},
                                  b \in {y \in eval[r.b] : y.at[Here].type = "L"}}
      BY <2>7, <2>10 DEF evalWith
    <3>2. PICK a \in eval[r.a], b \in eval[r.b] :
             x = Appended(a, b) /\ a.at[Here].type = "L" /\ b.at[Here].type = "L"
      BY <3>1
    <3>3. r.a \in Nested(r) /\ r.b \in Nested(r)
      BY <2>10 DEF Nested
    <3>4. Part(a, doc) /\ Part(b, doc)
      BY <2>6, <3>2, <3>3
    <3> QED BY <2>3, <3>2, <3>4, AppendedPart
  <2> QED BY <2>5, <2>8, <2>9, <2>10
<1> QED BY <1>2, <1>3

LEMMA SumPart ==
    ASSUME NEW doc, NEW m \in Numerals, NEW n \in Numerals, NEW minus
    PROVE  Part(addNumbers(m, n, minus), doc)
<1>1. Int10(m) \in Int /\ Int10(n) \in Int
  BY Int10Typed
<1>2. Sums!addNumbers(Int10(m), Int10(n), minus) \in Int
  BY <1>1, AddedTyped
<1> QED BY <1>2, NumberPart DEF addNumbers

LEMMA PartHere ==
    ASSUME NEW doc, NEW sub, Part(sub, doc)
    PROVE  Here \in DOMAIN sub.at /\ sub.at[Here] \in Node /\ NodeOK(sub.at[Here])
BY DEF Part, Branch, Tree, IsTree, NodesOK, NodeOK

LEMMA SetValuePart ==
    ASSUME NEW doc, NEW done, Sound(doc, done), NEW a, IsAction(a), a.op = "set",
           NEW sub \in evalSetValue(a.set, doc)
    PROVE  Part(sub, doc)
<1>1. a.set.kind \in {"plain", "add", "sub"} /\ a.set.a \in Rvalues
      /\ (a.set.kind # "plain" => IsOperand(a.set.b))
  BY DEF IsAction
<1>2. CASE a.set.kind = "plain"
  <2>1. sub \in evalRvalue(a.set.a, doc)
    BY <1>2 DEF evalSetValue
  <2> QED BY <1>1, <2>1, RvaluePart
<1>3. CASE a.set.kind # "plain"
  <2>1. sub \in Sum(evalRvalue(a.set.a, doc), operandValue(a.set.b, doc), a.set.kind = "sub")
    BY <1>3 DEF evalSetValue
  <2>2. PICK l \in evalRvalue(a.set.a, doc), r \in operandValue(a.set.b, doc) :
           /\ l.at[Here].type = "N" /\ r.at[Here].type = "N"
           /\ sub = addNumbers(l.at[Here].num, r.at[Here].num, a.set.kind = "sub")
    BY <2>1 DEF Sum
  <2>3. Part(l, doc) /\ Part(r, doc)
    BY <1>1, <1>3, <2>2, RvaluePart, OperandPart
  <2>4. l.at[Here] \in Node /\ r.at[Here] \in Node
    BY <2>3, PartHere
  <2>5. l.at[Here].num \in Numerals /\ r.at[Here].num \in Numerals
    BY <2>2, <2>4, NodeParts
  <2>6. \A minus : Part(addNumbers(l.at[Here].num, r.at[Here].num, minus), doc)
    BY <2>5, SumPart
  <2> QED BY <2>2, <2>6
<1> QED BY <1>2, <1>3

-----------------------------------------------------------------------------
(* Put keeps the copy sound                                                *)

LEMMA AlikeBack ==
    ASSUME NEW d1, NEW p, NEW d2, NEW q, Alike(d1, p, d2, q)
    PROVE  Alike(d2, q, d1, p)
BY DEF Alike

LEMMA AlikeOn ==
    ASSUME NEW d1, NEW p, NEW d2, NEW q, NEW d3, NEW r, Alike(d1, p, d2, q), Alike(d2, q, d3, r)
    PROVE  Alike(d1, p, d3, r)
BY DEF Alike

LEMMA StepBefore == \A e \in Steps : e.index \in Nat /\ (e.index > 0 => Index(e.index - 1) \in Steps)
<1>1. ASSUME NEW e \in Steps PROVE e.index \in Nat /\ (e.index > 0 => Index(e.index - 1) \in Steps)
  <2>1. e.index \in Nat
    BY StepIndex
  <2>2. e.index > 0 => e.index - 1 \in Nat
    BY <2>1
  <2> QED BY <2>1, <2>2, IndexStep
<1> QED BY <1>1

LEMMA AlikeShaped ==
    ASSUME NEW d1, NEW p, NEW d2, NEW q, Alike(d1, p, d2, q), Shaped(d2.at, q)
    PROVE  Shaped(d1.at, p)
BY StepBefore DEF Alike, Shaped

LEMMA JoinOnce ==
    ASSUME NEW p \in Paths, NEW q \in Paths, NEW r \in Paths, Join(p, q) = Join(p, r)
    PROVE  q = r
<1>1. SubSeq(p \o q, Len(p) + 1, Len(p \o q)) = q
  BY JoinLeads
<1>2. SubSeq(p \o r, Len(p) + 1, Len(p \o r)) = r
  BY JoinLeads
<1> QED BY <1>1, <1>2 DEF Join

LEMMA JoinHere == \A p \in Paths : Join(p, Here) = p
BY ConcatEmptySeq DEF Join, Here, Paths

LEMMA SlotOnce ==
    ASSUME NEW p \in Paths, NEW q \in Paths, NEW d \in Steps, NEW e \in Steps, Slot(p, d) = Slot(q, e)
    PROVE  p = q /\ d = e
BY SlotFacts

(* The chain that setPath assigns: maps that were missing, and then sub.   *)
LEMMA MapBelow ==
    ASSUME NEW rest \in Paths, NEW t \in Maps(rest)
    PROVE  t \in Paths /\ Len(t) < Len(rest) /\ Len(rest) \in Nat /\ Len(t) \in Nat
<1>1. PICK n \in 0..(Len(rest) - 1) : t = Prefix(rest, n)
  BY DEF Maps
<1>2. Len(rest) \in Nat
  BY PathFacts
<1>3. n \in 0..Len(rest) /\ n < Len(rest)
  BY <1>2
<1>4. t \in Paths /\ Len(t) = n
  BY <1>1, <1>3, PrefixFacts
<1> QED BY <1>2, <1>3, <1>4

LEMMA MapSlot ==
    ASSUME NEW rest \in Paths, NEW sub, DOMAIN sub.at \subseteq Paths, NEW t \in Maps(rest), NEW e \in Steps,
           Slot(t, e) \in Nodes(rest, sub)
    PROVE  \E i \in 1..Len(rest) : e = rest[i]
<1>1. t \in Paths /\ Len(t) < Len(rest) /\ Len(rest) \in Nat /\ Len(t) \in Nat
  BY MapBelow
<1>2. PICK i \in 1..Len(rest) : i = Len(t) + 1
  BY <1>1
<1>3. PICK s : s = Slot(t, e)
  OBVIOUS
<1>4. s \in Paths /\ Len(s) = i /\ s[i] = e
  BY <1>1, <1>2, <1>3, SlotFacts
<1>5. CASE s \in Maps(rest)
  <2>1. PICK n \in 0..(Len(rest) - 1) : s = Prefix(rest, n)
    BY <1>5 DEF Maps
  <2>2. n \in 0..Len(rest)
    BY <1>1
  <2>3. Len(s) = n /\ \A k \in 1..n : s[k] = rest[k]
    BY <2>1, <2>2, PrefixFacts
  <2>4. s[i] = rest[i]
    BY <1>2, <1>4, <2>3
  <2> QED BY <1>4, <2>4
<1>6. CASE s \notin Maps(rest)
  <2>1. PICK q \in DOMAIN sub.at : s = Join(rest, q)
    BY <1>3, <1>6 DEF Nodes
  <2>2. \A k \in 1..Len(rest) : s[k] = rest[k]
    BY <2>1, JoinFacts DEF Join
  <2> QED BY <1>4, <2>2
<1> QED BY <1>5, <1>6

LEMMA SubSlot ==
    ASSUME NEW rest \in Paths, NEW sub, DOMAIN sub.at \subseteq Paths, NEW q \in Paths, NEW e \in Steps
    PROVE  Slot(Join(rest, q), e) \in Nodes(rest, sub) <=> Slot(q, e) \in DOMAIN sub.at
<1>1. PICK s : s = Slot(q, e)
  OBVIOUS
<1>2. s \in Paths
  BY <1>1, SlotFacts
<1>3. Slot(Join(rest, q), e) = Join(rest, s)
  BY <1>1, SlotOfJoin
<1>4. Join(rest, s) \notin Maps(rest)
  <2>1. Len(Join(rest, s)) = Len(rest) + Len(s) /\ Len(rest) \in Nat /\ Len(s) \in Nat
    BY <1>2, JoinFacts, PathFacts DEF Join
  <2>2. ~(Len(Join(rest, s)) < Len(rest))
    BY <2>1
  <2> QED BY <2>2, MapBelow
<1>5. ASSUME NEW r \in DOMAIN sub.at, Join(rest, s) = Join(rest, r) PROVE s \in DOMAIN sub.at
  BY <1>2, <1>5, JoinOnce
<1>6. Join(rest, s) \in Nodes(rest, sub) <=> s \in DOMAIN sub.at
  BY <1>4, <1>5 DEF Nodes
<1> QED BY <1>1, <1>3, <1>6

(* setPath on a sound copy.                                                *)
Assigned(out, doc, done, path, x, el, chain) ==
    /\ Sound(doc, done) /\ path \in AttributePaths /\ path \notin done
    /\ SetGives(out, doc, path, x, el, chain) /\ out # Cyclic
    /\ \E rest, sub : Part(sub, doc) /\ SetOf(doc, path, x, el, chain, rest, sub)

NewIn(chain, t, path, x, el) == chain.ref[t] = Made(path, CopyAt(x, el, t))

LEMMA ChainPart ==
    ASSUME NEW doc, NEW path, NEW x, NEW el, NEW chain, NEW rest, NEW sub,
           Part(sub, doc), SetOf(doc, path, x, el, chain, rest, sub), NEW t \in DOMAIN chain.at
    PROVE  /\ NodeOK(chain.at[t]) /\ Shaped(chain.at, t)
           /\ NewIn(chain, t, path, x, el) \/ FoundIn(chain, t, doc)
<1>1. /\ rest \in Paths /\ DOMAIN chain.at = Nodes(rest, sub) /\ t \in Nodes(rest, sub)
      /\ ChainNode(chain, path, x, el, rest, sub, t)
      /\ rest = Here \/ \A i \in 1..Len(rest) : ~rest[i].isIdx
  BY DEF SetOf
<1>2. /\ DOMAIN sub.at \subseteq Paths /\ NodesOK(sub)
      /\ \A q \in DOMAIN sub.at :
            Shaped(sub.at, q) /\ ((q = Here /\ sub.ref[q] = Anonymous) \/ FoundIn(sub, q, doc))
  BY DEF Part, Branch, Tree, IsTree
<1>3. CASE /\ t \in Maps(rest)
           /\ chain.at[t] = [type |-> "M"] /\ chain.ref[t] = Made(path, CopyAt(x, el, t))
  <2>1. chain.at[t] \in Node /\ chain.at[t].type = "M"
    BY <1>3 DEF Node
  <2>2. NodeOK(chain.at[t])
    BY <2>1 DEF NodeOK, MembersDiffer, Sets
  <2>3. rest # Here
    <3>1. Len(t) < Len(rest) /\ Len(rest) \in Nat /\ Len(t) \in Nat
      BY <1>1, <1>3, MapBelow
    <3>2. Len(rest) # 0
      BY <3>1
    <3> QED BY <1>1, <3>2, PathFacts
  <2>4. ASSUME NEW e \in Steps, Slot(t, e) \in DOMAIN chain.at PROVE ~e.isIdx
    <3>1. \E i \in 1..Len(rest) : e = rest[i]
      BY <1>1, <1>2, <1>3, <2>4, MapSlot
    <3> QED BY <1>1, <2>3, <3>1
  <2>5. Shaped(chain.at, t)
    BY <2>1, <2>4 DEF Shaped
  <2> QED BY <1>3, <2>2, <2>5 DEF NewIn
<1>4. CASE \E q \in DOMAIN sub.at :
              /\ t = Join(rest, q) /\ chain.at[t] = sub.at[q]
              /\ chain.ref[t] = IF sub.ref[q] = Anonymous THEN Made(path, CopyAt(x, el, t)) ELSE sub.ref[q]
  <2>1. PICK q \in DOMAIN sub.at :
           /\ t = Join(rest, q) /\ chain.at[t] = sub.at[q]
           /\ chain.ref[t] = IF sub.ref[q] = Anonymous THEN Made(path, CopyAt(x, el, t)) ELSE sub.ref[q]
    BY <1>4
  <2>2. q \in Paths
    BY <1>2
  <2>3. \A e \in Steps : Slot(t, e) \in DOMAIN chain.at <=> Slot(q, e) \in DOMAIN sub.at
    BY <1>1, <1>2, <2>1, <2>2, SubSlot
  <2>4. Shaped(chain.at, t)
    BY <1>2, <2>1, <2>3, StepBefore DEF Shaped
  <2>5. NodeOK(chain.at[t])
    BY <1>2, <2>1 DEF NodesOK
  <2>6. CASE sub.ref[q] = Anonymous
    BY <2>1, <2>4, <2>5, <2>6 DEF NewIn
  <2>7. CASE sub.ref[q] # Anonymous
    <3>1. PICK p \in DOMAIN doc.at : p # Here /\ Alike(sub, q, doc, p)
      BY <1>2, <2>7 DEF FoundIn
    <3>2. Alike(chain, t, sub, q)
      BY <2>1, <2>3, <2>7 DEF Alike
    <3>3. Alike(chain, t, doc, p)
      BY <3>1, <3>2, AlikeOn
    <3> QED BY <2>4, <2>5, <3>1, <3>3 DEF FoundIn
  <2> QED BY <2>6, <2>7
<1> QED BY <1>1, <1>3, <1>4 DEF ChainNode

(* What is in the containers that Put leaves and in those that it copies.  *)
Remains(out, doc, x, el, r) ==
    /\ r \in DOMAIN doc.at /\ out.at[r] = doc.at[r] /\ out.ref[r] = doc.ref[r]
    /\ \A e \in Steps :
          Slot(r, e) \in DOMAIN out.at <=> (r \in Places(doc, x) /\ e = el) \/ Slot(r, e) \in DOMAIN doc.at

LEMMA KeptSlot ==
    ASSUME NEW doc, Tree(doc), NEW x, NEW el \in Steps, NEW p \in Kept(doc, x, el), NEW e \in Steps,
           Slot(p, e) \in DOMAIN doc.at
    PROVE  Slot(p, e) \in Kept(doc, x, el) <=> ~(p \in Places(doc, x) /\ e = el)
<1>1. /\ Places(doc, x) \subseteq DOMAIN doc.at /\ DOMAIN doc.at \subseteq Paths
      /\ \A q \in DOMAIN doc.at :
            q \in Kept(doc, x, el) <=>
              ~\E y \in Places(doc, x) : Len(y) < Len(q) /\ IsPrefix(y, q) /\ q[Len(y) + 1] = el
  BY KeptFacts DEF Tree, IsTree
<1>2. p \in DOMAIN doc.at /\ p \in Paths
  BY <1>1 DEF Kept
<1>3. PICK s \in DOMAIN doc.at : s = Slot(p, e)
  OBVIOUS
<1>4. /\ s \in Paths /\ Len(s) = Len(p) + 1 /\ s[Len(p) + 1] = e /\ Len(p) \in Nat
      /\ \A i \in 1..Len(p) : s[i] = p[i]
  BY <1>2, <1>3, SlotFacts, PathFacts
<1>5. ASSUME NEW y \in Places(doc, x), Len(y) < Len(s), IsPrefix(y, s), s[Len(y) + 1] = el
      PROVE  p \in Places(doc, x) /\ e = el
  <2>1. y \in Paths /\ Len(y) \in Nat
    BY <1>1, PathFacts
  <2>2. Len(y) <= Len(p) /\ \A i \in 1..Len(y) : s[i] = y[i]
    BY <1>4, <1>5, <2>1, LeadsPointwise
  <2>3. CASE Len(y) = Len(p)
    <3>1. y = p
      BY <1>2, <1>4, <2>1, <2>2, <2>3, SamePath
    <3> QED BY <1>4, <1>5, <2>3, <3>1
  <2>4. CASE Len(y) # Len(p)
    <3>1. Len(y) < Len(p) /\ Len(y) + 1 \in 1..Len(p) /\ \A i \in 1..Len(y) : i \in 1..Len(p)
      BY <1>4, <2>1, <2>2, <2>4
    <3>2. IsPrefix(y, p)
      BY <1>2, <1>4, <2>1, <2>2, <3>1, LeadsPointwise
    <3>3. p[Len(y) + 1] = el
      BY <1>4, <1>5, <3>1
    <3> QED BY <1>1, <1>2, <3>1, <3>2, <3>3
  <2> QED BY <2>3, <2>4
<1>6. ASSUME p \in Places(doc, x), e = el
      PROVE  \E y \in Places(doc, x) : Len(y) < Len(s) /\ IsPrefix(y, s) /\ s[Len(y) + 1] = el
  <2>1. Len(p) < Len(s)
    BY <1>4
  <2>2. IsPrefix(p, s)
    BY <1>2, <1>4, <2>1, LeadsPointwise
  <2> QED BY <1>4, <1>6, <2>1, <2>2
<1> QED BY <1>1, <1>3, <1>5, <1>6

CopyPlace(out, doc, x, el, chain, r, y, t) ==
    /\ y \in Places(doc, x) \intersect Kept(doc, x, el) /\ t \in DOMAIN chain.at
    /\ r = CopyAt(y, el, t) /\ out.at[r] = chain.at[t] /\ out.ref[r] = chain.ref[t]

LEMMA PutRemains ==
    ASSUME NEW doc, Tree(doc), NEW x, NEW el \in Steps, NEW chain, Tree(chain), NEW out,
           PutGives(out, doc, x, el, chain), NEW p \in Kept(doc, x, el)
    PROVE  Remains(out, doc, x, el, p)
<1>1. /\ DOMAIN doc.at \subseteq Paths /\ IsTree(Kept(doc, x, el))
      /\ Here \in DOMAIN chain.at /\ DOMAIN chain.at \subseteq Paths /\ IsTree(DOMAIN chain.at)
  BY KeptTree DEF Tree, IsTree
<1>2. /\ p \in DOMAIN doc.at /\ p \in Paths
      /\ Places(doc, x) \subseteq DOMAIN doc.at
  BY <1>1, KeptFacts DEF Kept
<1>3. p \notin Copies(doc, x, el, chain)
  BY CopiesApart
<1>4. out.at[p] = doc.at[p] /\ out.ref[p] = doc.ref[p]
  BY <1>3 DEF PutGives
<1>5. ASSUME NEW e \in Steps
      PROVE  Slot(p, e) \in DOMAIN out.at <=> (p \in Places(doc, x) /\ e = el) \/ Slot(p, e) \in DOMAIN doc.at
  <2>1. PICK s : s = Slot(p, e)
    OBVIOUS
  <2>2. s \in Paths
    BY <1>2, <2>1, SlotFacts
  <2>3. s \in DOMAIN out.at <=> s \in Kept(doc, x, el) \/ s \in Copies(doc, x, el, chain)
    BY DEF PutGives
  <2>4. ASSUME p \in Places(doc, x), e = el PROVE s \in Copies(doc, x, el, chain)
    <3>1. CopyAt(p, el, Here) = s
      BY <2>1, <2>2, <2>4, JoinHere DEF CopyAt
    <3>2. p \in Places(doc, x) \intersect Kept(doc, x, el)
      BY <2>4
    <3> QED BY <1>1, <3>1, <3>2, InCopies
  <2>5. ASSUME s \in DOMAIN doc.at, ~(p \in Places(doc, x) /\ e = el) PROVE s \in Kept(doc, x, el)
    BY <2>1, <2>5, KeptSlot
  <2>6. s \in Kept(doc, x, el) => s \in DOMAIN doc.at
    BY DEF Kept
  <2>7. ASSUME s \in Copies(doc, x, el, chain) PROVE p \in Places(doc, x) /\ e = el
    <3>1. PICK y \in Places(doc, x) \intersect Kept(doc, x, el) : \E t \in DOMAIN chain.at : s = CopyAt(y, el, t)
      BY <2>7, InCopies
    <3>2. PICK t \in DOMAIN chain.at : s = CopyAt(y, el, t)
      BY <3>1
    <3>3. y \in Paths /\ t \in Paths /\ Slot(y, el) \in Paths
      BY <1>1, <1>2, SlotFacts
    <3>4. CASE t = Here
      <4>1. Slot(p, e) = Slot(y, el)
        BY <2>1, <3>2, <3>3, <3>4, JoinHere DEF CopyAt
      <4> QED BY <1>2, <3>3, <4>1, SlotOnce
    <3>5. CASE t # Here
      <4>1. PICK w : w = Slot(y, el)
        OBVIOUS
      <4>2. s = w \o t /\ w \in Paths
        BY <3>2, <3>3, <4>1 DEF CopyAt, Join
      <4>3. Front(w \o t) = w \o Front(t)
        BY <3>3, <3>5, <4>2, FrontOfJoin
      <4>4. Front(s) = p
        BY <1>2, <2>1, SlotFacts
      <4>5. Front(t) \in DOMAIN chain.at
        BY <1>1, <3>5 DEF IsTree
      <4>6. p = CopyAt(y, el, Front(t))
        BY <4>1, <4>2, <4>3, <4>4 DEF CopyAt, Join
      <4>7. p \in Copies(doc, x, el, chain)
        BY <4>5, <4>6, InCopies
      <4> QED BY <1>3, <4>7
    <3> QED BY <3>4, <3>5
  <2> QED BY <2>1, <2>3, <2>4, <2>5, <2>6, <2>7
<1> QED BY <1>2, <1>4, <1>5 DEF Remains

LEMMA PutCopies ==
    ASSUME NEW doc, Tree(doc), NEW x, NEW el \in Steps, NEW chain, Tree(chain), NEW out,
           PutGives(out, doc, x, el, chain), NEW r, NEW y, NEW t, CopyPlace(out, doc, x, el, chain, r, y, t)
    PROVE  Alike(out, r, chain, t)
<1>1. /\ DOMAIN doc.at \subseteq Paths /\ IsTree(Kept(doc, x, el))
      /\ DOMAIN chain.at \subseteq Paths /\ Places(doc, x) \subseteq DOMAIN doc.at
  BY KeptTree, KeptFacts DEF Tree, IsTree
<1>2. /\ y \in Places(doc, x) \intersect Kept(doc, x, el) /\ t \in DOMAIN chain.at
      /\ r = CopyAt(y, el, t)
  BY DEF CopyPlace
<1>3. y \in Paths /\ t \in Paths /\ Slot(y, el) \in Paths
  BY <1>1, <1>2, SlotFacts
<1>4. r \in Copies(doc, x, el, chain)
  BY <1>2, InCopies
<1>5. r \in Paths /\ r \notin Kept(doc, x, el)
  BY <1>2, <1>3, <1>4, SlotLeads, CopiesApart
<1>6. ASSUME NEW e \in Steps PROVE Slot(r, e) \in DOMAIN out.at <=> Slot(t, e) \in DOMAIN chain.at
  <2>1. PICK s : s = Slot(r, e)
    OBVIOUS
  <2>2. PICK u : u = Slot(t, e)
    OBVIOUS
  <2>3. s \in Paths /\ u \in Paths
    BY <1>3, <1>5, <2>1, <2>2, SlotFacts
  <2>4. s = CopyAt(y, el, u)
    BY <1>2, <1>3, <2>1, <2>2, SlotOfJoin DEF CopyAt
  <2>5. s \notin Kept(doc, x, el)
    BY <1>1, <1>5, <2>1, SlotIn
  <2>6. s \in DOMAIN out.at <=> s \in Copies(doc, x, el, chain)
    BY <2>5 DEF PutGives
  <2>7. u \in DOMAIN chain.at => s \in Copies(doc, x, el, chain)
    BY <1>2, <2>4, InCopies
  <2>8. ASSUME s \in Copies(doc, x, el, chain) PROVE u \in DOMAIN chain.at
    <3>1. PICK z \in Places(doc, x) \intersect Kept(doc, x, el) : \E v \in DOMAIN chain.at : s = CopyAt(z, el, v)
      BY <2>8, InCopies
    <3>2. PICK v \in DOMAIN chain.at : s = CopyAt(z, el, v)
      BY <3>1
    <3>3. z \in Paths /\ v \in Paths
      BY <1>1
    <3>4. IsPrefix(Append(y, el), s)
      BY <1>3, <2>3, <2>4, SlotLeads
    <3>5. IsPrefix(Append(z, el), s)
      BY <3>2, <3>3, SlotLeads
    <3>6. Len(y) <= Len(z) \/ Len(z) <= Len(y)
      BY <1>3, <3>3, PathFacts
    <3>7. y = z
      <4>1. CASE Len(y) <= Len(z)
        BY <1>2, <2>3, <3>4, <3>5, <4>1, SpotAlone
      <4>2. CASE Len(z) <= Len(y)
        BY <1>2, <2>3, <3>4, <3>5, <4>2, SpotAlone
      <4> QED BY <3>6, <4>1, <4>2
    <3>8. Join(Slot(y, el), u) = Join(Slot(y, el), v)
      BY <2>4, <3>2, <3>7 DEF CopyAt
    <3>9. u = v
      BY <1>3, <2>3, <3>3, <3>8, JoinOnce
    <3> QED BY <3>9
  <2> QED BY <2>1, <2>2, <2>6, <2>7, <2>8
<1> QED BY <1>6 DEF CopyPlace, Alike

LEMMA NotInItself ==
    ASSUME NEW doc, NEW x, NEW el, NEW chain, Put(doc, x, el, chain) # Cyclic
    PROVE  \A q \in DOMAIN chain.at : chain.ref[q] # doc.ref[x]
BY DEF Put

(* An assignment: containers stay as they are, or are copies of those in   *)
(* what is assigned.                                                       *)
Changes(out, doc, done, path, x, el, chain) ==
    /\ Sound(doc, done) /\ path \notin done /\ x \in DOMAIN doc.at /\ el \in Steps
    /\ \A t \in DOMAIN chain.at :
          /\ NodeOK(chain.at[t]) /\ Shaped(chain.at, t) /\ chain.ref[t] # doc.ref[x]
          /\ NewIn(chain, t, path, x, el) \/ FoundIn(chain, t, doc)
    /\ DOMAIN chain.at \subseteq Paths /\ x \in Paths
    /\ \/ Slot(x, el) \in DOMAIN doc.at
       \/ doc.at[x].type = "M" /\ ~el.isIdx
    /\ \A r \in DOMAIN out.at :
          Remains(out, doc, x, el, r) \/ \E t \in DOMAIN chain.at : Alike(out, r, chain, t)

LEMMA AssignedChanges ==
    ASSUME NEW out, NEW doc, NEW done, NEW path, NEW x, NEW el, NEW chain,
           Assigned(out, doc, done, path, x, el, chain)
    PROVE  Changes(out, doc, done, path, x, el, chain)
<1>1. /\ Sound(doc, done) /\ path \notin done /\ x \in DOMAIN doc.at /\ el \in Steps
      /\ Branch(chain) /\ out = Put(doc, x, el, chain) /\ out # Cyclic
  BY DEF Assigned, SetGives
<1>2. Tree(doc) /\ Tree(chain) /\ DOMAIN chain.at \subseteq Paths /\ x \in Paths
  BY <1>1 DEF Sound, Rooted, Branch, Tree, IsTree
<1>3. PICK rest, sub : Part(sub, doc) /\ SetOf(doc, path, x, el, chain, rest, sub)
  BY DEF Assigned
<1>4. ASSUME NEW t \in DOMAIN chain.at
      PROVE  /\ NodeOK(chain.at[t]) /\ Shaped(chain.at, t) /\ chain.ref[t] # doc.ref[x]
             /\ NewIn(chain, t, path, x, el) \/ FoundIn(chain, t, doc)
  BY <1>1, <1>3, ChainPart, NotInItself
<1>5. \/ Slot(x, el) \in DOMAIN doc.at
      \/ doc.at[x].type = "M" /\ ~el.isIdx
  <2>1. rest = Here => path = Slot(x, el)
    BY <1>1, <1>2, <1>3, SlotFacts, JoinHere DEF SetOf
  <2> QED BY <1>3, <2>1 DEF SetOf
<1>6. PutGives(out, doc, x, el, chain)
  BY <1>1, <1>2, PutFacts
<1>7. ASSUME NEW r \in DOMAIN out.at
      PROVE  Remains(out, doc, x, el, r) \/ \E t \in DOMAIN chain.at : Alike(out, r, chain, t)
  <2>1. CASE r \in Kept(doc, x, el)
    BY <1>1, <1>2, <1>6, <2>1, PutRemains
  <2>2. CASE r \notin Kept(doc, x, el)
    <3>1. r \in Copies(doc, x, el, chain)
      BY <1>6, <2>2 DEF PutGives
    <3>2. PICK y \in Places(doc, x) \intersect Kept(doc, x, el) : \E t \in DOMAIN chain.at :
             r = CopyAt(y, el, t) /\ out.at[r] = chain.at[t] /\ out.ref[r] = chain.ref[t]
      BY <1>6, <3>1 DEF PutGives
    <3>3. PICK t \in DOMAIN chain.at :
             r = CopyAt(y, el, t) /\ out.at[r] = chain.at[t] /\ out.ref[r] = chain.ref[t]
      BY <3>2
    <3>4. CopyPlace(out, doc, x, el, chain, r, y, t)
      BY <3>3 DEF CopyPlace
    <3> QED BY <1>1, <1>2, <1>6, <3>4, PutCopies
  <2> QED BY <2>1, <2>2
<1> QED BY <1>1, <1>2, <1>4, <1>5, <1>7 DEF Changes

LEMMA ChangesShape ==
    ASSUME NEW out, NEW doc, NEW done, NEW path, NEW x, NEW el, NEW chain,
           Changes(out, doc, done, path, x, el, chain), NEW r \in DOMAIN out.at
    PROVE  /\ NodeOK(out.at[r]) /\ (r # Here => Shaped(out.at, r))
           /\ out.ref[r].made => out.ref[r].by \in done \union {path}
<1>1. /\ Heap(doc) /\ NodesOK(doc) /\ MadeBy(doc, done) /\ el \in Steps /\ x \in DOMAIN doc.at
      /\ \A p \in DOMAIN doc.at : p # Here => Shaped(doc.at, p)
  BY DEF Changes, Sound
<1>2. CASE Remains(out, doc, x, el, r)
  <2>1. /\ r \in DOMAIN doc.at /\ out.at[r] = doc.at[r] /\ out.ref[r] = doc.ref[r]
        /\ \A e \in Steps :
              Slot(r, e) \in DOMAIN out.at <=> (r \in Places(doc, x) /\ e = el) \/ Slot(r, e) \in DOMAIN doc.at
    BY <1>2 DEF Remains
  <2>2. NodeOK(out.at[r]) /\ (out.ref[r].made => out.ref[r].by \in done \union {path})
    BY <1>1, <2>1 DEF NodesOK, MadeBy
  <2>3. ASSUME r # Here, r \in Places(doc, x)
        PROVE  Slot(r, el) \in DOMAIN doc.at \/ (doc.at[r].type = "M" /\ ~el.isIdx)
    <3>1. Alike(doc, r, doc, x)
      BY <1>1, <2>1, <2>3 DEF Heap, Places
    <3>2. doc.at[r] = doc.at[x] /\ (Slot(r, el) \in DOMAIN doc.at <=> Slot(x, el) \in DOMAIN doc.at)
      BY <1>1, <3>1 DEF Alike
    <3> QED BY <3>2 DEF Changes
  <2>4. ASSUME r # Here, NEW e \in Steps, Slot(r, e) \in DOMAIN out.at
        PROVE  /\ out.at[r].type = IF e.isIdx THEN "L" ELSE "M"
               /\ e.isIdx /\ e.index > 0 => Slot(r, Index(e.index - 1)) \in DOMAIN out.at
    <3>1. Shaped(doc.at, r)
      BY <1>1, <2>1, <2>4
    <3>2. CASE Slot(r, e) \in DOMAIN doc.at
      <4>1. /\ doc.at[r].type = IF e.isIdx THEN "L" ELSE "M"
            /\ e.isIdx /\ e.index > 0 => Slot(r, Index(e.index - 1)) \in DOMAIN doc.at
        BY <3>1, <3>2 DEF Shaped
      <4> QED BY <2>1, <4>1, StepBefore
    <3>3. CASE Slot(r, e) \notin DOMAIN doc.at
      <4>1. r \in Places(doc, x) /\ e = el
        BY <2>1, <2>4, <3>3
      <4>2. doc.at[r].type = "M" /\ ~e.isIdx
        BY <2>3, <2>4, <3>3, <4>1
      <4> QED BY <2>1, <4>2
    <3> QED BY <3>2, <3>3
  <2> QED BY <2>2, <2>4 DEF Shaped
<1>3. CASE \E t \in DOMAIN chain.at : Alike(out, r, chain, t)
  <2>1. PICK t \in DOMAIN chain.at : Alike(out, r, chain, t)
    BY <1>3
  <2>2. /\ NodeOK(chain.at[t]) /\ Shaped(chain.at, t)
        /\ NewIn(chain, t, path, x, el) \/ FoundIn(chain, t, doc)
    BY DEF Changes
  <2>3. out.at[r] = chain.at[t] /\ out.ref[r] = chain.ref[t]
    BY <2>1 DEF Alike
  <2>4. Shaped(out.at, r)
    BY <2>1, <2>2, AlikeShaped
  <2>5. CASE NewIn(chain, t, path, x, el)
    <3>1. out.ref[r].by = path
      BY <2>3, <2>5 DEF NewIn, Made
    <3> QED BY <2>2, <2>3, <2>4, <3>1
  <2>6. CASE FoundIn(chain, t, doc)
    <3>1. PICK p \in DOMAIN doc.at : Alike(chain, t, doc, p)
      BY <2>6 DEF FoundIn
    <3>2. out.ref[r] = doc.ref[p]
      BY <2>3, <3>1 DEF Alike
    <3> QED BY <1>1, <2>2, <2>3, <2>4, <3>2 DEF MadeBy
  <2> QED BY <2>2, <2>5, <2>6
<1> QED BY <1>2, <1>3 DEF Changes

LEMMA RemainsAlike ==
    ASSUME NEW out, NEW doc, NEW x, NEW el, NEW r, Remains(out, doc, x, el, r), r \notin Places(doc, x)
    PROVE  Alike(out, r, doc, r)
BY DEF Remains, Alike

LEMMA NewOrOld ==
    ASSUME NEW out, NEW doc, NEW done, NEW path, NEW x, NEW el, NEW chain,
           Changes(out, doc, done, path, x, el, chain),
           NEW t \in DOMAIN chain.at, NEW p \in DOMAIN doc.at, chain.ref[t] = doc.ref[p]
    PROVE  Alike(chain, t, doc, p) /\ p \notin Places(doc, x)
<1>1. /\ Heap(doc) /\ MadeBy(doc, done) /\ path \notin done
      /\ chain.ref[t] # doc.ref[x] /\ (NewIn(chain, t, path, x, el) \/ FoundIn(chain, t, doc))
  BY DEF Changes, Sound
<1>2. ~NewIn(chain, t, path, x, el)
  <2> SUFFICES ASSUME NewIn(chain, t, path, x, el) PROVE FALSE
    OBVIOUS
  <2>1. doc.ref[p] = Made(path, CopyAt(x, el, t))
    BY DEF NewIn
  <2>2. doc.ref[p].made /\ doc.ref[p].by = path
    BY <2>1 DEF Made
  <2> QED BY <1>1, <2>2 DEF MadeBy
<1>3. PICK r \in DOMAIN doc.at : Alike(chain, t, doc, r)
  BY <1>1, <1>2 DEF FoundIn
<1>4. doc.ref[r] = doc.ref[p]
  BY <1>3 DEF Alike
<1>5. Alike(doc, r, doc, p)
  BY <1>1, <1>4 DEF Heap
<1>6. Alike(chain, t, doc, p)
  BY <1>3, <1>5, AlikeOn
<1> QED BY <1>1, <1>6 DEF Places

LEMMA ChangesHeap ==
    ASSUME NEW out, NEW doc, NEW done, NEW path, NEW x, NEW el, NEW chain,
           Changes(out, doc, done, path, x, el, chain)
    PROVE  Heap(out)
<1>1. Heap(doc) /\ el \in Steps /\ x \in Paths /\ DOMAIN chain.at \subseteq Paths
  BY DEF Changes, Sound
<1>2. ASSUME NEW r, Remains(out, doc, x, el, r), NEW s, NEW t \in DOMAIN chain.at, Alike(out, s, chain, t),
             out.ref[r] = out.ref[s]
      PROVE  Alike(out, r, out, s)
  <2>1. r \in DOMAIN doc.at /\ out.ref[r] = doc.ref[r] /\ out.ref[s] = chain.ref[t]
    BY <1>2 DEF Remains, Alike
  <2>2. Alike(chain, t, doc, r) /\ r \notin Places(doc, x)
    BY <1>2, <2>1, NewOrOld
  <2>3. Alike(out, r, doc, r)
    BY <1>2, <2>2, RemainsAlike
  <2>4. Alike(out, s, doc, r)
    BY <1>2, <2>2, AlikeOn
  <2>5. Alike(doc, r, out, s)
    BY <2>4, AlikeBack
  <2> QED BY <2>3, <2>5, AlikeOn
<1>3. ASSUME NEW r, Remains(out, doc, x, el, r), NEW s, Remains(out, doc, x, el, s),
             out.ref[r] = out.ref[s]
      PROVE  Alike(out, r, out, s)
  <2>1. r \in DOMAIN doc.at /\ s \in DOMAIN doc.at /\ doc.ref[r] = doc.ref[s]
    BY <1>3 DEF Remains
  <2>2. Alike(doc, r, doc, s) /\ (r \in Places(doc, x) <=> s \in Places(doc, x))
    BY <1>1, <2>1 DEF Heap, Places
  <2> QED BY <1>3, <2>2 DEF Remains, Alike
<1>4. ASSUME NEW t \in DOMAIN chain.at, NEW u \in DOMAIN chain.at, chain.ref[t] = chain.ref[u]
      PROVE  Alike(chain, t, chain, u)
  <2>1. CASE NewIn(chain, t, path, x, el) /\ NewIn(chain, u, path, x, el)
    <3>1. Made(path, CopyAt(x, el, t)).place = Made(path, CopyAt(x, el, u)).place
      BY <1>4, <2>1 DEF NewIn
    <3>2. CopyAt(x, el, t) = CopyAt(x, el, u)
      BY <3>1 DEF Made
    <3>3. Slot(x, el) \in Paths /\ t \in Paths /\ u \in Paths
      BY <1>1, SlotFacts
    <3>4. t = u
      BY <3>2, <3>3, JoinOnce DEF CopyAt
    <3> QED BY <3>4 DEF Alike
  <2>2. CASE FoundIn(chain, t, doc)
    <3>1. PICK p \in DOMAIN doc.at : Alike(chain, t, doc, p)
      BY <2>2 DEF FoundIn
    <3>2. chain.ref[u] = doc.ref[p]
      BY <1>4, <3>1 DEF Alike
    <3>3. Alike(chain, u, doc, p)
      BY <3>2, NewOrOld
    <3> QED BY <3>1, <3>3, AlikeBack, AlikeOn
  <2>3. CASE FoundIn(chain, u, doc)
    <3>1. PICK p \in DOMAIN doc.at : Alike(chain, u, doc, p)
      BY <2>3 DEF FoundIn
    <3>2. chain.ref[t] = doc.ref[p]
      BY <1>4, <3>1 DEF Alike
    <3>3. Alike(chain, t, doc, p)
      BY <3>2, NewOrOld
    <3> QED BY <3>1, <3>3, AlikeBack, AlikeOn
  <2> QED BY <2>1, <2>2, <2>3 DEF Changes
<1>5. ASSUME NEW r, NEW s, NEW t \in DOMAIN chain.at, Alike(out, r, chain, t),
             NEW u \in DOMAIN chain.at, Alike(out, s, chain, u), out.ref[r] = out.ref[s]
      PROVE  Alike(out, r, out, s)
  <2>1. chain.ref[t] = chain.ref[u]
    BY <1>5 DEF Alike
  <2>2. Alike(chain, t, chain, u)
    BY <1>4, <2>1
  <2>3. Alike(out, r, chain, u)
    BY <1>5, <2>2, AlikeOn
  <2>4. Alike(chain, u, out, s)
    BY <1>5, AlikeBack
  <2> QED BY <2>3, <2>4, AlikeOn
<1>6. ASSUME NEW r \in DOMAIN out.at, NEW s \in DOMAIN out.at, out.ref[r] = out.ref[s]
      PROVE  Alike(out, r, out, s)
  <2>1. /\ Remains(out, doc, x, el, r) \/ \E t \in DOMAIN chain.at : Alike(out, r, chain, t)
        /\ Remains(out, doc, x, el, s) \/ \E t \in DOMAIN chain.at : Alike(out, s, chain, t)
    BY DEF Changes
  <2>2. CASE Remains(out, doc, x, el, r) /\ Remains(out, doc, x, el, s)
    BY <1>3, <1>6, <2>2
  <2>3. CASE Remains(out, doc, x, el, r) /\ \E t \in DOMAIN chain.at : Alike(out, s, chain, t)
    BY <1>2, <1>6, <2>3
  <2>4. CASE Remains(out, doc, x, el, s) /\ \E t \in DOMAIN chain.at : Alike(out, r, chain, t)
    <3>1. Alike(out, s, out, r)
      BY <1>2, <1>6, <2>4
    <3> QED BY <3>1, AlikeBack
  <2>5. CASE (\E t \in DOMAIN chain.at : Alike(out, r, chain, t))
             /\ \E t \in DOMAIN chain.at : Alike(out, s, chain, t)
    BY <1>5, <1>6, <2>5
  <2> QED BY <2>1, <2>2, <2>3, <2>4, <2>5
<1> QED BY <1>6 DEF Heap

LEMMA KeyDepth ==
    ASSUME NEW p \in DOMAIN KeyAttributes, p # Here
    PROVE  p \in Paths /\ Len(p) = 1 /\ p[1].name \in KeyNames
<1>1. /\ IsTree(DOMAIN KeyAttributes) /\ KeyAttributes[Here].type = "M"
      /\ \A q \in DOMAIN KeyAttributes \ {Here} :
            /\ KeyAttributes[Front(q)].type = IF Last(q).isIdx THEN "L" ELSE "M"
            /\ KeyAttributes[q].type \in {"S", "N", "B"}
  BY KeyAttributesAssumption DEF KeyAttributesAssumption, IsValue
<1>2. Front(p) \in DOMAIN KeyAttributes /\ p \in Paths
  BY <1>1 DEF IsTree
<1>3. Front(p) = Here
  <2>1. KeyAttributes[Front(p)].type \in {"L", "M"}
    BY <1>1
  <2> QED BY <1>1, <1>2, <2>1
<1>4. Len(p) \in Nat /\ Len(p) - 1 = 0
  BY <1>2, <1>3, FrontFacts, PathFacts, HereHas
<1> QED BY <1>2, <1>4, InKey

LEMMA PutSound ==
    ASSUME NEW out, NEW doc, NEW done, NEW path, NEW x, NEW el, NEW chain,
           Assigned(out, doc, done, path, x, el, chain), path[1].name \notin KeyNames
    PROVE  Sound(out, done \union {path})
<1>1. /\ Rooted(doc) /\ Tree(doc) /\ Sole(doc) /\ KeyKept(doc) /\ Here \notin done
      /\ path \in AttributePaths /\ path # Here
  BY DEF Assigned, Sound, Rooted, AttributePaths, Here
<1>2. /\ x \in DOMAIN doc.at /\ x \in Paths /\ el \in Steps /\ IsPrefix(Append(x, el), path)
      /\ Branch(chain) /\ Tree(chain) /\ out = Put(doc, x, el, chain) /\ out # Cyclic
  BY <1>1 DEF Assigned, SetGives, Tree, IsTree, Branch
<1>3. x = Here => el = path[1] /\ ~el.isIdx
  BY <1>1, <1>2, TopName
<1>4. Rooted(out)
  BY <1>1, <1>2, <1>3, PutRooted
<1>5. Changes(out, doc, done, path, x, el, chain)
  BY AssignedChanges
<1>6. Heap(out)
  BY <1>5, ChangesHeap
<1>7. \A r \in DOMAIN out.at :
        /\ NodeOK(out.at[r]) /\ (r # Here => Shaped(out.at, r))
        /\ out.ref[r].made => out.ref[r].by \in done \union {path}
  BY <1>5, ChangesShape
<1>8. PutGives(out, doc, x, el, chain)
  BY <1>1, <1>2, PutFacts
<1>9. ASSUME NEW p \in DOMAIN KeyAttributes
      PROVE  p \in DOMAIN out.at /\ out.at[p] = KeyAttributes[p]
  <2>1. p \in DOMAIN doc.at /\ doc.at[p] = KeyAttributes[p]
    BY <1>1 DEF KeyKept
  <2>2. p \in Kept(doc, x, el)
    <3>1. CASE p = Here
      BY <1>1, <1>2, <3>1, HereKept
    <3>2. CASE p # Here
      <4>1. Len(p) = 1 /\ p[1].name \in KeyNames
        BY <3>2, KeyDepth
      <4>2. x = Here => p[1] # el
        BY <1>3, <4>1
      <4> QED BY <1>1, <1>2, <2>1, <4>1, <4>2, TopKept
    <3> QED BY <3>1, <3>2
  <2>3. p \notin Copies(doc, x, el, chain)
    BY <1>1, <1>2, <2>2, CopiesApart
  <2> QED BY <1>8, <2>1, <2>2, <2>3 DEF PutGives
<1>10. KeyKept(out)
  BY <1>9 DEF KeyKept
<1>11. NodesOK(out) /\ MadeBy(out, done \union {path})
  BY <1>7 DEF NodesOK, MadeBy
<1> QED BY <1>1, <1>4, <1>6, <1>7, <1>10, <1>11 DEF Sound

-----------------------------------------------------------------------------
(* Cut                                                                     *)

(* The step after q that e becomes, when el is removed from the container  *)
(* found at the places.                                                    *)
Lowered(places, q, el, e) ==
    IF q \in places /\ el.isIdx /\ e.isIdx /\ e.index > el.index THEN Index(e.index - 1) ELSE e

LEMMA LoweredFacts ==
    ASSUME NEW places, NEW q, NEW el \in Steps, NEW e \in Steps
    PROVE  /\ Lowered(places, q, el, e) \in Steps
           /\ Lowered(places, q, el, e).isIdx <=> e.isIdx
           /\ (q \notin places \/ ~el.isIdx) => Lowered(places, q, el, e) = e
<1>1. e.index \in Nat /\ el.index \in Nat
  BY StepIndex
<1>2. CASE q \in places /\ el.isIdx /\ e.isIdx /\ e.index > el.index
  <2>1. Lowered(places, q, el, e) = Index(e.index - 1)
    BY <1>2 DEF Lowered
  <2>2. e.index - 1 \in Nat
    BY <1>1, <1>2
  <2> QED BY <1>2, <2>1, <2>2, IndexStep, IndexIs
<1>3. CASE ~(q \in places /\ el.isIdx /\ e.isIdx /\ e.index > el.index)
  <2>1. Lowered(places, q, el, e) = e
    BY <1>3 DEF Lowered
  <2> QED BY <2>1
<1> QED BY <1>2, <1>3

LEMMA LoweredOnce ==
    ASSUME NEW places, NEW q, NEW el \in Steps, NEW d \in Steps, NEW e \in Steps,
           q \in places => d # el /\ e # el, Lowered(places, q, el, d) = Lowered(places, q, el, e)
    PROVE  d = e
<1> DEFINE falls(s) == q \in places /\ el.isIdx /\ s.isIdx /\ s.index > el.index
<1>1. \A s \in Steps : s.index \in Nat /\ (s.isIdx => s = Index(s.index))
  BY StepIndex, IndexesAre
<1>2. ASSUME NEW s \in Steps, NEW t \in Steps, falls(s), ~falls(t), q \in places => t # el,
             Lowered(places, q, el, s) = Lowered(places, q, el, t)
      PROVE  FALSE
  <2>1. t = Index(s.index - 1)
    BY <1>2 DEF Lowered
  <2>2. t.isIdx /\ t.index = s.index - 1
    BY <2>1, IndexIs
  <2>3. t.index = el.index
    BY <1>1, <1>2, <2>2
  <2>4. t = el
    BY <1>1, <1>2, <2>2, <2>3
  <2> QED BY <1>2, <2>4
<1>3. CASE falls(d) /\ falls(e)
  <2>1. Index(d.index - 1) = Index(e.index - 1)
    BY <1>3 DEF Lowered
  <2>2. d.index - 1 = e.index - 1
    BY <2>1, IndexIs
  <2>3. d.index = e.index
    BY <1>1, <2>2
  <2>4. d = Index(d.index) /\ e = Index(e.index)
    BY <1>1, <1>3
  <2> QED BY <2>3, <2>4
<1>4. CASE ~falls(d) /\ ~falls(e)
  BY <1>4 DEF Lowered
<1>5. CASE falls(d) /\ ~falls(e)
  <2> HIDE DEF falls
  <2> QED BY <1>2, <1>5
<1>6. CASE ~falls(d) /\ falls(e)
  <2>1. Lowered(places, q, el, e) = Lowered(places, q, el, d)
    OBVIOUS
  <2> HIDE DEF falls
  <2> QED BY <1>2, <1>6, <2>1
<1> QED BY <1>3, <1>4, <1>5, <1>6

LEMMA MovedSteps ==
    ASSUME NEW places, places \subseteq Paths, NEW el \in Steps, NEW p \in Paths, NEW i \in 1..Len(p)
    PROVE  /\ Prefix(p, i - 1) \in Paths /\ p[i] \in Steps
           /\ Moved(places, el, p)[i] = Lowered(places, Prefix(p, i - 1), el, p[i])
<1>1. i - 1 \in 0..Len(p) /\ p[i] \in Steps
  BY PathFacts
<1>2. Moved(places, el, p)[i] = IF Turns(places, el, p, i) THEN Index(p[i].index - 1) ELSE p[i]
  BY MovedFacts
<1>3. Prefix(p, i - 1) \in Paths
  BY <1>1, PrefixFacts
<1> QED BY <1>1, <1>2, <1>3 DEF Turns, Lowered

LEMMA SamePrefix ==
    ASSUME NEW p \in Paths, NEW q \in Paths, NEW n \in 0..Len(p), n <= Len(q),
           \A i \in 1..n : p[i] = q[i]
    PROVE  Prefix(p, n) = Prefix(q, n)
<1>1. n \in 0..Len(q)
  BY PathFacts
<1>2. PICK a : a = Prefix(p, n)
  OBVIOUS
<1>3. PICK b : b = Prefix(q, n)
  OBVIOUS
<1>4. a \in Paths /\ Len(a) = n /\ \A i \in 1..n : a[i] = p[i]
  BY <1>2, PrefixFacts
<1>5. b \in Paths /\ Len(b) = n /\ \A i \in 1..n : b[i] = q[i]
  BY <1>1, <1>3, PrefixFacts
<1>6. a = b
  BY <1>4, <1>5, SamePath
<1> QED BY <1>2, <1>3, <1>6

LEMMA MovedSlot ==
    ASSUME NEW places, places \subseteq Paths, NEW el \in Steps, NEW q \in Paths, NEW e \in Steps
    PROVE  Moved(places, el, Slot(q, e)) = Slot(Moved(places, el, q), Lowered(places, q, el, e))
<1>1. PICK r : r = Slot(q, e)
  OBVIOUS
<1>2. PICK f : f = Lowered(places, q, el, e)
  OBVIOUS
<1>3. PICK m : m = Moved(places, el, q)
  OBVIOUS
<1>4. r \in Paths /\ Len(r) = Len(q) + 1 /\ (\A i \in 1..Len(q) : r[i] = q[i]) /\ r[Len(q) + 1] = e
      /\ Len(q) \in Nat
  BY <1>1, SlotFacts, PathFacts
<1>5. f \in Steps
  BY <1>2, LoweredFacts
<1>6. m \in Paths /\ Len(m) = Len(q)
  BY <1>3, MovedFacts
<1>7. PICK a : a = Moved(places, el, r)
  OBVIOUS
<1>8. PICK b : b = Slot(m, f)
  OBVIOUS
<1>9. a \in Paths /\ Len(a) = Len(q) + 1
  BY <1>4, <1>7, MovedFacts
<1>10. b \in Paths /\ Len(b) = Len(q) + 1 /\ (\A i \in 1..Len(q) : b[i] = m[i]) /\ b[Len(q) + 1] = f
  <2>1. b \in Paths /\ Len(b) = Len(m) + 1 /\ (\A i \in 1..Len(m) : b[i] = m[i]) /\ b[Len(m) + 1] = f
    BY <1>5, <1>6, <1>8, SlotFacts
  <2> QED BY <1>6, <2>1
<1>11. ASSUME NEW i \in 1..(Len(q) + 1) PROVE a[i] = b[i]
  <2>0. i \in 1..Len(r)
    BY <1>4
  <2>1. a[i] = Lowered(places, Prefix(r, i - 1), el, r[i])
    BY <1>4, <1>7, <2>0, MovedSteps
  <2>2. i - 1 \in 0..Len(r) /\ i - 1 <= Len(q) /\ \A j \in 1..(i - 1) : r[j] = q[j]
    BY <1>4
  <2>3. Prefix(r, i - 1) = Prefix(q, i - 1)
    BY <1>4, <2>2, SamePrefix
  <2>4. CASE i <= Len(q)
    <3>1. i \in 1..Len(q) /\ r[i] = q[i] /\ b[i] = m[i]
      BY <1>4, <1>10, <2>4
    <3>2. m[i] = Lowered(places, Prefix(q, i - 1), el, q[i])
      BY <1>3, <3>1, MovedSteps
    <3> QED BY <2>1, <2>3, <3>1, <3>2
  <2>5. CASE ~(i <= Len(q))
    <3>1. i = Len(q) + 1 /\ i - 1 = Len(q)
      BY <1>4, <2>5
    <3>2. Prefix(q, Len(q)) = q
      <4>1. IsPrefix(q, q)
        BY LeadsToItself
      <4> QED BY <4>1, LeadsAs
    <3> QED BY <1>2, <1>4, <1>10, <2>1, <2>3, <3>1, <3>2
  <2> QED BY <2>4, <2>5
<1>12. a = b
  BY <1>9, <1>10, <1>11, SamePath
<1> QED BY <1>1, <1>2, <1>3, <1>7, <1>8, <1>12

LEMMA MovedOnce ==
    ASSUME NEW doc, Tree(doc), NEW x, NEW el \in Steps, NEW p \in Kept(doc, x, el), NEW q \in Kept(doc, x, el),
           Moved(Places(doc, x), el, p) = Moved(Places(doc, x), el, q)
    PROVE  p = q
<1>1. PICK places : places = Places(doc, x)
  OBVIOUS
<1>2. p \in Paths /\ q \in Paths /\ places \subseteq Paths /\ p \in DOMAIN doc.at /\ q \in DOMAIN doc.at
  BY <1>1, KeptFacts DEF Tree, IsTree, Kept
<1>3. Len(p) \in Nat /\ Len(q) = Len(p)
  <2>1. Len(Moved(places, el, p)) = Len(p) /\ Len(Moved(places, el, q)) = Len(q)
    BY <1>2, MovedFacts
  <2> QED BY <1>1, <1>2, <2>1, PathFacts
<1>4. ASSUME NEW r \in Kept(doc, x, el), r \in Paths, NEW i \in 1..Len(r), Prefix(r, i - 1) \in places
      PROVE  r[i] # el
  <2>1. PICK y : y = Prefix(r, i - 1)
    OBVIOUS
  <2>2. i - 1 \in 0..Len(r) /\ Len(r) \in Nat
    BY <1>4, PathFacts
  <2>3. Len(y) = i - 1 /\ IsPrefix(y, r)
    BY <1>4, <2>1, <2>2, PrefixFacts, PrefixLeads
  <2>4. Len(y) < Len(r) /\ Len(y) + 1 = i
    BY <2>2, <2>3
  <2>5. r \in DOMAIN doc.at
    BY DEF Kept
  <2>6. ~\E z \in Places(doc, x) : Len(z) < Len(r) /\ IsPrefix(z, r) /\ r[Len(z) + 1] = el
    BY <2>5, KeptFacts
  <2> QED BY <1>1, <1>4, <2>1, <2>3, <2>4, <2>6
<1> DEFINE S == {i \in 1..Len(p) : p[i] # q[i]}
<1>5. ASSUME S # {} PROVE FALSE
  <2>1. PICK i \in S : \A j \in S : i <= j
    <3>1. S \in SUBSET Nat
      OBVIOUS
    <3> HIDE DEF S
    <3> QED BY <1>5, <3>1, Least
  <2>2. i \in 1..Len(p) /\ i \in 1..Len(q) /\ p[i] # q[i] /\ i - 1 \in 0..Len(p) /\ i - 1 <= Len(q)
    BY <1>3
  <2>3. \A j \in 1..(i - 1) : p[j] = q[j]
    <3> SUFFICES ASSUME NEW j \in 1..(i - 1), p[j] # q[j] PROVE FALSE
      OBVIOUS
    <3>1. j \in 1..Len(p) /\ ~(i <= j)
      BY <1>3, <2>2
    <3>2. j \in S
      BY <3>1
    <3> HIDE DEF S
    <3> QED BY <2>1, <3>1, <3>2
  <2> HIDE DEF S
  <2>4. Prefix(p, i - 1) = Prefix(q, i - 1)
    BY <1>2, <2>2, <2>3, SamePrefix
  <2>5. PICK y : y = Prefix(p, i - 1)
    OBVIOUS
  <2>6. p[i] \in Steps /\ Moved(places, el, p)[i] = Lowered(places, y, el, p[i])
    BY <1>2, <2>2, <2>5, MovedSteps
  <2>7. q[i] \in Steps /\ Moved(places, el, q)[i] = Lowered(places, y, el, q[i])
    BY <1>2, <2>2, <2>4, <2>5, MovedSteps
  <2>8. y \in places => p[i] # el /\ q[i] # el
    BY <1>2, <1>4, <2>2, <2>4, <2>5
  <2>9. Lowered(places, y, el, p[i]) = Lowered(places, y, el, q[i])
    BY <1>1, <2>6, <2>7
  <2> QED BY <2>2, <2>6, <2>7, <2>8, <2>9, LoweredOnce
<1>6. \A i \in 1..Len(p) : p[i] = q[i]
  BY <1>5
<1> QED BY <1>2, <1>3, <1>6, SamePath

(* A place after the removal is one from before it.                        *)
CutPlace(out, doc, x, el, p, q) ==
    /\ q \in Kept(doc, x, el) /\ p = Moved(Places(doc, x), el, q)
    /\ out.at[p] = doc.at[q] /\ out.ref[p] = doc.ref[q]

StaysAs(doc, x, el, q, e, d) ==
    /\ Slot(q, e) \in DOMAIN doc.at /\ ~(q \in Places(doc, x) /\ e = el)
    /\ d = Lowered(Places(doc, x), q, el, e)

LEMMA CutSlots ==
    ASSUME NEW doc, Tree(doc), NEW x, NEW el \in Steps, NEW out, CutGives(out, doc, x, el),
           NEW p, NEW q, CutPlace(out, doc, x, el, p, q), NEW d \in Steps
    PROVE  Slot(p, d) \in DOMAIN out.at <=> \E e \in Steps : StaysAs(doc, x, el, q, e, d)
<1>1. PICK places : places = Places(doc, x)
  OBVIOUS
<1>2. q \in Kept(doc, x, el) /\ p = Moved(places, el, q) /\ q \in Paths /\ places \subseteq Paths
  BY <1>1, KeptFacts DEF CutPlace, Tree, IsTree, Kept
<1>3. p \in Paths
  BY <1>2, MovedFacts
<1>4. ASSUME NEW e \in Steps, StaysAs(doc, x, el, q, e, d) PROVE Slot(p, d) \in DOMAIN out.at
  <2>1. Slot(q, e) \in Kept(doc, x, el)
    BY <1>2, <1>4, KeptSlot DEF StaysAs
  <2>2. Moved(places, el, Slot(q, e)) = Slot(p, d)
    BY <1>1, <1>2, <1>4, MovedSlot DEF StaysAs
  <2>3. \A r \in Kept(doc, x, el) : Moved(places, el, r) \in DOMAIN out.at
    BY <1>1 DEF CutGives
  <2> QED BY <2>1, <2>2, <2>3
<1>5. ASSUME Slot(p, d) \in DOMAIN out.at PROVE \E e \in Steps : StaysAs(doc, x, el, q, e, d)
  <2>1. PICK r \in Kept(doc, x, el) : Slot(p, d) = Moved(places, el, r)
    BY <1>1, <1>5 DEF CutGives
  <2>2. r \in DOMAIN doc.at /\ r \in Paths
    BY DEF Tree, IsTree, Kept
  <2>3. Len(Moved(places, el, r)) = Len(r) /\ Len(Slot(p, d)) = Len(p) + 1 /\ Len(p) \in Nat /\ Len(r) \in Nat
    BY <1>2, <1>3, <2>2, MovedFacts, SlotFacts, PathFacts
  <2>4. r # Here
    BY <2>1, <2>3, HereHas
  <2>5. PICK s : s = Front(r)
    OBVIOUS
  <2>6. PICK e : e = Last(r)
    OBVIOUS
  <2>7. s \in Paths /\ e \in Steps /\ r = Slot(s, e)
    BY <2>2, <2>4, <2>5, <2>6, SlotOfFront
  <2>8. s \in Kept(doc, x, el)
    <3>1. IsTree(Kept(doc, x, el))
      BY KeptTree
    <3> QED BY <2>7, <3>1, SlotIn
  <2>9. Moved(places, el, r) = Slot(Moved(places, el, s), Lowered(places, s, el, e))
    BY <1>2, <2>7, MovedSlot
  <2>10. Moved(places, el, s) \in Paths /\ Lowered(places, s, el, e) \in Steps
    BY <1>2, <2>7, MovedFacts, LoweredFacts
  <2>11. p = Moved(places, el, s) /\ d = Lowered(places, s, el, e)
    BY <1>3, <2>1, <2>9, <2>10, SlotOnce
  <2>12. q = s
    BY <1>1, <1>2, <2>8, <2>11, MovedOnce
  <2>13. Slot(q, e) \in DOMAIN doc.at /\ Slot(q, e) \in Kept(doc, x, el)
    BY <2>2, <2>7, <2>12
  <2>14. ~(q \in Places(doc, x) /\ e = el)
    BY <1>2, <2>7, <2>13, KeptSlot
  <2>15. StaysAs(doc, x, el, q, e, d)
    BY <1>1, <2>11, <2>12, <2>13, <2>14 DEF StaysAs
  <2> QED BY <2>7, <2>15
<1> QED BY <1>4, <1>5

LEMMA CutHas ==
    ASSUME NEW doc, NEW x, NEW el, NEW out, CutGives(out, doc, x, el), NEW p \in DOMAIN out.at
    PROVE  \E q : CutPlace(out, doc, x, el, p, q)
BY DEF CutGives, CutPlace

LEMMA CutHeap ==
    ASSUME NEW doc, Tree(doc), Heap(doc), NEW x, NEW el \in Steps, NEW out, CutGives(out, doc, x, el)
    PROVE  Heap(out)
<1> SUFFICES ASSUME NEW p \in DOMAIN out.at, NEW r \in DOMAIN out.at, out.ref[p] = out.ref[r]
             PROVE  Alike(out, p, out, r)
  BY DEF Heap
<1>1. PICK q : CutPlace(out, doc, x, el, p, q)
  BY CutHas
<1>2. PICK s : CutPlace(out, doc, x, el, r, s)
  BY CutHas
<1>3. q \in DOMAIN doc.at /\ s \in DOMAIN doc.at /\ doc.ref[q] = doc.ref[s]
      /\ out.at[p] = doc.at[q] /\ out.at[r] = doc.at[s]
  BY <1>1, <1>2 DEF CutPlace, Kept
<1>4. doc.at[q] = doc.at[s] /\ \A e \in Steps : Slot(q, e) \in DOMAIN doc.at <=> Slot(s, e) \in DOMAIN doc.at
  BY <1>3 DEF Heap, Alike
<1>5. q \in Places(doc, x) <=> s \in Places(doc, x)
  BY <1>3 DEF Places
<1>6. \A e \in Steps : \A d : StaysAs(doc, x, el, q, e, d) <=> StaysAs(doc, x, el, s, e, d)
  <2>1. \A e : Lowered(Places(doc, x), q, el, e) = Lowered(Places(doc, x), s, el, e)
    BY <1>5 DEF Lowered
  <2> QED BY <1>4, <1>5, <2>1 DEF StaysAs
<1>7. ASSUME NEW d \in Steps PROVE Slot(p, d) \in DOMAIN out.at <=> Slot(r, d) \in DOMAIN out.at
  <2>1. Slot(p, d) \in DOMAIN out.at <=> \E e \in Steps : StaysAs(doc, x, el, q, e, d)
    BY <1>1, CutSlots
  <2>2. Slot(r, d) \in DOMAIN out.at <=> \E e \in Steps : StaysAs(doc, x, el, s, e, d)
    BY <1>2, CutSlots
  <2> QED BY <1>6, <2>1, <2>2
<1> QED BY <1>3, <1>4, <1>7 DEF Alike

(* The lists close up.                                                     *)
LEMMA CutShaped ==
    ASSUME NEW doc, Tree(doc), NEW x, NEW el \in Steps, NEW out, CutGives(out, doc, x, el),
           NEW p, NEW q, CutPlace(out, doc, x, el, p, q), Shaped(doc.at, q)
    PROVE  Shaped(out.at, p)
<1>1. PICK places : places = Places(doc, x)
  OBVIOUS
<1> SUFFICES ASSUME NEW d \in Steps, Slot(p, d) \in DOMAIN out.at
             PROVE  /\ out.at[p].type = IF d.isIdx THEN "L" ELSE "M"
                    /\ d.isIdx /\ d.index > 0 => Slot(p, Index(d.index - 1)) \in DOMAIN out.at
  BY DEF Shaped
<1>2. PICK e \in Steps : StaysAs(doc, x, el, q, e, d)
  BY CutSlots
<1>3. /\ Slot(q, e) \in DOMAIN doc.at /\ ~(q \in places /\ e = el) /\ d = Lowered(places, q, el, e)
      /\ (d.isIdx <=> e.isIdx) /\ (q \notin places \/ ~el.isIdx => d = e)
  <2>1. Slot(q, e) \in DOMAIN doc.at /\ ~(q \in places /\ e = el) /\ d = Lowered(places, q, el, e)
    BY <1>1, <1>2 DEF StaysAs
  <2>2. /\ Lowered(places, q, el, e).isIdx <=> e.isIdx
        /\ (q \notin places \/ ~el.isIdx) => Lowered(places, q, el, e) = e
    BY LoweredFacts
  <2> QED BY <2>1, <2>2
<1>4. out.at[p].type = IF d.isIdx THEN "L" ELSE "M"
  BY <1>3 DEF Shaped, CutPlace
<1>5. ASSUME d.isIdx, d.index > 0 PROVE Slot(p, Index(d.index - 1)) \in DOMAIN out.at
  <2>1. /\ d.index \in Nat /\ e.index \in Nat /\ el.index \in Nat
        /\ d = Index(d.index) /\ e = Index(e.index) /\ (el.isIdx => el = Index(el.index))
    BY <1>3, <1>5, StepIndex, IndexesAre
  <2>2. \A k \in Nat : k > 0 /\ Slot(q, Index(k)) \in DOMAIN doc.at => Slot(q, Index(k - 1)) \in DOMAIN doc.at
    <3> SUFFICES ASSUME NEW k \in Nat, k > 0, Slot(q, Index(k)) \in DOMAIN doc.at
                 PROVE  Slot(q, Index(k - 1)) \in DOMAIN doc.at
      OBVIOUS
    <3>1. Index(k) \in Steps /\ Index(k).isIdx /\ Index(k).index = k
      BY IndexStep, IndexIs
    <3>2. Slot(q, Index(Index(k).index - 1)) \in DOMAIN doc.at
      BY <3>1 DEF Shaped
    <3> QED BY <3>1, <3>2
  <2>3. ASSUME NEW k \in Nat, Slot(q, Index(k)) \in DOMAIN doc.at, q \in places => Index(k) # el,
               Lowered(places, q, el, Index(k)) = Index(d.index - 1)
        PROVE  Slot(p, Index(d.index - 1)) \in DOMAIN out.at
    <3>1. PICK b : b = Index(d.index - 1)
      OBVIOUS
    <3>2. b \in Steps /\ Index(k) \in Steps
      <4>1. d.index - 1 \in Nat
        BY <1>5, <2>1
      <4> QED BY <3>1, <4>1, IndexStep
    <3>3. StaysAs(doc, x, el, q, Index(k), b)
      BY <1>1, <2>3, <3>1 DEF StaysAs
    <3>4. Slot(p, b) \in DOMAIN out.at
      BY <3>2, <3>3, CutSlots
    <3> QED BY <3>1, <3>4
  <2>4. \A k \in Nat : Lowered(places, q, el, Index(k)) =
                          IF q \in places /\ el.isIdx /\ k > el.index THEN Index(k - 1) ELSE Index(k)
    BY IndexIs DEF Lowered
  <2>5. d.index - 1 \in Nat /\ d.index \in Nat
    BY <1>5, <2>1
  <2>6. CASE q \notin places \/ ~el.isIdx
    <3>1. Slot(q, Index(d.index - 1)) \in DOMAIN doc.at
      BY <1>3, <1>5, <2>1, <2>2, <2>6
    <3>2. Lowered(places, q, el, Index(d.index - 1)) = Index(d.index - 1)
      BY <2>4, <2>5, <2>6
    <3>3. q \in places => Index(d.index - 1) # el
      BY <2>6, IndexIs
    <3> QED BY <2>3, <2>5, <3>1, <3>2, <3>3
  <2>7. CASE q \in places /\ el.isIdx /\ e.index > el.index
    <3>1. d = Index(e.index - 1)
      BY <1>3, <1>5, <2>7 DEF Lowered
    <3>2. d.index = e.index - 1 /\ e.index > 0
      BY <2>1, <2>7, <3>1, IndexIs
    <3>3. Slot(q, Index(e.index - 1)) \in DOMAIN doc.at
      BY <1>3, <2>1, <2>2, <3>2
    <3>4. Slot(q, Index(d.index)) \in DOMAIN doc.at
      BY <3>2, <3>3
    <3>5. CASE d.index > el.index
      <4>1. Lowered(places, q, el, Index(d.index)) = Index(d.index - 1)
        BY <2>4, <2>5, <2>7, <3>5
      <4>2. Index(d.index) # el
        BY <2>1, <3>5, IndexIs
      <4> QED BY <2>3, <2>5, <3>4, <4>1, <4>2
    <3>6. CASE ~(d.index > el.index)
      <4>1. d.index - 1 < el.index
        BY <2>1, <3>6
      <4>2. Slot(q, Index(d.index - 1)) \in DOMAIN doc.at
        BY <1>5, <2>2, <2>5, <3>4
      <4>3. Lowered(places, q, el, Index(d.index - 1)) = Index(d.index - 1)
        BY <2>1, <2>4, <2>5, <4>1
      <4>4. Index(d.index - 1) # el
        <5>1. Index(d.index - 1).index = d.index - 1
          BY IndexIs
        <5> QED BY <2>1, <4>1, <5>1
      <4> QED BY <2>3, <2>5, <4>2, <4>3, <4>4
    <3> QED BY <3>5, <3>6
  <2>8. CASE q \in places /\ el.isIdx /\ ~(e.index > el.index)
    <3>1. d = e
      BY <1>3, <2>8 DEF Lowered
    <3>2. e # el
      BY <1>3, <2>8
    <3>3. e.index # el.index
      BY <2>1, <2>8, <3>2
    <3>4. d.index - 1 < el.index /\ d.index - 1 \in Nat
      BY <2>1, <2>5, <2>8, <3>1, <3>3
    <3>5. Slot(q, Index(d.index - 1)) \in DOMAIN doc.at
      BY <1>3, <1>5, <2>1, <2>2, <3>1
    <3>6. Lowered(places, q, el, Index(d.index - 1)) = Index(d.index - 1)
      BY <2>1, <2>4, <3>4
    <3>7. Index(d.index - 1) # el
      <4>1. Index(d.index - 1).index = d.index - 1
        BY IndexIs
      <4> QED BY <2>1, <3>4, <4>1
    <3> QED BY <2>3, <3>4, <3>5, <3>6, <3>7
  <2> QED BY <2>6, <2>7, <2>8
<1> QED BY <1>4, <1>5

LEMMA CutSound ==
    ASSUME NEW doc, NEW done, Sound(doc, done), NEW path \in AttributePaths, path[1].name \notin KeyNames,
           Front(path) \in DOMAIN doc.at, NEW out, out = Cut(doc, Front(path), Last(path))
    PROVE  Sound(out, done)
<1>1. PICK x : x = Front(path)
  OBVIOUS
<1>2. PICK el : el = Last(path)
  OBVIOUS
<1>3. Rooted(doc) /\ Tree(doc) /\ Sole(doc) /\ Heap(doc) /\ KeyKept(doc) /\ NodesOK(doc) /\ MadeBy(doc, done)
      /\ Here \notin done
  BY DEF Sound, Rooted
<1>4. path \in Paths /\ path # Here
  BY DEF AttributePaths, Here
<1>5. x \in Paths /\ x \in DOMAIN doc.at /\ el \in Steps /\ path = Append(x, el) /\ IsPrefix(Append(x, el), path)
  BY <1>1, <1>2, <1>4, FrontFacts, LeadsToItself
<1>6. x = Here => el = path[1] /\ ~el.isIdx
  BY <1>5, TopName
<1>7. out = Cut(doc, x, el) /\ CutGives(out, doc, x, el)
  BY <1>1, <1>2, <1>3, <1>5, CutFacts
<1>8. Rooted(out) /\ Heap(out)
  BY <1>3, <1>5, <1>6, <1>7, CutRooted, CutHeap
<1>9. ASSUME NEW p \in DOMAIN out.at
      PROVE  /\ NodeOK(out.at[p]) /\ (p # Here => Shaped(out.at, p))
             /\ out.ref[p].made => out.ref[p].by \in done
  <2>1. PICK q : CutPlace(out, doc, x, el, p, q)
    BY <1>7, CutHas
  <2>2. q \in DOMAIN doc.at /\ q \in Paths /\ out.at[p] = doc.at[q] /\ out.ref[p] = doc.ref[q]
        /\ p = Moved(Places(doc, x), el, q)
    BY <1>3, <2>1 DEF CutPlace, Kept, Tree, IsTree
  <2>3. NodeOK(out.at[p]) /\ (out.ref[p].made => out.ref[p].by \in done)
    BY <1>3, <2>2 DEF NodesOK, MadeBy
  <2>4. ASSUME p # Here PROVE Shaped(out.at, p)
    <3>1. q # Here
      <4>1. Moved(Places(doc, x), el, Here) = Here
        BY <1>3, <1>5, <1>6, HereHas, TopStays
      <4> QED BY <2>2, <2>4, <4>1
    <3>2. Shaped(doc.at, q)
      BY <2>2, <3>1 DEF Sound
    <3> QED BY <1>3, <1>5, <1>7, <2>1, <3>2, CutShaped
  <2> QED BY <2>3, <2>4
<1>10. ASSUME NEW p \in DOMAIN KeyAttributes
       PROVE  p \in DOMAIN out.at /\ out.at[p] = KeyAttributes[p]
  <2>1. p \in DOMAIN doc.at /\ doc.at[p] = KeyAttributes[p] /\ p \in Paths
    BY <1>3 DEF KeyKept, Tree, IsTree
  <2>2. Len(p) <= 1
    <3>1. CASE p = Here
      BY <3>1, HereHas
    <3>2. CASE p # Here
      BY <3>2, KeyDepth
    <3> QED BY <3>1, <3>2
  <2>3. p \in Kept(doc, x, el)
    <3>1. CASE p = Here
      BY <1>3, <1>5, <3>1, HereKept
    <3>2. CASE p # Here
      <4>1. Len(p) = 1 /\ p[1].name \in KeyNames
        BY <3>2, KeyDepth
      <4>2. x = Here => p[1] # el
        BY <1>6, <4>1
      <4> QED BY <1>3, <1>5, <2>1, <4>1, <4>2, TopKept
    <3> QED BY <3>1, <3>2
  <2>4. Moved(Places(doc, x), el, p) = p
    BY <1>3, <1>5, <1>6, <2>1, <2>2, TopStays
  <2>5. p \in DOMAIN out.at
    BY <1>7, <2>3, <2>4 DEF CutGives
  <2>6. PICK q : CutPlace(out, doc, x, el, p, q)
    BY <1>7, <2>5, CutHas
  <2>7. q = p
    BY <1>3, <1>5, <2>3, <2>4, <2>6, MovedOnce DEF CutPlace
  <2> QED BY <2>1, <2>5, <2>6, <2>7 DEF CutPlace
<1>11. KeyKept(out) /\ NodesOK(out) /\ MadeBy(out, done)
  BY <1>9, <1>10 DEF KeyKept, NodesOK, MadeBy
<1> QED BY <1>3, <1>8, <1>9, <1>11 DEF Sound

-----------------------------------------------------------------------------
(* What the actions assign, and the documents after them                   *)

LEMMA ContentsOf ==
    ASSUME NEW node, NodeOK(node), node.type \in Sets
    PROVE  /\ Contents(node) \in Seq(Kind(node.type)) /\ Contents(node) # <<>>
           /\ RefsDiffer => Distinct(node.type, Contents(node))
<1>1. /\ node.type \in {"SS", "BS"} => node.members \in Seq(Seq(Byte)) /\ node.members # <<>>
      /\ node.type = "NS" => node.nums \in Seq(Numerals) /\ node.nums # <<>>
  BY NodeParts DEF NodeOK
<1>2. Contents(node) \in Seq(Kind(node.type)) /\ Contents(node) # <<>>
  BY <1>1 DEF Contents, Kind, Sets
<1>3. MembersDiffer(node) <=> Distinct(node.type, Contents(node))
  BY <1>2, DistinctMembers
<1> QED BY <1>2, <1>3 DEF NodeOK

LEMMA ContentsPart ==
    ASSUME NEW type \in Sets, NEW s \in Seq(Kind(type)), s # <<>>, RefsDiffer => Distinct(type, s), NEW doc
    PROVE  Part(WithContents(type, s), doc)
<1>1. PICK node : node = IF type = "NS" THEN [type |-> type, nums |-> s] ELSE [type |-> type, members |-> s]
  OBVIOUS
<1>2. node.type = type /\ Contents(node) = s
  BY <1>1 DEF Contents
<1>3. node \in Node
  <2>1. CASE type = "NS"
    <3>1. node \in [type : {"NS"}, nums : Seq(Numerals) \ {<<>>}]
      BY <1>1, <2>1 DEF Kind
    <3> QED BY <3>1, Zenon DEF Node
  <2>2. CASE type # "NS"
    <3>1. node \in [type : {"SS", "BS"}, members : Seq(Seq(Byte)) \ {<<>>}]
      BY <1>1, <2>2 DEF Kind, Sets
    <3> QED BY <3>1, Zenon DEF Node
  <2> QED BY <2>1, <2>2
<1>4. MembersDiffer(node) <=> Distinct(type, s)
  BY <1>2, DistinctMembers
<1>5. NodeOK(node)
  BY <1>3, <1>4 DEF NodeOK
<1>6. Part(Given(Scalar(node)), doc)
  BY <1>5, ScalarPart
<1> QED BY <1>1, <1>6 DEF WithContents

LEMMA AddPart ==
    ASSUME NEW doc, NEW done, Sound(doc, done), NEW path, NEW v, Part(v, doc), NEW out \in Add(doc, path, v)
    PROVE  \E sub : Part(sub, doc) /\ out \in setPath(doc, path, sub)
<1>1. PICK node : node = v.at[Here]
  OBVIOUS
<1>2. NodeOK(node) /\ node \in Node
  BY <1>1, PartHere
<1>3. PICK cur : cur = doc.at[path]
  OBVIOUS
<1>4. CASE out \in setPath(doc, path, v)
  BY <1>4
<1>5. CASE out \notin setPath(doc, path, v)
  <2>1. /\ node.type \in Sets \union {"N"} /\ resolvePath(doc.at, path) # {} /\ cur.type = node.type
        /\ \/ node.type = "N" /\ out \in setPath(doc, path, addNumbers(cur.num, node.num, FALSE))
           \/ /\ node.type \in Sets
              /\ out \in setPath(doc, path, WithContents(node.type, union(node.type, Contents(cur), Contents(node))))
    BY <1>1, <1>3, <1>5 DEF Add
  <2>2. NodeOK(cur) /\ cur \in Node
    <3>1. path \in DOMAIN doc.at
      BY <2>1 DEF resolvePath
    <3> QED BY <1>3, <3>1 DEF Sound, NodesOK, NodeOK
  <2>3. CASE node.type = "N" /\ out \in setPath(doc, path, addNumbers(cur.num, node.num, FALSE))
    <3>1. cur.num \in Numerals /\ node.num \in Numerals
      BY <1>2, <2>1, <2>2, <2>3, NodeParts
    <3>2. Part(addNumbers(cur.num, node.num, FALSE), doc)
      BY <3>1, SumPart
    <3> QED BY <2>3, <3>2
  <2>4. ASSUME node.type \in Sets, NEW u, u = union(node.type, Contents(cur), Contents(node)),
               out \in setPath(doc, path, WithContents(node.type, u))
        PROVE  \E sub : Part(sub, doc) /\ out \in setPath(doc, path, sub)
    <3>1. /\ Contents(cur) \in Seq(Kind(node.type)) /\ Contents(cur) # <<>>
          /\ RefsDiffer => Distinct(node.type, Contents(cur))
      BY <2>1, <2>2, <2>4, ContentsOf
    <3>2. Contents(node) \in Seq(Kind(node.type))
      BY <1>2, <2>4, ContentsOf
    <3>3. /\ u \in Seq(Kind(node.type)) /\ Len(Contents(cur)) <= Len(u)
          /\ Distinct(node.type, Contents(cur)) => Distinct(node.type, u)
      <4>1. PICK X, type, s, t : /\ X = Kind(node.type) /\ type = node.type
                                 /\ s = Contents(cur) /\ t = Contents(node)
        OBVIOUS
      <4>2. s \in Seq(X) /\ t \in Seq(X) /\ u = union(type, s, t)
        BY <2>4, <3>1, <3>2, <4>1
      <4>3. u \in Seq(X) /\ Len(s) <= Len(u) /\ (Distinct(type, s) => Distinct(type, u))
        BY <4>2, UnionFacts
      <4> QED BY <4>1, <4>3
    <3>4. u # <<>>
      BY <3>1, <3>3
    <3>5. Part(WithContents(node.type, u), doc)
      BY <2>4, <3>1, <3>3, <3>4, ContentsPart
    <3> QED BY <2>4, <3>5
  <2> QED BY <2>1, <2>3, <2>4
<1> QED BY <1>4, <1>5

LEMMA DeletePart ==
    ASSUME NEW doc, NEW done, Sound(doc, done), NEW path, NEW v, Part(v, doc), NEW out \in Delete(doc, path, v)
    PROVE  \/ out = doc
           \/ out \in applyRemove(doc, path)
           \/ \E sub : Part(sub, doc) /\ out \in setPath(doc, path, sub)
<1>1. PICK node : node = v.at[Here]
  OBVIOUS
<1>2. PICK cur : cur = doc.at[path]
  OBVIOUS
<1>3. PICK d : d = diff(node.type, Contents(cur), Contents(node))
  OBVIOUS
<1> SUFFICES ASSUME out # doc, out \notin applyRemove(doc, path)
             PROVE  \E sub : Part(sub, doc) /\ out \in setPath(doc, path, sub)
  OBVIOUS
<1>4. /\ resolvePath(doc.at, path) # {} /\ node.type \in Sets /\ cur.type = node.type /\ d # <<>>
      /\ out \in setPath(doc, path, WithContents(node.type, d))
  BY <1>1, <1>2, <1>3 DEF Delete
<1>5. NodeOK(cur)
  <2>1. path \in DOMAIN doc.at
    BY <1>4 DEF resolvePath
  <2> QED BY <1>2, <2>1 DEF Sound, NodesOK
<1>6. /\ Contents(cur) \in Seq(Kind(node.type))
      /\ RefsDiffer => Distinct(node.type, Contents(cur))
  BY <1>4, <1>5, ContentsOf
<1>7. d \in Seq(Kind(node.type)) /\ (Distinct(node.type, Contents(cur)) => Distinct(node.type, d))
  <2>1. PICK a : a = Contents(cur)
    OBVIOUS
  <2>2. PICK b : b = Contents(node)
    OBVIOUS
  <2>3. PICK X : X = Kind(node.type)
    OBVIOUS
  <2>4. PICK t : t = node.type
    OBVIOUS
  <2>5. a \in Seq(X)
    BY <1>6, <2>1, <2>3
  <2>6. d = diff(t, a, b)
    BY <1>3, <2>1, <2>2, <2>4
  <2>7. d \in Seq(X) /\ (Distinct(t, a) => Distinct(t, d))
    BY <2>5, <2>6, DiffFacts
  <2> QED BY <2>1, <2>3, <2>4, <2>7
<1>8. Part(WithContents(node.type, d), doc)
  BY <1>4, <1>6, <1>7, ContentsPart
<1> QED BY <1>4, <1>8

LEMMA SetSound ==
    ASSUME NEW doc, NEW done, Sound(doc, done), NEW path \in AttributePaths, path \notin done,
           path[1].name \notin KeyNames, NEW sub, Part(sub, doc),
           NEW out \in setPath(doc, path, sub), out # Cyclic
    PROVE  Sound(out, done \union {path})
<1>1. Tree(doc) /\ path \in Paths /\ path # Here /\ Branch(sub)
  BY DEF Sound, Rooted, AttributePaths, Here, Part
<1>2. \E x, el, chain : /\ SetGives(out, doc, path, x, el, chain)
                        /\ \E rest : SetOf(doc, path, x, el, chain, rest, sub)
  BY <1>1, SetFacts
<1>3. PICK x, el, chain : /\ SetGives(out, doc, path, x, el, chain)
                          /\ \E rest : SetOf(doc, path, x, el, chain, rest, sub)
  BY <1>2
<1>4. Assigned(out, doc, done, path, x, el, chain)
  BY <1>3 DEF Assigned
<1> QED BY <1>4, PutSound

LEMMA RemoveSound ==
    ASSUME NEW doc, NEW done, Sound(doc, done), NEW path \in AttributePaths,
           path[1].name \notin KeyNames, NEW out \in applyRemove(doc, path)
    PROVE  Sound(out, done)
BY RemoveGives, CutSound

LEMMA SoundLater ==
    ASSUME NEW doc, NEW done, Sound(doc, done), NEW later, done \subseteq later, Here \notin later
    PROVE  Sound(doc, later)
BY DEF Sound, MadeBy

LEMMA ActionSound ==
    ASSUME NEW doc, doc # Cyclic, NEW done, Sound(doc, done),
           NEW a, IsAction(a), a.path[1].name \notin KeyNames, a.op # "remove" => a.path \notin done,
           NEW out \in applyAction(doc, a), out # Cyclic
    PROVE  Sound(out, IF a.op = "remove" THEN done ELSE done \union {a.path})
<1>1. a.path \in AttributePaths /\ a.op \in {"set", "remove", "add", "delete"} /\ a.path # Here
  BY DEF IsAction, AttributePaths, Here
<1>2. ASSUME a.op # "remove", NEW sub, Part(sub, doc), out \in setPath(doc, a.path, sub)
      PROVE  Sound(out, done \union {a.path})
  BY <1>1, <1>2, SetSound
<1>3. CASE a.op = "set"
  <2>1. PICK v \in evalSetValue(a.set, doc) : out \in setPath(doc, a.path, v)
    BY <1>3 DEF applyAction
  <2>2. Part(v, doc)
    BY <1>3, SetValuePart
  <2> QED BY <1>2, <1>3, <2>1, <2>2
<1>4. CASE a.op = "remove"
  <2>1. out \in applyRemove(doc, a.path)
    BY <1>4 DEF applyAction
  <2> QED BY <1>1, <1>4, <2>1, RemoveSound
<1>5. CASE a.op = "add"
  <2>1. PICK v \in operandValue(a.value, doc) : out \in Add(doc, a.path, v)
    BY <1>5 DEF applyAction
  <2>2. Part(v, doc)
    BY <1>5, OperandPart DEF IsAction
  <2>3. PICK sub : Part(sub, doc) /\ out \in setPath(doc, a.path, sub)
    BY <2>1, <2>2, AddPart
  <2> QED BY <1>2, <1>5, <2>3
<1>6. CASE a.op = "delete"
  <2>1. PICK v \in operandValue(a.value, doc) : out \in Delete(doc, a.path, v)
    BY <1>6 DEF applyAction
  <2>2. Part(v, doc)
    BY <1>6, OperandPart DEF IsAction
  <2>3. \/ out = doc
        \/ out \in applyRemove(doc, a.path)
        \/ \E sub : Part(sub, doc) /\ out \in setPath(doc, a.path, sub)
    BY <2>1, <2>2, DeletePart
  <2>4. ASSUME Sound(out, done) PROVE Sound(out, done \union {a.path})
    <3>1. Here \notin done \union {a.path}
      BY <1>1 DEF Sound
    <3> QED BY <2>4, <3>1, SoundLater
  <2>5. CASE out \in applyRemove(doc, a.path)
    BY <1>1, <1>6, <2>4, <2>5, RemoveSound
  <2>6. CASE out = doc
    BY <1>6, <2>4, <2>6
  <2>7. CASE \E sub : Part(sub, doc) /\ out \in setPath(doc, a.path, sub)
    BY <1>2, <1>6, <2>7
  <2> QED BY <2>3, <2>5, <2>6, <2>7
<1> QED BY <1>1, <1>3, <1>4, <1>5, <1>6

-----------------------------------------------------------------------------
(* One action after the other                                              *)

(* Before[k] has the paths that the first k actions assign at.             *)
Fresh(actions, ops, before) ==
    \A k \in 1..Len(actions) :
        /\ before[k - 1] \subseteq before[k] /\ Here \notin before[k]
        /\ actions[k].op \in ops =>
              /\ IsAction(actions[k]) /\ actions[k].path[1].name \notin KeyNames
              /\ actions[k].op # "remove" => actions[k].path \in before[k] \ before[k - 1]

SoundIn(doc, done) == doc # Cyclic => Sound(doc, done)

LEMMA EachSound ==
    ASSUME NEW docs, NEW ops, NEW actions, Len(actions) \in Nat, NEW before, Fresh(actions, ops, before),
           \A d \in docs : SoundIn(d, before[0]),
           NEW out \in applyEach(docs, actions, ops)
    PROVE  SoundIn(out, before[Len(actions)])
<1> DEFINE n == Len(actions)
           after == CHOOSE f : f = [k \in 0..n |->
                        IF k = 0 THEN docs
                        ELSE IF actions[k].op \in ops THEN UNION {applyAction(d, actions[k]) : d \in f[k - 1]}
                        ELSE f[k - 1]]
<1>1. applyEach(docs, actions, ops) = after[n]
  BY DEF applyEach
<1>2. after = CHOOSE f : After(f, docs, actions, ops, n)
  BY DEF After, EachStep
<1> HIDE DEF after
<1>3. After(after, docs, actions, ops, n)
  BY <1>2, AfterExists
<1> DEFINE good(k) == \A d \in after[k] : SoundIn(d, before[k])
           S == {k \in 0..n : good(k)}
<1>4. good(0)
  <2>1. after[0] = docs
    BY <1>3 DEF After
  <2> QED BY <2>1
<1>5. ASSUME NEW m \in 1..n, good(m - 1) PROVE good(m)
  <2> SUFFICES ASSUME NEW d \in after[m], d # Cyclic PROVE Sound(d, before[m])
    BY DEF SoundIn
  <2>1. after[m] = EachStep(after[m - 1], actions[m], ops)
    BY <1>3 DEF After
  <2>2. /\ before[m - 1] \subseteq before[m] /\ Here \notin before[m]
        /\ actions[m].op \in ops =>
              /\ IsAction(actions[m]) /\ actions[m].path[1].name \notin KeyNames
              /\ actions[m].op # "remove" => actions[m].path \in before[m] \ before[m - 1]
    BY DEF Fresh
  <2>3. CASE actions[m].op \in ops
    <3>1. PICK e \in after[m - 1] : d \in applyAction(e, actions[m])
      BY <2>1, <2>3 DEF EachStep
    <3>2. e # Cyclic
      BY <3>1 DEF applyAction
    <3>3. Sound(e, before[m - 1])
      BY <1>5, <3>1, <3>2 DEF SoundIn
    <3>4. Sound(d, IF actions[m].op = "remove" THEN before[m - 1] ELSE before[m - 1] \union {actions[m].path})
      BY <2>2, <2>3, <3>1, <3>2, <3>3, ActionSound
    <3>5. CASE actions[m].op = "remove"
      BY <2>2, <3>4, <3>5, SoundLater
    <3>6. CASE actions[m].op # "remove"
      <4>1. before[m - 1] \union {actions[m].path} \subseteq before[m]
        BY <2>2, <2>3, <3>6
      <4> QED BY <2>2, <3>4, <3>6, <4>1, SoundLater
    <3> QED BY <3>5, <3>6
  <2>4. CASE actions[m].op \notin ops
    <3>1. d \in after[m - 1]
      BY <2>1, <2>4 DEF EachStep
    <3>2. Sound(d, before[m - 1])
      BY <1>5, <3>1 DEF SoundIn
    <3> QED BY <2>2, <3>2, SoundLater
  <2> QED BY <2>3, <2>4
<1> HIDE DEF good
<1>6. S = 0..n
  <2>1. S \subseteq 0..n /\ 0 \in S /\ \A k \in 1..n : k - 1 \in S => k \in S
    BY <1>4, <1>5
  <2> HIDE DEF S
  <2> QED BY <2>1, Reaches
<1>7. good(n)
  BY <1>6
<1> QED BY <1>1, <1>7 DEF good

Begun(as, k) == {as[j].path : j \in 1..k}

LEMMA BegunFacts ==
    ASSUME NEW as, NEW n \in Nat, NEW k \in 1..n,
           \A i, j \in 1..n : i < j => as[i].path # as[j].path
    PROVE  /\ k - 1 \in 0..n /\ k \in 0..n
           /\ Begun(as, k - 1) \subseteq Begun(as, k) /\ Begun(as, k) \subseteq Begun(as, n)
           /\ as[k].path \in Begun(as, k) \ Begun(as, k - 1)
<1>1. k - 1 \in 0..n /\ k \in 0..n /\ k \in 1..k
  OBVIOUS
<1>2. \A j \in 1..(k - 1) : j \in 1..k /\ j \in 1..n /\ j < k
  OBVIOUS
<1>3. \A j \in 1..k : j \in 1..n
  OBVIOUS
<1>4. Begun(as, k - 1) \subseteq Begun(as, k)
  BY <1>2 DEF Begun
<1>5. Begun(as, k) \subseteq Begun(as, n)
  BY <1>3 DEF Begun
<1>6. as[k].path \in Begun(as, k)
  BY <1>1 DEF Begun
<1>7. as[k].path \notin Begun(as, k - 1)
  BY <1>2 DEF Begun
<1> QED BY <1>1, <1>4, <1>5, <1>6, <1>7

LEMMA UpdateSound ==
    ASSUME NEW base, Sound(cloneItem(base), {}),
           NEW u \in Updates, ~Malformed(u.actions), NEW doc \in applyUpdate(base, u.actions)
    PROVE  SoundIn(doc, Named(u.actions))
<1> DEFINE as == u.actions
           first == {"set", "add", "delete"}
           R == {as[i] : i \in {j \in 1..Len(as) : as[j].op = "remove"}}
           docs == applyEach({cloneItem(base)}, as, first)
<1>1. Len(as) \in Nat /\ \A i \in 1..Len(as) : IsAction(as[i])
  BY ParsedActions
<1>2. Here \notin Named(as)
  BY ValidatedApart DEF Apart
<1>3. doc \in applyEach(docs, Removes(as), {"remove"})
  BY DEF applyUpdate
<1> HIDE DEF as
<1>4. \A i \in 1..Len(as) : as[i].path[1].name \notin KeyNames
  BY DEF Malformed, as
<1>5. \A i, j \in 1..Len(as) : i < j => as[i].path # as[j].path
  <2> SUFFICES ASSUME NEW i \in 1..Len(as), NEW j \in 1..Len(as), i < j, as[i].path = as[j].path PROVE FALSE
    OBVIOUS
  <2>1. as[i].path \in Paths
    BY <1>1 DEF IsAction, AttributePaths
  <2>2. pathsOverlap(as[i].path, as[j].path)
    BY <2>1, LeadsToItself DEF pathsOverlap
  <2> QED BY <2>2 DEF Malformed, as
<1>6. \A d \in docs : SoundIn(d, Named(as))
  <2>0. PICK before : before = [k \in 0..Len(as) |-> Begun(as, k)]
    OBVIOUS
  <2>1. ASSUME NEW k \in 1..Len(as)
        PROVE  /\ before[k - 1] \subseteq before[k] /\ Here \notin before[k]
               /\ as[k].path \in before[k] \ before[k - 1]
    <3>1. PICK n \in Nat : n = Len(as)
      BY <1>1
    <3>2. k \in 1..n /\ (\A i, j \in 1..n : i < j => as[i].path # as[j].path) /\ Begun(as, n) = Named(as)
      BY <1>5, <3>1 DEF Begun, Named
    <3>3. /\ k - 1 \in 0..n /\ k \in 0..n
          /\ Begun(as, k - 1) \subseteq Begun(as, k) /\ Begun(as, k) \subseteq Begun(as, n)
          /\ as[k].path \in Begun(as, k) \ Begun(as, k - 1)
      BY <3>2, BegunFacts
    <3>4. before[k] = Begun(as, k) /\ before[k - 1] = Begun(as, k - 1)
      BY <2>0, <3>1, <3>3
    <3> QED BY <1>2, <3>2, <3>3, <3>4
  <2>2. before[0] = {} /\ before[Len(as)] = Named(as)
    BY <1>1, <2>0 DEF Named, Begun
  <2>3. Fresh(as, first, before)
    BY <1>1, <1>4, <2>1 DEF Fresh
  <2>4. \A d \in {cloneItem(base)} : SoundIn(d, before[0])
    BY <2>2 DEF SoundIn
  <2> HIDE DEF first
  <2>5. \A d \in docs : SoundIn(d, before[Len(as)])
    BY <1>1, <2>3, <2>4, EachSound
  <2> QED BY <2>2, <2>5
<1>7. PICK removes : removes = Removes(as)
  OBVIOUS
<1>8. Len(removes) \in Nat /\ \A k \in 1..Len(removes) : removes[k] \in R
  <2>1. removes \in Seq(R)
    BY <1>1, <1>7, RemovesIn
  <2> HIDE DEF R
  <2> QED BY <2>1, LenProperties
<1>9. SoundIn(doc, Named(as))
  <2>1. PICK before : before = [k \in 0..Len(removes) |-> Named(as)]
    OBVIOUS
  <2>2. before[0] = Named(as) /\ before[Len(removes)] = Named(as)
        /\ \A k \in 1..Len(removes) : before[k - 1] = Named(as) /\ before[k] = Named(as)
    BY <1>8, <2>1
  <2>3. \A k \in 1..Len(removes) :
          /\ IsAction(removes[k]) /\ removes[k].path[1].name \notin KeyNames /\ removes[k].op = "remove"
    BY <1>1, <1>4, <1>8
  <2>4. Fresh(removes, {"remove"}, before)
    BY <1>2, <2>2, <2>3 DEF Fresh
  <2> HIDE DEF docs
  <2>5. SoundIn(doc, before[Len(removes)])
    BY <1>3, <1>6, <1>7, <1>8, <2>2, <2>4, EachSound
  <2> QED BY <2>2, <2>5
<1> QED BY <1>9 DEF as

-----------------------------------------------------------------------------
(* The clone of a well-formed item is sound                                *)

LEMMA ShapedAs ==
    ASSUME NEW at1, NEW p, NEW at2, NEW q, at1[p] = at2[q],
           \A e \in Steps : Slot(p, e) \in DOMAIN at1 <=> Slot(q, e) \in DOMAIN at2, Shaped(at2, q)
    PROVE  Shaped(at1, p)
<1> SUFFICES ASSUME NEW e \in Steps, Slot(p, e) \in DOMAIN at1
             PROVE  /\ at1[p].type = IF e.isIdx THEN "L" ELSE "M"
                    /\ e.isIdx /\ e.index > 0 => Slot(p, Index(e.index - 1)) \in DOMAIN at1
  BY DEF Shaped
<1>1. /\ at2[q].type = IF e.isIdx THEN "L" ELSE "M"
      /\ e.isIdx /\ e.index > 0 => Slot(q, Index(e.index - 1)) \in DOMAIN at2
  BY DEF Shaped
<1>2. e.index > 0 => Index(e.index - 1) \in Steps
  BY StepBefore
<1> QED BY <1>1, <1>2

(* A step below the top.                                                   *)
LEMMA SlotVisible ==
    ASSUME NEW p \in Paths, p # Here, NEW e \in Steps
    PROVE  Slot(p, e)[1] = p[1] /\ (Visible(Slot(p, e)) <=> Visible(p))
<1>1. 1 \in 1..Len(p)
  BY PathFacts
<1>2. Slot(p, e) # Here /\ \A i \in 1..Len(p) : Slot(p, e)[i] = p[i]
  BY SlotFacts
<1>3. Slot(p, e)[1] = p[1]
  BY <1>1, <1>2
<1> QED BY <1>2, <1>3 DEF Visible

LEMMA WellFormedGround ==
    ASSUME NEW at, IsValue(at), at[Here].type = "M"
    PROVE  Ground(at)
<1>1. IsTree(DOMAIN at)
  BY DEF IsValue
<1>2. ASSUME NEW p \in DOMAIN at, p # Here PROVE ~p[1].isIdx
  <2>1. p[1] \in Steps /\ Slot(Here, p[1]) \in DOMAIN at
    BY <1>1, <1>2, FirstStep
  <2>2. Shaped(at, Here)
    BY HereHas, ValueShaped
  <2>3. at[Here].type = IF p[1].isIdx THEN "L" ELSE "M"
    BY <2>1, <2>2 DEF Shaped
  <2> QED BY <2>3
<1> QED BY <1>1, <1>2 DEF Ground, Visible

CloneOf(doc, at) == Clones(doc, at) /\ Ground(at) /\ IsValue(at)

LEMMA CloneAbove ==
    ASSUME NEW doc, NEW at, CloneOf(doc, at), NEW p \in DOMAIN at, p # Here
    PROVE  Shaped(doc.at, p) /\ doc.at[p] = at[p]
<1>1. p \in Paths /\ Visible(p)
  BY DEF CloneOf, Ground, IsTree
<1>2. doc.at[p] = at[p] /\ DOMAIN doc.at = DOMAIN at \union DOMAIN Sent
  BY DEF CloneOf, Clones
<1>3. \A q \in DOMAIN Sent : ~Visible(q)
  BY SentFacts, SentPaths DEF SentAt
<1>4. ASSUME NEW e \in Steps PROVE Slot(p, e) \in DOMAIN doc.at <=> Slot(p, e) \in DOMAIN at
  BY <1>1, <1>2, <1>3, SlotVisible
<1>5. Shaped(at, p)
  BY <1>1, ValueShaped DEF CloneOf
<1> QED BY <1>2, <1>4, <1>5, ShapedAs

LEMMA CloneBeside ==
    ASSUME NEW doc, NEW at, CloneOf(doc, at), NEW v \in DOMAIN Refs, NEW q \in DOMAIN Refs[v],
           NEW p, p = Join(RefPath(v), q)
    PROVE  Shaped(doc.at, p) /\ doc.at[p] = Refs[v][q]
<1>1. q \in Paths /\ p \in Paths /\ p # Here /\ p \in DOMAIN Sent /\ ~Visible(p) /\ p[1] = Index(v)
      /\ Sent[p] = Refs[v][q]
  BY SentPaths, SentFacts
<1>2. doc.at[p] = Refs[v][q] /\ DOMAIN doc.at = DOMAIN at \union DOMAIN Sent
  BY <1>1 DEF CloneOf, Clones
<1>3. RefPath(v) \in Paths
  BY RefPathFacts
<1>4. ASSUME NEW e \in Steps PROVE Slot(p, e) \in DOMAIN doc.at <=> Slot(q, e) \in DOMAIN Refs[v]
  <2>1. Slot(p, e) = Join(RefPath(v), Slot(q, e))
    BY <1>1, <1>3, SlotOfJoin
  <2>2. ASSUME Slot(q, e) \in DOMAIN Refs[v] PROVE Slot(p, e) \in DOMAIN doc.at
    BY <1>2, <2>1, <2>2, SentFacts
  <2>3. ASSUME Slot(p, e) \in DOMAIN doc.at PROVE Slot(q, e) \in DOMAIN Refs[v]
    <3>1. PICK s : s = Slot(p, e)
      OBVIOUS
    <3>2. ~Visible(s) /\ s[1] = p[1]
      BY <1>1, <3>1, SlotVisible
    <3>3. s \notin DOMAIN at
      BY <3>2 DEF CloneOf, Ground
    <3>4. PICK w \in DOMAIN Refs : s \in SentAt(w)
      BY <1>2, <2>3, <3>1, <3>3, SentFacts
    <3>5. PICK r \in DOMAIN Refs[w] : s = Join(RefPath(w), r)
      BY <3>4 DEF SentAt
    <3>6. r \in Paths /\ s[1] = Index(w)
      BY <3>5, SentPaths
    <3>7. w = v
      <4>1. Index(w).index = Index(v).index
        BY <1>1, <3>2, <3>6
      <4> QED BY <4>1, IndexIs
    <3>8. Slot(q, e) \in Paths /\ Join(RefPath(v), r) = Join(RefPath(v), Slot(q, e))
      BY <1>1, <2>1, <3>1, <3>5, <3>7, SlotFacts
    <3>9. r = Slot(q, e)
      BY <1>3, <3>6, <3>8, JoinOnce
    <3> QED BY <3>5, <3>7, <3>9
  <2> QED BY <2>2, <2>3
<1>5. Shaped(Refs[v], q)
  BY <1>1, ValueShaped, RefsAssumption DEF RefsAssumption
<1> QED BY <1>2, <1>4, <1>5, ShapedAs

LEMMA CloneSound ==
    ASSUME NEW at, WellFormed(at)
    PROVE  Sound(cloneItem(at), {})
<1>1. IsValue(at) /\ at[Here].type = "M" /\ (RefsDiffer => AllDiffer(at))
      /\ \A p \in DOMAIN KeyAttributes : p \in DOMAIN at /\ at[p] = KeyAttributes[p]
  BY DEF WellFormed, RefsDiffer
<1>2. Ground(at)
  BY <1>1, WellFormedGround
<1>3. PICK doc : doc = cloneItem(at)
  OBVIOUS
<1>4. Clones(doc, at) /\ Rooted(doc) /\ CloneOf(doc, at)
  BY <1>1, <1>2, <1>3, CloneFacts, CloneRooted DEF CloneOf
<1>5. ASSUME NEW p \in DOMAIN doc.at PROVE NodeOK(doc.at[p]) /\ (p # Here => Shaped(doc.at, p))
  <2>1. CASE p \in DOMAIN at
    <3>1. doc.at[p] = at[p]
      BY <1>4, <2>1 DEF Clones
    <3>2. NodeOK(at[p])
      BY <1>1, <2>1 DEF IsValue, NodeOK, AllDiffer
    <3> QED BY <1>4, <2>1, <3>1, <3>2, CloneAbove
  <2>2. CASE p \notin DOMAIN at
    <3>1. p \in DOMAIN Sent
      BY <1>4, <2>2 DEF Clones
    <3>2. PICK v \in DOMAIN Refs : p \in SentAt(v)
      BY <3>1, SentFacts
    <3>3. PICK q \in DOMAIN Refs[v] : p = Join(RefPath(v), q)
      BY <3>2 DEF SentAt
    <3>4. Shaped(doc.at, p) /\ doc.at[p] = Refs[v][q]
      BY <1>4, <3>3, CloneBeside
    <3>5. Refs[v][q] \in Node
      BY RefsAssumption DEF RefsAssumption, IsValue
    <3>6. RefsDiffer => MembersDiffer(Refs[v][q])
      BY DEF RefsDiffer, AllDiffer
    <3> QED BY <3>4, <3>5, <3>6 DEF NodeOK
  <2> QED BY <2>1, <2>2
<1>6. Heap(doc)
  <2> SUFFICES ASSUME NEW p \in DOMAIN doc.at, NEW q \in DOMAIN doc.at, doc.ref[p] = doc.ref[q]
               PROVE  Alike(doc, p, doc, q)
    BY DEF Heap
  <2>1. Read(p) = Read(q)
    BY <1>4 DEF Clones
  <2>2. Read(p).place = Read(q).place
    BY <2>1
  <2>3. p = q
    BY <2>2 DEF Read
  <2> QED BY <2>3 DEF Alike
<1>7. MadeBy(doc, {})
  <2>1. \A p : ~Read(p).made
    BY DEF Read
  <2>2. \A p \in DOMAIN doc.at : doc.ref[p] = Read(p)
    BY <1>4 DEF Clones
  <2> QED BY <2>1, <2>2 DEF MadeBy
<1>8. KeyKept(doc)
  BY <1>1, <1>4 DEF KeyKept, Clones
<1>9. NodesOK(doc) /\ \A p \in DOMAIN doc.at : p # Here => Shaped(doc.at, p)
  BY <1>5 DEF NodesOK
<1>10. Sound(doc, {})
  BY <1>4, <1>6, <1>7, <1>8, <1>9 DEF Sound
<1> QED BY <1>3, <1>10

-----------------------------------------------------------------------------
(* What an update stores is well-formed                                    *)

LEMMA AttributesValue ==
    ASSUME NEW doc, NEW done, Sound(doc, done), NEW at, at = Attributes(doc)
    PROVE  /\ IsValue(at) /\ at[Here].type = "M" /\ (RefsDiffer => AllDiffer(at))
           /\ \A p \in DOMAIN KeyAttributes : p \in DOMAIN at /\ at[p] = KeyAttributes[p]
<1>1. Tree(doc) /\ NodesOK(doc) /\ KeyKept(doc) /\ \A p \in DOMAIN doc.at : p # Here => Shaped(doc.at, p)
  BY DEF Sound, Rooted
<1>2. /\ \A p : p \in DOMAIN at <=> p \in DOMAIN doc.at /\ Visible(p)
      /\ \A p \in DOMAIN at : at[p] = doc.at[p]
  BY AttributesFacts
<1>3. Ground(at) /\ IsTree(DOMAIN at)
  BY <1>1, AttributesGround DEF Ground
<1>4. \A p \in DOMAIN KeyAttributes : p \in DOMAIN at /\ at[p] = KeyAttributes[p]
  BY <1>1, <1>2, KeyGround DEF KeyKept, Ground
<1>5. at[Here].type = "M"
  BY <1>4, KeyAttributesAssumption DEF KeyAttributesAssumption, IsValue, IsTree
<1>6. \A p \in DOMAIN at : NodeOK(at[p])
  BY <1>1, <1>2 DEF NodesOK
<1>7. ASSUME NEW p \in DOMAIN at \ {Here}
      PROVE  /\ at[Front(p)].type = IF Last(p).isIdx THEN "L" ELSE "M"
             /\ Last(p).isIdx /\ Last(p).index > 0
                  => Append(Front(p), Index(Last(p).index - 1)) \in DOMAIN at
  <2>1. PICK f : f = Front(p)
    OBVIOUS
  <2>2. PICK e : e = Last(p)
    OBVIOUS
  <2>3. p \in Paths /\ f \in DOMAIN at
    BY <1>3, <2>1 DEF IsTree
  <2>4. f \in Paths /\ e \in Steps /\ p = Slot(f, e) /\ Len(f) = Len(p) - 1
    BY <2>1, <2>2, <2>3, SlotOfFront
  <2>5. CASE f = Here
    <3>1. p[1] = e /\ ~p[1].isIdx
      BY <1>2, <2>4, <2>5, TopSlot DEF Visible
    <3> QED BY <1>5, <2>1, <2>2, <2>5, <3>1
  <2>6. CASE f # Here
    <3>1. f \in DOMAIN doc.at /\ Visible(f) /\ Slot(f, e) \in DOMAIN doc.at /\ at[f] = doc.at[f]
      BY <1>2, <2>3, <2>4
    <3>2. /\ doc.at[f].type = IF e.isIdx THEN "L" ELSE "M"
          /\ e.isIdx /\ e.index > 0 => Slot(f, Index(e.index - 1)) \in DOMAIN doc.at
      BY <1>1, <2>4, <2>6, <3>1 DEF Shaped
    <3>3. ASSUME e.isIdx, e.index > 0 PROVE Slot(f, Index(e.index - 1)) \in DOMAIN at
      <4>1. Index(e.index - 1) \in Steps
        BY <2>4, <3>3, StepBefore
      <4>2. Visible(Slot(f, Index(e.index - 1)))
        BY <2>4, <2>6, <3>1, <4>1, SlotVisible
      <4> QED BY <1>2, <3>2, <3>3, <4>2
    <3> QED BY <2>1, <2>2, <3>1, <3>2, <3>3 DEF Slot
  <2> QED BY <2>5, <2>6
<1>8. \A p \in DOMAIN at : at[p] \in Node
  BY <1>6 DEF NodeOK
<1>9. IsValue(at)
  BY <1>3, <1>7, <1>8 DEF IsValue
<1>10. RefsDiffer => AllDiffer(at)
  BY <1>6 DEF NodeOK, AllDiffer
<1> QED BY <1>4, <1>5, <1>9, <1>10

LEMMA KeyWellFormed == WellFormed(KeyAttributes)
<1>1. /\ IsValue(KeyAttributes) /\ KeyAttributes[Here].type = "M"
      /\ \A p \in DOMAIN KeyAttributes \ {Here} : KeyAttributes[p].type \in {"S", "N", "B"}
      /\ validateItem(KeyAttributes) /\ itemSize(KeyAttributes) <= MaxItemSize
  BY KeyAttributesAssumption DEF KeyAttributesAssumption
<1>2. AllDiffer(KeyAttributes)
  BY <1>1 DEF AllDiffer, MembersDiffer, Sets
<1> QED BY <1>1, <1>2 DEF WellFormed

LEMMA BaseWellFormed == TypeOK => WellFormed(Base)
BY KeyWellFormed DEF TypeOK, Base

LEMMA VerdictOf ==
    ASSUME NEW doc, Verdicts({doc}) = {"ok"}
    PROVE  doc # Cyclic /\ validateItem(Attributes(doc)) /\ itemSize(Attributes(doc)) <= MaxItemSize
<1>1. ASSUME doc = Cyclic PROVE "died" \in Verdicts({doc})
  BY <1>1 DEF Verdicts
<1>2. ASSUME doc # Cyclic
      PROVE  (IF ~validateItem(Attributes(doc)) THEN "invalid"
              ELSE IF itemSize(Attributes(doc)) <= MaxItemSize THEN "ok" ELSE "too large") \in Verdicts({doc})
  BY <1>2 DEF Verdicts
<1> QED BY <1>1, <1>2

LEMMA VerdictsTyped == \A docs : Verdicts(docs) \subseteq Outcomes
<1> SUFFICES ASSUME NEW docs, NEW d \in docs
             PROVE  (CASE d = Cyclic -> "died"
                       [] d # Cyclic -> IF ~validateItem(Attributes(d)) THEN "invalid"
                                        ELSE IF itemSize(Attributes(d)) <= MaxItemSize THEN "ok"
                                        ELSE "too large") \in Outcomes
  BY DEF Verdicts
<1>1. CASE d = Cyclic
  BY <1>1 DEF Outcomes
<1>2. CASE d # Cyclic
  BY <1>2 DEF Outcomes
<1> QED BY <1>1, <1>2

LEMMA UpdateTyped ==
    ASSUME TypeOK, NEW u \in Updates, Update(u)
    PROVE  TypeOK'
<1>1. PICK doc \in applyUpdate(Base, u.actions) :
        /\ Verdicts({doc}) = {"ok"} /\ item' = Attributes(doc)
        /\ \E old, new : reply' = [request |-> u, outcome |-> "ok", old |-> old, new |-> new]
  BY DEF Update
<1>2. doc # Cyclic /\ validateItem(Attributes(doc)) /\ itemSize(Attributes(doc)) <= MaxItemSize
  BY <1>1, VerdictOf
<1>3. Sound(cloneItem(Base), {})
  BY BaseWellFormed, CloneSound
<1>4. Sound(doc, Named(u.actions))
  BY <1>1, <1>2, <1>3, UpdateSound DEF SoundIn, Update
<1>5. /\ IsValue(item') /\ item'[Here].type = "M" /\ (RefsDiffer => AllDiffer(item'))
      /\ \A p \in DOMAIN KeyAttributes : p \in DOMAIN item' /\ item'[p] = KeyAttributes[p]
  BY <1>1, <1>4, AttributesValue
<1>6. WellFormed(item')
  BY <1>1, <1>2, <1>5 DEF WellFormed, RefsDiffer
<1>7. reply'.outcome \in Outcomes
  BY <1>1 DEF Outcomes
<1> QED BY <1>6, <1>7 DEF TypeOK

LEMMA OtherwiseTyped ==
    ASSUME TypeOK, NEW u \in Updates, Refuse(u) \/ FailCondition(u) \/ FailUpdate(u)
    PROVE  TypeOK'
<1>1. item' = item
  BY Otherwise
<1>2. reply'.outcome \in Outcomes
  <2>1. ASSUME NEW outcome \in Outcomes, Answer(u, outcome) PROVE reply'.outcome \in Outcomes
    BY <2>1 DEF Answer
  <2>2. CASE Refuse(u)
    BY <2>1, <2>2 DEF Refuse, Outcomes
  <2>3. CASE FailCondition(u)
    BY <2>1, <2>3 DEF FailCondition, Outcomes
  <2>4. CASE FailUpdate(u)
    <3>1. PICK verdicts : verdicts = Verdicts(applyUpdate(Base, u.actions))
      OBVIOUS
    <3>2. PICK outcome : outcome = IF verdicts = {} THEN "invalid" ELSE CHOOSE v \in verdicts : TRUE
      OBVIOUS
    <3>3. Answer(u, outcome)
      BY <2>4, <3>1, <3>2 DEF FailUpdate
    <3>4. outcome \in Outcomes
      <4>1. verdicts \subseteq Outcomes
        BY <3>1, VerdictsTyped
      <4>2. "invalid" \in Outcomes
        BY DEF Outcomes
      <4>3. verdicts # {} => (CHOOSE v \in verdicts : TRUE) \in verdicts
        OBVIOUS
      <4> QED BY <3>2, <4>1, <4>2, <4>3
    <3> QED BY <2>1, <3>3, <3>4
  <2> QED BY <2>2, <2>3, <2>4
<1> QED BY <1>1, <1>2 DEF TypeOK

(* Every item that updates leave is well-formed: a map whose lists have no *)
(* gaps, with its key as it was, with no member of a set twice, of valid   *)
(* numbers and of a size that may be stored, whatever containers the       *)
(* update shared or moved in its copy of the item (applyUpdate, setPath,   *)
(* applyRemove, validateItem).                                             *)
THEOREM DocumentsTypeCorrect == Spec => []TypeOK
<1>1. Init => TypeOK
  BY KeyWellFormed DEF Init, TypeOK, Outcomes
<1>2. TypeOK /\ [Next]_vars => TypeOK'
  <2> SUFFICES ASSUME TypeOK, [Next]_vars PROVE TypeOK'
    OBVIOUS
  <2>1. CASE UNCHANGED vars
    BY <2>1 DEF vars, TypeOK
  <2>2. CASE Next
    BY <2>2, UpdateTyped, OtherwiseTyped DEF Next
  <2> QED BY <2>1, <2>2
<1> QED BY <1>1, <1>2, PTL DEF Spec

(* Conditions agree with one another on every item an update leaves, on    *)
(* the key alone and on a missing item, whatever values they compare       *)
(* (evalCmp, compareOrder, avEqual, evalBetween, evalIn).                  *)
THEOREM ConditionsCoherentHolds == Spec => []ConditionsCoherent
<1>1. TypeOK => ConditionsCoherent
  BY CurrentValue, ConditionsAgree
<1> QED BY <1>1, DocumentsTypeCorrect, PTL


-----------------------------------------------------------------------------
(* Sets behave as sets                                                     *)

LEMMA DiffMembers ==
    ASSUME NEW X, NEW type, Equates(type, X), NEW a \in Seq(X), NEW b \in Seq(X),
           NEW u, u = diff(type, a, b), NEW x \in X
    PROVE  HasMember(type, u, x) <=> HasMember(type, a, x) /\ ~HasMember(type, b, x)
BY DiffFacts

NodeAt(doc, path, node) == path \in DOMAIN doc.at /\ doc.at[path] = node

(* What setPath assigns is found at its path.                              *)
LEMMA Placed ==
    ASSUME NEW doc, Tree(doc), NEW as, Apart(as), NEW ops, Owns(doc, as, ops),
           NEW path \in PathsOf(as, ops), NEW sub, Branch(sub),
           NEW out \in setPath(doc, path, sub), out # Cyclic
    PROVE  NodeAt(out, path, sub.at[Here])
<1>1. path \in Named(as) /\ path \in Paths /\ path # Here
  BY PathsOfNamed DEF Apart
<1>2. \E x, el, chain : /\ SetGives(out, doc, path, x, el, chain)
                        /\ \E rest : SetOf(doc, path, x, el, chain, rest, sub)
  BY <1>1, SetFacts
<1>3. PICK x, el, chain : /\ SetGives(out, doc, path, x, el, chain)
                          /\ \E rest : SetOf(doc, path, x, el, chain, rest, sub)
  BY <1>2
<1>4. PICK rest : SetOf(doc, path, x, el, chain, rest, sub)
  BY <1>3
<1>5. /\ Branch(chain) /\ Tree(chain) /\ out = Put(doc, x, el, chain)
      /\ x \in DOMAIN doc.at /\ x \in Paths /\ el \in Steps /\ IsPrefix(Append(x, el), path)
  BY <1>3 DEF SetGives, Branch, Tree, IsTree
<1>6. rest \in Paths /\ path = CopyAt(x, el, rest) /\ DOMAIN chain.at = Nodes(rest, sub)
  BY <1>4 DEF SetOf, CopyAt
<1>7. PutGives(out, doc, x, el, chain)
  BY <1>5, PutFacts
<1>8. ASSUME NEW y \in Places(doc, x), y \in Paths, IsPrefix(Append(y, el), path) PROVE y = x
  <2>1. Steady(y, as, ops) /\ IsPrefix(y, y)
    BY <1>5, <1>8, TrunkSteady, LeadsToItself
  <2> QED BY <1>5, <1>8, <2>1, OnePlace, Zenon
<1>9. x \in Places(doc, x) \intersect Kept(doc, x, el)
  <2>1. x \in Places(doc, x)
    BY <1>5 DEF Places
  <2>2. Steady(x, as, ops)
    BY <1>5, TrunkSteady
  <2>3. Once(doc, x, x)
    BY <1>5, <2>2, SteadyOnce
  <2>4. ~\E y \in Places(doc, x) : Len(y) < Len(x) /\ IsPrefix(y, x) /\ x[Len(y) + 1] = el
    <3>1. Len(x) \in Nat /\ ~(Len(x) < Len(x))
      BY <1>5, PathFacts
    <3> QED BY <2>3, <3>1 DEF Once
  <2> QED BY <1>5, <2>1, <2>4, KeptFacts
<1>10. rest \in DOMAIN chain.at
  <2>1. Here \in DOMAIN sub.at /\ rest = Join(rest, Here)
    BY <1>6, JoinHere DEF Branch, Tree, IsTree
  <2> QED BY <1>6, <2>1 DEF Nodes
<1>11. path \in Copies(doc, x, el, chain)
  BY <1>6, <1>9, <1>10, InCopies
<1>12. PICK y \in Places(doc, x) \intersect Kept(doc, x, el) : \E t \in DOMAIN chain.at :
          path = CopyAt(y, el, t) /\ out.at[path] = chain.at[t]
  BY <1>7, <1>11 DEF PutGives
<1>13. PICK t \in DOMAIN chain.at : path = CopyAt(y, el, t) /\ out.at[path] = chain.at[t]
  BY <1>12
<1>14. y \in Paths /\ t \in Paths
  BY <1>5, KeptFacts DEF Tree, IsTree
<1>15. IsPrefix(Append(y, el), path)
  BY <1>5, <1>13, <1>14, SlotLeads
<1>16. y = x
  BY <1>8, <1>14, <1>15
<1>17. t = rest
  <2>1. Slot(x, el) \in Paths /\ Join(Slot(x, el), t) = Join(Slot(x, el), rest)
    BY <1>5, <1>6, <1>13, <1>16, SlotFacts DEF CopyAt
  <2> QED BY <1>6, <1>14, <2>1, JoinOnce
<1>18. chain.at[rest] = sub.at[Here]
  <2>1. ChainNode(chain, path, x, el, rest, sub, rest)
    BY <1>4, <1>6, <1>10 DEF SetOf
  <2>2. rest \notin Maps(rest)
    <3>1. ASSUME rest \in Maps(rest) PROVE FALSE
      BY <1>6, <3>1, MapBelow
    <3> QED BY <3>1
  <2>3. PICK q \in DOMAIN sub.at : rest = Join(rest, q) /\ chain.at[rest] = sub.at[q]
    BY <2>1, <2>2 DEF ChainNode
  <2>4. q \in Paths /\ Join(rest, q) = Join(rest, Here)
    BY <1>6, <2>3, JoinHere DEF Branch, Tree, IsTree
  <2>5. q = Here
    BY <1>6, <2>4, JoinOnce, HereHas
  <2> QED BY <2>3, <2>5
<1> QED BY <1>7, <1>11, <1>13, <1>17, <1>18 DEF PutGives, NodeAt

(* What Cut removes from a map is gone.                                    *)
LEMMA CutGone ==
    ASSUME NEW doc, Tree(doc), NEW x \in DOMAIN doc.at, NEW el \in Steps, ~el.isIdx,
           NEW path, path = Append(x, el), NEW out, out = Cut(doc, x, el)
    PROVE  path \notin DOMAIN out.at
<1> SUFFICES ASSUME path \in DOMAIN out.at PROVE FALSE
  OBVIOUS
<1>1. CutGives(out, doc, x, el)
  BY CutFacts
<1>2. x \in Paths /\ Places(doc, x) \subseteq Paths /\ DOMAIN doc.at \subseteq Paths /\ x \in Places(doc, x)
  BY DEF Tree, IsTree, Places
<1>3. path \in Paths /\ Len(path) = Len(x) + 1 /\ path[Len(x) + 1] = el /\ Len(x) \in Nat
  BY <1>2, StepFacts, PathFacts
<1>4. PICK q \in Kept(doc, x, el) : Moved(Places(doc, x), el, q) = path
  BY <1>1 DEF CutGives
<1>5. q \in DOMAIN doc.at /\ q \in Paths
  BY <1>2 DEF Kept
<1>6. \A i \in 1..Len(q) : ~Turns(Places(doc, x), el, q, i)
  BY DEF Turns
<1>7. Len(path) = Len(q) /\ \A i \in 1..Len(q) : path[i] = q[i]
  BY <1>2, <1>4, <1>5, <1>6, MovedFacts
<1>8. q = path
  BY <1>3, <1>5, <1>7, SamePath
<1>9. IsPrefix(path, path)
  BY <1>3, LeadsToItself
<1>10. IsPrefix(x, path)
  BY <1>2, <1>3, <1>9, StepLeads
<1>11. Len(x) < Len(path) /\ IsPrefix(x, path) /\ path[Len(x) + 1] = el
  BY <1>3, <1>10
<1> QED BY <1>2, <1>4, <1>5, <1>8, <1>11, KeptFacts

(* An action leaves what another one names alone, unless it moves.         *)
LEMMA OtherSpares ==
    ASSUME NEW as, Apart(as), Independent(as), NEW left, NEW i \in 1..Len(as), Phase(left, as[i].op),
           IsAction(as[i]), NEW at, NEW doc, doc # Cyclic, Good(doc, as, left, at),
           NEW out \in applyAction(doc, as[i]), out # Cyclic,
           NEW p \in Named(as), p # as[i].path, ~Moves(p, as)
    PROVE  Agree(p, doc.at, out.at)
<1> DEFINE a == as[i]
<1>1. /\ a.path \in PathsOf(as, left) /\ a.path \in Paths /\ a.path # Here /\ a.path \in Named(as)
      /\ a.op \in {"remove", "delete"} /\ Last(a.path).isIdx => a.path \in Leaving(as)
  BY InPhase, PathsOfNamed DEF IsAction, AttributePaths, Here
<1>2. Rooted(doc) /\ Tree(doc) /\ Owns(doc, as, left)
  BY DEF Good, Rooted
<1>3. p \in Paths /\ ~IsPrefix(a.path, p) /\ ~IsPrefix(p, a.path)
  BY <1>1 DEF Apart
<1>4. Acts(out, doc, a)
  BY <1>2, ActionActs
<1> HIDE DEF a
<1>5. ASSUME NEW x, NEW el, NEW chain, SetGives(out, doc, a.path, x, el, chain)
      PROVE  Agree(p, doc.at, out.at)
  <2>1. x \in DOMAIN doc.at /\ el \in Steps /\ IsPrefix(Append(x, el), a.path)
    BY <1>5 DEF SetGives
  <2>2. Once(doc, x, p)
    BY <1>1, <1>2, <2>1, NamedOnce
  <2> QED BY <1>1, <1>2, <1>3, <1>5, <2>2, PutBeside
<1>6. ASSUME a.op \in {"remove", "delete"}, Front(a.path) \in DOMAIN doc.at,
             out = Cut(doc, Front(a.path), Last(a.path))
      PROVE  Agree(p, doc.at, out.at)
  <2>1. PICK x \in DOMAIN doc.at : x = Front(a.path)
    BY <1>6
  <2>2. PICK el \in Steps : el = Last(a.path)
    BY <1>1, FrontFacts
  <2>3. a.path = Append(x, el) /\ IsPrefix(Append(x, el), a.path)
    BY <1>1, <2>1, <2>2, FrontFacts, LeadsToItself
  <2>4. Once(doc, x, p)
    BY <1>1, <1>2, <2>3, NamedOnce
  <2>5. el.isIdx => ~Follows(p, a.path)
    BY <1>1, <1>6, <2>2 DEF Moves
  <2>6. out = Cut(doc, x, el)
    BY <1>6, <2>1, <2>2
  <2> QED BY <1>2, <1>3, <2>3, <2>4, <2>5, <2>6, CutBeside
<1>7. CASE out = doc
  BY <1>7 DEF Agree
<1> QED BY <1>4, <1>5, <1>6, <1>7 DEF Acts

(* What ADD and DELETE do to the set at their path.                        *)
SetActs(at1, at2, path, op, node) ==
    /\ node.type \in Sets /\ Contents(node) \in Seq(Kind(node.type))
    /\ path \in DOMAIN at1 => at1[path] \in Node /\ at1[path].type = node.type
    /\ path \in DOMAIN at2 =>
          at2[path].type = node.type /\ Contents(at2[path]) \in Seq(Kind(node.type))
    /\ \A x \in Kind(node.type) :
          IsIn(x, at2, path) <=>
              IF op = "add" THEN IsIn(x, at1, path) \/ HasMember(node.type, Contents(node), x)
              ELSE IsIn(x, at1, path) /\ ~HasMember(node.type, Contents(node), x)

LEMMA SetActsAs ==
    ASSUME NEW path, NEW op, NEW node, NEW at1, NEW at2, SetActs(at1, at2, path, op, node),
           NEW b1, Agree(path, b1, at1), NEW b2, Agree(path, at2, b2)
    PROVE  SetActs(b1, b2, path, op, node)
<1>1. \A x : IsIn(x, b1, path) <=> IsIn(x, at1, path)
  BY DEF IsIn, Agree
<1>2. \A x : IsIn(x, b2, path) <=> IsIn(x, at2, path)
  BY DEF IsIn, Agree
<1>3. /\ path \in DOMAIN b1 <=> path \in DOMAIN at1
      /\ path \in DOMAIN b1 => b1[path] = at1[path]
      /\ path \in DOMAIN b2 <=> path \in DOMAIN at2
      /\ path \in DOMAIN b2 => b2[path] = at2[path]
  BY DEF Agree
<1> QED BY <1>1, <1>2, <1>3 DEF SetActs

LEMMA SetContents ==
    ASSUME NEW node \in Node, node.type \in Sets
    PROVE  Contents(node) \in Seq(Kind(node.type))
<1>1. /\ node.type \in {"SS", "BS"} => node.members \in Seq(Seq(Byte))
      /\ node.type = "NS" => node.nums \in Seq(Numerals)
  BY NodeParts
<1> QED BY <1>1 DEF Contents, Kind, Sets

LEMMA WrittenContents ==
    ASSUME NEW type \in Sets, NEW seq, NEW node, node = WithContents(type, seq).at[Here]
    PROVE  node.type = type /\ Contents(node) = seq
<1>1. node = IF type = "NS" THEN [type |-> type, nums |-> seq] ELSE [type |-> type, members |-> seq]
  BY DEF WithContents, Given, Scalar
<1>2. CASE type = "NS"
  <2>1. node = [type |-> type, nums |-> seq]
    BY <1>1, <1>2
  <2> QED BY <1>2, <2>1 DEF Contents
<1>3. CASE type # "NS"
  <2>1. node = [type |-> type, members |-> seq]
    BY <1>1, <1>3
  <2> QED BY <1>3, <2>1 DEF Contents
<1> QED BY <1>2, <1>3

LEMMA IsInSet ==
    ASSUME NEW at, NEW path \in DOMAIN at, NEW type \in Sets, at[path].type = type,
           NEW s, Contents(at[path]) = s, NEW x
    PROVE  IsIn(x, at, path) <=> HasMember(type, s, x)
BY DEF IsIn

(* An action on a set.                                                     *)
SetAction(as, i) ==
    /\ as[i].op \in {"add", "delete"} /\ as[i].value.kind = "value"
    /\ as[i].value.vref \in DOMAIN Refs => Refs[as[i].value.vref][Here].type \in Sets
    /\ as[i].path \notin Leaving(as)

(* The values that were sent are where they were.                          *)
Keeping(at) == \A v \in DOMAIN Refs : RefPath(v) \in DOMAIN at /\ at[RefPath(v)] = Refs[v][Here]

LEMMA RefNode == \A v \in DOMAIN Refs : Refs[v][Here] \in Node
BY RefsAssumption DEF RefsAssumption, IsValue, IsTree

LEMMA SentNode ==
    ASSUME NEW doc, Rooted(doc), Keeping(doc.at), NEW v \in DOMAIN Refs,
           NEW sub, sub = Subdocument(doc, RefPath(v))
    PROVE  sub.at[Here] = Refs[v][Here]
<1>1. RefPath(v) \in DOMAIN doc.at /\ doc.at[RefPath(v)] = Refs[v][Here] /\ Tree(doc)
  BY DEF Keeping, Rooted
<1>2. RefPath(v) \in Paths /\ Join(RefPath(v), Here) = RefPath(v)
  BY <1>1, JoinHere DEF Tree, IsTree
<1>3. Here \in DOMAIN sub.at /\ sub.at[Here] = doc.at[Join(RefPath(v), Here)]
  BY <1>1, <1>2, SubdocumentFacts, HereHas
<1> QED BY <1>1, <1>2, <1>3

LEMMA Doing ==
    ASSUME NEW as, Apart(as), NEW i \in 1..Len(as), SetAction(as, i), IsAction(as[i]),
           NEW doc, doc # Cyclic, Rooted(doc), Owns(doc, as, AllOps), Keeping(doc.at),
           as[i].path \in DOMAIN doc.at => doc.at[as[i].path] \in Node,
           NEW out \in applyAction(doc, as[i]), out # Cyclic
    PROVE  SetActs(doc.at, out.at, as[i].path, as[i].op, Refs[as[i].value.vref][Here])
<1> DEFINE a == as[i]
<1>1. PICK path : path = a.path
  OBVIOUS
<1>2. /\ path \in PathsOf(as, AllOps) /\ path \in Paths /\ path # Here /\ Tree(doc)
      /\ a.op = "delete" => ~Last(path).isIdx
  <2>1. Phase(AllOps, a.op)
    BY DEF SetAction, Phase
  <2>2. /\ a.path \in PathsOf(as, AllOps)
        /\ a.op \in {"remove", "delete"} /\ Last(a.path).isIdx => a.path \in Leaving(as)
    BY <2>1, InPhase
  <2> QED BY <1>1, <2>2 DEF SetAction, IsAction, AttributePaths, Here, Rooted
<1>3. PICK v \in operandValue(a.value, doc) :
         out \in IF a.op = "add" THEN Add(doc, path, v) ELSE Delete(doc, path, v)
  <2>1. CASE a.op = "add"
    BY <1>1, <2>1 DEF applyAction
  <2>2. CASE a.op = "delete"
    BY <1>1, <2>2 DEF applyAction
  <2> QED BY <2>1, <2>2 DEF SetAction
<1>4. a.value.vref \in DOMAIN Refs /\ v = Subdocument(doc, RefPath(a.value.vref))
  BY <1>3 DEF operandValue, Erroneous, SetAction
<1>5. Branch(v)
  <2>1. IsOperand(a.value)
    BY DEF IsAction, SetAction
  <2> QED BY <1>3, <2>1, OperandTree
<1>6. PICK node : node = Refs[a.value.vref][Here]
  OBVIOUS
<1>7. v.at[Here] = node /\ node \in Node /\ node.type \in Sets
  BY <1>4, <1>6, SentNode, RefNode DEF SetAction
<1>8. PICK type \in Sets : type = node.type
  BY <1>7
<1>9. PICK b : b = Contents(node)
  OBVIOUS
<1>10. b \in Seq(Kind(type)) /\ Equates(type, Kind(type)) /\ type # "N"
  BY <1>7, <1>8, <1>9, SetContents, KindEquates DEF Sets
<1>11. PICK op \in {"add", "delete"} : op = a.op
  BY DEF SetAction
<1> HIDE DEF a
<1>12. SUFFICES SetActs(doc.at, out.at, path, op, node)
  BY <1>1, <1>6, <1>11 DEF a
<1>13. path \in DOMAIN doc.at => doc.at[path] \in Node
  BY <1>1 DEF a
(* The set has been written.                                               *)
<1>14. ASSUME NEW sub, Branch(sub), out \in setPath(doc, path, sub)
       PROVE  path \in DOMAIN out.at /\ out.at[path] = sub.at[Here]
  <2>1. PICK ops : ops = AllOps
    OBVIOUS
  <2>2. Tree(doc) /\ Owns(doc, as, ops) /\ path \in PathsOf(as, ops)
    BY <1>2, <2>1
  <2>3. NodeAt(out, path, sub.at[Here])
    BY <1>14, <2>2, Placed
  <2> QED BY <2>3 DEF NodeAt
<1>15. \A s : Branch(WithContents(type, s))
  BY ScalarTree DEF WithContents
<1>17. node.type = type /\ type \in Sets /\ Contents(node) = b /\ b \in Seq(Kind(type))
  BY <1>7, <1>8, <1>9, <1>10
<1>16. CASE path \notin DOMAIN doc.at
  <2>1. resolvePath(doc.at, path) = {}
    BY <1>16 DEF resolvePath
  <2>2. \A x : ~IsIn(x, doc.at, path)
    BY <1>16 DEF IsIn
  <2>3. CASE op = "add"
    <3>1. out \in setPath(doc, path, v)
      BY <1>3, <1>7, <1>11, <2>1, <2>3 DEF Add
    <3>2. path \in DOMAIN out.at /\ out.at[path] = node
      BY <1>5, <1>7, <1>14, <3>1
    <3>3. \A x : IsIn(x, out.at, path) <=> HasMember(type, b, x)
      BY <1>8, <1>9, <3>2, IsInSet
    <3> QED BY <1>8, <1>9, <1>16, <1>17, <2>2, <2>3, <3>2, <3>3 DEF SetActs
  <2>4. CASE op = "delete"
    <3>1. out = doc
      BY <1>3, <1>11, <2>1, <2>4 DEF Delete
    <3> QED BY <1>16, <1>17, <2>2, <2>4, <3>1 DEF SetActs
  <2> QED BY <2>3, <2>4
<1>18. CASE path \in DOMAIN doc.at
  <2>1. resolvePath(doc.at, path) # {}
    BY <1>2, <1>18 DEF resolvePath
  <2>2. PICK cur : cur = doc.at[path]
    OBVIOUS
  <2>3. PICK s : s = Contents(cur)
    OBVIOUS
  <2>4. cur \in Node /\ (cur.type = type => s \in Seq(Kind(type)))
    BY <1>8, <1>13, <1>18, <2>2, <2>3, SetContents
  <2>5. CASE op = "add"
    <3>1. PICK u : u = union(type, s, b)
      OBVIOUS
    <3>2. cur.type = type /\ out \in setPath(doc, path, WithContents(type, u))
      BY <1>3, <1>7, <1>8, <1>9, <1>10, <1>11, <2>1, <2>2, <2>3, <2>5, <3>1 DEF Add
    <3>3. path \in DOMAIN out.at /\ out.at[path] = WithContents(type, u).at[Here]
      BY <1>14, <1>15, <3>2
    <3>4. out.at[path].type = type /\ Contents(out.at[path]) = u
      BY <3>3, WrittenContents
    <3>5. /\ u \in Seq(Kind(type))
          /\ \A x \in Kind(type) : HasMember(type, u, x) <=> HasMember(type, s, x) \/ HasMember(type, b, x)
      <4>1. PICK X : X = Kind(type)
        OBVIOUS
      <4>2. s \in Seq(X) /\ b \in Seq(X) /\ Equates(type, X)
        BY <1>10, <2>4, <3>2, <4>1
      <4> QED BY <3>1, <4>1, <4>2, UnionFacts
    <3>6. \A x : IsIn(x, out.at, path) <=> HasMember(type, u, x)
      BY <3>3, <3>4, IsInSet
    <3>7. \A x : IsIn(x, doc.at, path) <=> HasMember(type, s, x)
      BY <1>18, <2>2, <2>3, <3>2, IsInSet
    <3> QED BY <1>17, <2>2, <2>4, <2>5, <3>2, <3>4, <3>5, <3>6, <3>7 DEF SetActs
  <2>6. CASE op = "delete"
    <3>1. PICK d : d = diff(type, s, b)
      OBVIOUS
    <3>2. /\ cur.type = type
          /\ IF d = <<>> THEN out \in applyRemove(doc, path)
             ELSE out \in setPath(doc, path, WithContents(type, d))
      BY <1>3, <1>7, <1>8, <1>9, <1>11, <2>1, <2>2, <2>3, <2>6, <3>1 DEF Delete
    <3>3. /\ d \in Seq(Kind(type))
          /\ \A x \in Kind(type) : HasMember(type, d, x) <=> HasMember(type, s, x) /\ ~HasMember(type, b, x)
      <4>1. PICK X : X = Kind(type)
        OBVIOUS
      <4>2. s \in Seq(X) /\ b \in Seq(X) /\ Equates(type, X)
        BY <1>10, <2>4, <3>2, <4>1
      <4>3. d \in Seq(X)
        BY <3>1, <4>2, DiffFacts
      <4>4. \A x \in X : HasMember(type, d, x) <=> HasMember(type, s, x) /\ ~HasMember(type, b, x)
        BY <3>1, <4>2, DiffMembers
      <4> QED BY <4>1, <4>3, <4>4
    <3>4. \A x : IsIn(x, doc.at, path) <=> HasMember(type, s, x)
      BY <1>18, <2>2, <2>3, <3>2, IsInSet
    <3>5. CASE d = <<>>
      <4>1. PICK parent \in DOMAIN doc.at : parent = Front(path)
        BY <1>2, <1>18 DEF Tree, IsTree
      <4>2. PICK el \in Steps : el = Last(path)
        BY <1>2, FrontFacts
      <4>3. path = Append(parent, el) /\ ~el.isIdx
        BY <1>2, <1>11, <2>6, <4>1, <4>2, FrontFacts DEF a
      <4>4. out = Cut(doc, parent, el)
        BY <3>2, <3>5, <4>1, <4>2, <4>3 DEF applyRemove
      <4>5. path \notin DOMAIN out.at
        BY <1>2, <4>3, <4>4, CutGone
      <4>6. \A x : ~HasMember(type, d, x)
        <5>1. \A x : HasMember(type, d, x) <=> \E j \in 1..Len(d) : Same(type, d[j], x)
          BY HasSame
        <5>2. Len(d) = 0
          BY <3>5
        <5> QED BY <5>1, <5>2
      <4>7. \A x : ~IsIn(x, out.at, path)
        BY <4>5 DEF IsIn
      <4> QED BY <1>17, <2>2, <2>4, <2>6, <3>2, <3>3, <3>4, <4>5, <4>6, <4>7 DEF SetActs
    <3>6. CASE d # <<>>
      <4>1. path \in DOMAIN out.at /\ out.at[path] = WithContents(type, d).at[Here]
        BY <1>14, <1>15, <3>2, <3>6
      <4>2. out.at[path].type = type /\ Contents(out.at[path]) = d
        BY <4>1, WrittenContents
      <4>3. \A x : IsIn(x, out.at, path) <=> HasMember(type, d, x)
        BY <4>1, <4>2, IsInSet
      <4> QED BY <1>17, <2>2, <2>4, <2>6, <3>2, <3>3, <3>4, <4>2, <4>3 DEF SetActs
    <3> QED BY <3>5, <3>6
  <2> QED BY <2>5, <2>6
<1> QED BY <1>16, <1>18

(* The values that were sent lie where no action of an update reaches.     *)
LEMMA RefsUntouched ==
    ASSUME NEW as, \A i \in 1..Len(as) : IsAction(as[i]), NEW v \in DOMAIN Refs
    PROVE  Untouched(RefPath(v), as)
<1>1. PICK p \in Paths : p = RefPath(v) /\ Len(p) = 1 /\ p # Here /\ p[1].isIdx
  BY RefPathFacts
<1>2. ASSUME NEW q \in Named(as) PROVE q \in Paths \ {Here} /\ ~q[1].isIdx
  <2>1. PICK i \in 1..Len(as) : q = as[i].path
    BY DEF Named
  <2> QED BY <2>1 DEF IsAction, AttributePaths, Here
<1>3. ASSUME NEW q \in Named(as), pathsOverlap(q, p) PROVE FALSE
  <2>1. q \in Paths \ {Here} /\ p \in Paths \ {Here} /\ ~q[1].isIdx
    BY <1>1, <1>2
  <2>2. p[1] = q[1]
    BY <1>3, <2>1, FirstSteps
  <2> QED BY <1>1, <2>1, <2>2
<1>4. ASSUME NEW r \in Leaving(as), Follows(p, r) PROVE FALSE
  <2>1. r \in Paths /\ r # Here /\ ~r[1].isIdx
    BY <1>2, PathsOfNamed
  <2>2. Len(p) >= Len(r) /\ Last(r).isIdx
    BY <1>4 DEF Follows, Leaving
  <2>3. Len(r) = 1
    <3>1. PICK n \in Nat : n = Len(r) /\ n # 0
      BY <2>1, FrontFacts
    <3>2. 1 >= n
      BY <1>1, <2>2, <3>1
    <3>3. n = 1
      BY <3>1, <3>2
    <3> QED BY <3>1, <3>3
  <2> QED BY <2>1, <2>2, <2>3 DEF Last
<1>5. Untouched(p, as)
  BY <1>3, <1>4 DEF Untouched, Moves
<1> QED BY <1>1, <1>5

LEMMA CloneKeeping ==
    ASSUME NEW base, Ground(base)
    PROVE  Keeping(cloneItem(base).at)
<1>1. PICK clone : clone = cloneItem(base)
  OBVIOUS
<1>2. Clones(clone, base)
  BY <1>1, CloneFacts
<1>3. ASSUME NEW v \in DOMAIN Refs
      PROVE  RefPath(v) \in DOMAIN clone.at /\ clone.at[RefPath(v)] = Refs[v][Here]
  <2>1. Here \in DOMAIN Refs[v]
    BY RefsAssumption DEF RefsAssumption, IsValue, IsTree
  <2>2. PICK q : q = Join(RefPath(v), Here)
    OBVIOUS
  <2>3. q \in DOMAIN Sent /\ Sent[q] = Refs[v][Here]
    BY <2>1, <2>2, SentFacts
  <2>4. q = RefPath(v)
    BY <2>2, RefPathFacts, JoinHere
  <2> QED BY <1>2, <2>3, <2>4 DEF Clones
<1> QED BY <1>1, <1>3 DEF Keeping

LEMMA KeepingKept ==
    ASSUME NEW as, \A i \in 1..Len(as) : IsAction(as[i]), NEW at, Keeping(at),
           NEW doc, Keeps(doc, as, at)
    PROVE  Keeping(doc.at)
<1> SUFFICES ASSUME NEW v \in DOMAIN Refs
             PROVE  RefPath(v) \in DOMAIN doc.at /\ doc.at[RefPath(v)] = Refs[v][Here]
  BY DEF Keeping
<1>1. PICK p \in Paths : p = RefPath(v)
  BY RefPathFacts
<1>2. Untouched(p, as)
  BY <1>1, RefsUntouched
<1>3. Agree(p, at, doc.at)
  BY <1>2 DEF Keeps
<1>4. p \in DOMAIN at /\ at[p] = Refs[v][Here]
  BY <1>1 DEF Keeping
<1> QED BY <1>1, <1>3, <1>4 DEF Agree

(* What is at the path of action i of an update of at before step turn,    *)
(* and from then on.                                                       *)
Acted(as, i, at1, at2) == SetActs(at1, at2, as[i].path, as[i].op, Refs[as[i].value.vref][Here])

Halfway(as, i, at, doc, k, turn) ==
    doc # Cyclic => IF k < turn THEN Agree(as[i].path, at, doc.at) ELSE Acted(as, i, at, doc.at)

(* An update whose action i is on a set that stays.                        *)
OnSet(as, i, at) ==
    /\ Apart(as) /\ Independent(as) /\ \A j \in 1..Len(as) : IsAction(as[j])
    /\ i \in 1..Len(as) /\ SetAction(as, i) /\ ~Moves(as[i].path, as)
    /\ Keeping(at) /\ (as[i].path \in DOMAIN at => at[as[i].path] \in Node)

LEMMA ActedAs ==
    ASSUME NEW as, NEW i, NEW at1, NEW at2, Acted(as, i, at1, at2),
           NEW b1, Agree(as[i].path, b1, at1), NEW b2, Agree(as[i].path, at2, b2)
    PROVE  Acted(as, i, b1, b2)
BY SetActsAs DEF Acted

LEMMA AgreeItself == \A p, at : Agree(p, at, at)
BY DEF Agree

(* The step of action j: before the turn of action i, its turn, and after. *)
LEMMA HalfwayStep ==
    ASSUME NEW as, NEW i, NEW at, OnSet(as, i, at), NEW left, NEW j \in 1..Len(as),
           Phase(left, as[j].op), NEW k \in Nat, NEW turn \in Nat, k # 0,
           k = turn => j = i, k # turn => as[j].path # as[i].path,
           NEW doc, doc # Cyclic, Good(doc, as, left, at), Halfway(as, i, at, doc, k - 1, turn),
           NEW out \in applyAction(doc, as[j])
    PROVE  Halfway(as, i, at, out, k, turn)
<1> SUFFICES ASSUME out # Cyclic
             PROVE  IF k < turn THEN Agree(as[i].path, at, out.at) ELSE Acted(as, i, at, out.at)
  BY DEF Halfway
<1>1. PICK p : p = as[i].path
  OBVIOUS
<1>2. /\ Apart(as) /\ Independent(as) /\ IsAction(as[j]) /\ ~Moves(p, as) /\ p \in Named(as)
      /\ SetAction(as, i) /\ Keeping(at) /\ i \in 1..Len(as)
      /\ p \in DOMAIN at => at[p] \in Node
      /\ \A m \in 1..Len(as) : IsAction(as[m])
  BY <1>1 DEF OnSet, Named
<1>3. Rooted(doc) /\ Owns(doc, as, left) /\ Keeps(doc, as, at)
  BY <1>2 DEF Good
<1>4. CASE k = turn
  <2>1. Agree(p, at, doc.at) /\ i = j
    <3>1. k - 1 < turn
      BY <1>4
    <3> QED BY <1>1, <1>4, <3>1 DEF Halfway
  <2>2. left = AllOps
    BY <1>2, <2>1 DEF Phase, SetAction
  <2>3. p \in DOMAIN doc.at => doc.at[p] \in Node
    BY <1>2, <2>1 DEF Agree
  <2>4. Keeping(doc.at)
    BY <1>2, <1>3, KeepingKept
  <2>5. Owns(doc, as, AllOps)
    BY <1>3, <2>2
  <2>6. SetActs(doc.at, out.at, as[i].path, as[i].op, Refs[as[i].value.vref][Here])
    BY <1>1, <1>2, <1>3, <2>1, <2>3, <2>4, <2>5, Doing
  <2>7. Acted(as, i, doc.at, out.at)
    BY <2>6 DEF Acted
  <2>8. Acted(as, i, at, out.at)
    BY <1>1, <2>1, <2>7, AgreeItself, ActedAs
  <2>9. ~(k < turn)
    BY <1>4
  <2> QED BY <2>8, <2>9
<1>5. CASE k # turn
  <2>1. Agree(p, doc.at, out.at)
    BY <1>1, <1>2, <1>5, OtherSpares
  <2>2. CASE k < turn
    <3>1. k - 1 < turn
      BY <2>2
    <3>2. Agree(p, at, doc.at)
      BY <1>1, <3>1 DEF Halfway
    <3> QED BY <1>1, <2>1, <2>2, <3>2 DEF Agree
  <2>3. CASE ~(k < turn)
    <3>1. ~(k - 1 < turn)
      BY <1>5, <2>3
    <3>2. Acted(as, i, at, doc.at)
      BY <3>1 DEF Halfway
    <3>3. Acted(as, i, at, out.at)
      BY <1>1, <2>1, <3>2, AgreeItself, ActedAs
    <3> QED BY <2>3, <3>3
  <2> QED BY <2>2, <2>3
<1> QED BY <1>4, <1>5

(* What applyEach does to the set, step by step.                           *)
LEMMA EachSets ==
    ASSUME NEW as, NEW i, NEW at, OnSet(as, i, at), NEW left, NEW turn \in Nat,
           NEW docs, \A d \in docs : Good(d, as, left, at) /\ Halfway(as, i, at, d, 0, turn),
           NEW ops, NEW actions, Len(actions) \in Nat,
           \A k \in 1..Len(actions) : actions[k].op \in ops =>
                \E j \in 1..Len(as) :
                    /\ actions[k] = as[j] /\ Phase(left, as[j].op)
                    /\ k = turn => j = i
                    /\ k # turn => as[j].path # as[i].path,
           turn # 0 => turn \in 1..Len(actions) /\ actions[turn].op \in ops,
           NEW out \in applyEach(docs, actions, ops)
    PROVE  Halfway(as, i, at, out, Len(actions), turn)
<1> DEFINE n == Len(actions)
           after == CHOOSE f : f = [k \in 0..n |->
                        IF k = 0 THEN docs
                        ELSE IF actions[k].op \in ops THEN UNION {applyAction(d, actions[k]) : d \in f[k - 1]}
                        ELSE f[k - 1]]
           fine(d, k) == Good(d, as, left, at) /\ Halfway(as, i, at, d, k, turn)
<1>1. applyEach(docs, actions, ops) = after[n]
  BY DEF applyEach
<1>2. after = CHOOSE f : After(f, docs, actions, ops, n)
  BY DEF After, EachStep
<1> HIDE DEF after
<1>3. After(after, docs, actions, ops, n)
  BY <1>2, AfterExists
<1> DEFINE bad(k) == \E d \in after[k] : ~fine(d, k)
           S == {k \in 0..n : bad(k)}
<1>4. S = {}
  <2> SUFFICES ASSUME S # {} PROVE FALSE
    OBVIOUS
  <2>1. PICK m \in S : \A j \in S : m <= j
    <3> HIDE DEF bad
    <3>1. S \in SUBSET Nat
      OBVIOUS
    <3> HIDE DEF S
    <3> QED BY <3>1, Least
  <2>2. m \in 0..n
    OBVIOUS
  <2> HIDE DEF fine
  <2>3. PICK d \in after[m] : ~fine(d, m)
    OBVIOUS
  <2>4. after[m] = IF m = 0 THEN docs ELSE EachStep(after[m - 1], actions[m], ops)
    BY <1>3, <2>2 DEF After
  <2>5. m # 0
    BY <2>3, <2>4 DEF fine
  <2>6. m - 1 \in 0..n /\ ~(m <= m - 1) /\ m \in 1..n /\ m \in Nat
    BY <2>2, <2>5
  <2>7. \A e \in after[m - 1] : fine(e, m - 1)
    <3>1. m - 1 \notin S
      <4> HIDE DEF S
      <4> QED BY <2>1, <2>6
    <3> QED BY <2>6, <3>1
  <2>8. CASE actions[m].op \in ops
    <3>1. PICK e \in after[m - 1] : d \in applyAction(e, actions[m])
      BY <2>3, <2>4, <2>5, <2>8 DEF EachStep
    <3>2. PICK j \in 1..Len(as) : /\ actions[m] = as[j] /\ Phase(left, as[j].op)
                                  /\ m = turn => j = i
                                  /\ m # turn => as[j].path # as[i].path
      BY <2>6, <2>8
    <3>3. /\ Good(e, as, left, at) /\ Halfway(as, i, at, e, m - 1, turn) /\ d \in applyAction(e, as[j])
          /\ Apart(as) /\ IsAction(as[j])
      BY <2>7, <3>1, <3>2 DEF fine, OnSet
    <3>4. Good(d, as, left, at)
      BY <3>2, <3>3, ActionGood
    <3>5. Halfway(as, i, at, d, m, turn)
      <4>1. CASE e = Cyclic
        <5>1. d = Cyclic
          BY <3>3, <4>1 DEF applyAction
        <5> QED BY <5>1 DEF Halfway
      <4>2. CASE e # Cyclic
        BY <2>5, <2>6, <3>2, <3>3, <4>2, HalfwayStep
      <4> QED BY <4>1, <4>2
    <3> QED BY <2>3, <3>4, <3>5 DEF fine
  <2>9. CASE actions[m].op \notin ops
    <3>1. d \in after[m - 1]
      BY <2>3, <2>4, <2>5, <2>9 DEF EachStep
    <3>2. Good(d, as, left, at) /\ Halfway(as, i, at, d, m - 1, turn)
      BY <2>7, <3>1 DEF fine
    <3>3. m # turn
      BY <2>5, <2>9
    <3>4. m - 1 < turn <=> m < turn
      BY <2>6, <3>3
    <3>5. Halfway(as, i, at, d, m, turn)
      BY <3>2, <3>4 DEF Halfway
    <3> QED BY <2>3, <3>2, <3>5 DEF fine
  <2> QED BY <2>8, <2>9
<1>5. n \in 0..n
  OBVIOUS
<1>6. fine(out, n)
  <2> HIDE DEF fine
  <2> QED BY <1>1, <1>4, <1>5
<1> QED BY <1>6

(* A whole update.                                                         *)
LEMMA UpdateSets ==
    ASSUME NEW base, Ground(base), NEW at, at = cloneItem(base).at,
           NEW u \in Updates, ~Malformed(u.actions), NEW i, OnSet(u.actions, i, at),
           NEW doc \in applyUpdate(base, u.actions), doc # Cyclic
    PROVE  Acted(u.actions, i, at, doc.at)
<1> DEFINE as == u.actions
           first == {"set", "add", "delete"}
           R == {as[k] : k \in {j \in 1..Len(as) : as[j].op = "remove"}}
           docs == applyEach({cloneItem(base)}, as, first)
<1>1. Len(as) \in Nat /\ \A k \in 1..Len(as) : IsAction(as[k])
  BY ParsedActions
<1>2. Apart(as) /\ i \in 1..Len(as) /\ SetAction(as, i) /\ i \in Nat /\ i # 0
  BY <1>1 DEF OnSet
<1>3. doc \in applyEach(docs, Removes(as), {"remove"})
  BY DEF applyUpdate
<1>4. \A k, j \in 1..Len(as) : k < j => ~pathsOverlap(as[k].path, as[j].path)
  BY DEF Malformed
<1> HIDE DEF as
<1>5. ASSUME NEW k \in 1..Len(as), k # i PROVE as[k].path # as[i].path
  <2>1. as[i].path \in Paths
    BY <1>1, <1>2 DEF IsAction, AttributePaths
  <2>2. IsPrefix(as[i].path, as[i].path)
    BY <2>1, LeadsToItself
  <2>3. k < i \/ i < k
    BY <1>1, <1>2, <1>5
  <2> QED BY <1>2, <1>4, <2>2, <2>3 DEF pathsOverlap
<1>6. \A k \in 1..Len(as) : as[k].op \in first =>
        \E j \in 1..Len(as) : /\ as[k] = as[j] /\ Phase(AllOps, as[j].op)
                              /\ k = i => j = i
                              /\ k # i => as[j].path # as[i].path
  <2> SUFFICES ASSUME NEW k \in 1..Len(as), as[k].op \in first
               PROVE  Phase(AllOps, as[k].op) /\ (k # i => as[k].path # as[i].path)
    OBVIOUS
  <2> QED BY <1>5 DEF Phase
<1>7. \A k \in 1..Len(as) : as[k].op \in first =>
        \E j \in 1..Len(as) : as[k] = as[j] /\ Phase(AllOps, as[j].op) /\ IsAction(as[j])
  BY <1>1, <1>6
<1>8. \A d \in {cloneItem(base)} : Good(d, as, AllOps, at) /\ Halfway(as, i, at, d, 0, i)
  <2>1. Good(cloneItem(base), as, AllOps, at)
    BY CloneGood
  <2>2. 0 < i
    BY <1>2
  <2>3. Halfway(as, i, at, cloneItem(base), 0, i)
    BY <2>2, AgreeItself DEF Halfway
  <2> QED BY <2>1, <2>3
<1>9. as[i].op \in first
  BY <1>2 DEF SetAction
<1>10. ASSUME NEW d \in docs
       PROVE  Good(d, as, {"remove"}, at) /\ Halfway(as, i, at, d, 0, 0)
  <2>1. Good(d, as, AllOps, at)
    <3> HIDE DEF first
    <3> QED BY <1>1, <1>2, <1>7, <1>8, EachGood
  <2>2. OnSet(as, i, at)
    BY DEF as
  <2>3. Halfway(as, i, at, d, Len(as), i)
    <3>1. PICK start, left : start = {cloneItem(base)} /\ left = AllOps
      OBVIOUS
    <3>2. \A e \in start : Good(e, as, left, at) /\ Halfway(as, i, at, e, 0, i)
      BY <1>8, <3>1
    <3>3. i # 0 => i \in 1..Len(as) /\ as[i].op \in first
      BY <1>2, <1>9
    <3>4. d \in applyEach(start, as, first)
      BY <1>10, <3>1
    <3>5. \A k \in 1..Len(as) : as[k].op \in first =>
            \E j \in 1..Len(as) : /\ as[k] = as[j] /\ Phase(left, as[j].op)
                                  /\ k = i => j = i
                                  /\ k # i => as[j].path # as[i].path
      BY <1>6, <3>1
    <3> HIDE DEF first, docs
    <3> QED BY <1>1, <1>2, <2>2, <3>2, <3>3, <3>4, <3>5, EachSets
  <2>4. ~(Len(as) < i) /\ ~(0 < 0)
    <3>1. PICK n \in Nat : n = Len(as)
      BY <1>1
    <3>2. i \in 1..n
      BY <1>2, <3>1
    <3>3. ~(n < i) /\ ~(0 < 0)
      BY <3>2
    <3> QED BY <3>1, <3>3
  <2>5. Halfway(as, i, at, d, 0, 0)
    BY <2>3, <2>4 DEF Halfway
  <2> QED BY <2>1, <2>5, GoodLater
<1>11. Removes(as) \in Seq(R)
  BY <1>1, RemovesIn
<1>12. PICK removes : removes = Removes(as)
  OBVIOUS
<1>13. Len(removes) \in Nat /\ \A k \in 1..Len(removes) : removes[k] \in R
  <2> HIDE DEF R
  <2> QED BY <1>11, <1>12, LenProperties
<1>14. \A k \in 1..Len(removes) : removes[k].op \in {"remove"} =>
         \E j \in 1..Len(as) : /\ removes[k] = as[j] /\ Phase({"remove"}, as[j].op)
                               /\ k = 0 => j = i
                               /\ k # 0 => as[j].path # as[i].path
  <2> SUFFICES ASSUME NEW k \in 1..Len(removes)
               PROVE  \E j \in 1..Len(as) : /\ removes[k] = as[j] /\ Phase({"remove"}, as[j].op)
                                            /\ k = 0 => j = i
                                            /\ k # 0 => as[j].path # as[i].path
    OBVIOUS
  <2>1. PICK j \in 1..Len(as) : as[j].op = "remove" /\ removes[k] = as[j]
    BY <1>13
  <2>2. Phase({"remove"}, as[j].op)
    BY <2>1 DEF Phase
  <2>3. j # i
    BY <1>2, <2>1 DEF SetAction
  <2>4. as[j].path # as[i].path
    BY <1>5, <2>3
  <2>5. k # 0
    BY <1>13
  <2> QED BY <2>1, <2>2, <2>4, <2>5
<1> HIDE DEF docs, R
<1>15. Halfway(as, i, at, doc, Len(removes), 0)
  <2>1. OnSet(as, i, at)
    BY DEF as
  <2>2. doc \in applyEach(docs, removes, {"remove"})
    BY <1>3, <1>12
  <2>3. \A d \in docs : Good(d, as, {"remove"}, at) /\ Halfway(as, i, at, d, 0, 0)
    BY <1>10
  <2>4. 0 \in Nat
    OBVIOUS
  <2> QED BY <1>13, <1>14, <2>1, <2>2, <2>3, <2>4, EachSets
<1>16. ~(Len(removes) < 0)
  BY <1>13
<1> QED BY <1>15, <1>16 DEF Halfway, as

(* SetsBehaveAsSets, of one step.                                          *)
SetsKept ==
    LET as == reply'.request.actions IN
    reply'.outcome = "ok" /\ Independent(as) =>
     \A a \in {as[i] : i \in {j \in 1..Len(as) : as[j].op \in {"add", "delete"}}} :
         a.value.kind = "value" /\ Refs[a.value.vref][Here].type \in Sets /\ Stays(a.path, as) =>
             LET node == Refs[a.value.vref][Here]
                 Listed(x) == HasMember(node.type, Contents(node), x)
                 all == ToSet(Contents(node)) \union
                        UNION {ToSet(Contents(at[a.path])) :
                                 at \in {b \in {Base, item'} : a.path \in DOMAIN b}}
             IN
             \A x \in all :
                 IsIn(x, item', a.path) <=>
                     IF a.op = "add" THEN IsIn(x, Base, a.path) \/ Listed(x)
                     ELSE IsIn(x, Base, a.path) /\ ~Listed(x)

LEMMA MembersIn ==
    ASSUME NEW X, NEW s \in Seq(X)
    PROVE  ToSet(s) \subseteq X
<1>1. DOMAIN s = 1..Len(s) /\ \A i \in 1..Len(s) : s[i] \in X
  BY LenProperties
<1> QED BY <1>1 DEF ToSet

(* One action on a set, in an update that succeeds.                        *)
LEMMA SetKept ==
    ASSUME TypeOK, NEW u \in Updates, Update(u), Independent(u.actions),
           NEW i \in 1..Len(u.actions), u.actions[i].op \in {"add", "delete"},
           u.actions[i].value.kind = "value", Stays(u.actions[i].path, u.actions),
           Refs[u.actions[i].value.vref][Here].type \in Sets
    PROVE  Acted(u.actions, i, Base, item')
<1>1. PICK as : as = u.actions
  OBVIOUS
<1>2. PICK p : p = as[i].path
  OBVIOUS
<1>3. PICK doc \in applyUpdate(Base, as) : Verdicts({doc}) = {"ok"} /\ item' = Attributes(doc)
  BY <1>1 DEF Update
<1>4. doc # Cyclic
  BY <1>3, VerdictOf
<1>5. ~Malformed(as) /\ Apart(as) /\ \A j \in 1..Len(as) : IsAction(as[j])
  BY <1>1, ParsedActions, ValidatedApart DEF Update
<1>6. PICK base : base = Base
  OBVIOUS
<1>7. IsValue(base) /\ base[Here].type = "M" /\ Ground(base)
  BY <1>6, BaseWellFormed, WellFormedGround DEF WellFormed
<1>8. PICK at : at = cloneItem(base).at
  OBVIOUS
<1>9. p # Here /\ Visible(p)
  BY <1>1, <1>2, <1>5 DEF IsAction, AttributePaths, Here, Visible
<1>10. Agree(p, base, at)
  <2>1. PICK clone : clone = cloneItem(base)
    OBVIOUS
  <2>2. Clones(clone, base)
    BY <1>7, <2>1, CloneFacts
  <2>3. p \notin DOMAIN Sent
    BY <1>9, SentFacts, SentPaths DEF SentAt
  <2> QED BY <1>8, <2>1, <2>2, <2>3 DEF Clones, Agree
<1>11. Agree(p, doc.at, item')
  BY <1>3, <1>9, AttributesFacts DEF Agree
<1>12. OnSet(as, i, at)
  <2>1. Keeping(at)
    BY <1>7, <1>8, CloneKeeping
  <2>2. p \in DOMAIN at => at[p] \in Node
    BY <1>7, <1>10 DEF IsValue, Agree
  <2>3. SetAction(as, i) /\ ~Moves(p, as)
    BY <1>1, <1>2 DEF SetAction, Stays
  <2> QED BY <1>1, <1>2, <1>5, <2>1, <2>2, <2>3 DEF OnSet
<1>13. Acted(as, i, at, doc.at)
  BY <1>1, <1>3, <1>4, <1>5, <1>6, <1>7, <1>8, <1>12, UpdateSets
<1>14. Acted(as, i, base, item')
  BY <1>2, <1>10, <1>11, <1>13, ActedAs
<1> QED BY <1>1, <1>6, <1>14

LEMMA SetsAct == TypeOK /\ [Next]_vars => [SetsKept]_vars
<1> SUFFICES ASSUME TypeOK, [Next]_vars PROVE [SetsKept]_vars
  OBVIOUS
<1>1. CASE UNCHANGED vars
  BY <1>1
<1>2. ASSUME NEW u \in Updates, Refuse(u) \/ FailCondition(u) \/ FailUpdate(u) PROVE SetsKept
  BY <1>2, Otherwise DEF SetsKept
<1>3. ASSUME NEW u \in Updates, Update(u) PROVE SetsKept
  <2>1. PICK as : as = u.actions
    OBVIOUS
  <2>2. reply'.request.actions = as /\ reply'.outcome = "ok"
    BY <1>3, <2>1 DEF Update
  <2>3. ASSUME Independent(as), NEW i \in 1..Len(as), as[i].op \in {"add", "delete"},
               as[i].value.kind = "value", Refs[as[i].value.vref][Here].type \in Sets,
               Stays(as[i].path, as),
               NEW x \in ToSet(Contents(Refs[as[i].value.vref][Here])) \union
                         UNION {ToSet(Contents(at[as[i].path])) :
                                  at \in {b \in {Base, item'} : as[i].path \in DOMAIN b}}
        PROVE  IsIn(x, item', as[i].path) <=>
                  IF as[i].op = "add"
                  THEN \/ IsIn(x, Base, as[i].path)
                       \/ HasMember(Refs[as[i].value.vref][Here].type,
                                    Contents(Refs[as[i].value.vref][Here]), x)
                  ELSE /\ IsIn(x, Base, as[i].path)
                       /\ ~HasMember(Refs[as[i].value.vref][Here].type,
                                     Contents(Refs[as[i].value.vref][Here]), x)
    <3>1. PICK node, p : node = Refs[as[i].value.vref][Here] /\ p = as[i].path
      OBVIOUS
    <3>2. Acted(as, i, Base, item')
      BY <1>3, <2>1, <2>3, SetKept
    <3>3. SetActs(Base, item', p, as[i].op, node)
      BY <3>1, <3>2 DEF Acted
    <3>4. node.type \in Sets /\ Contents(node) \in Seq(Kind(node.type))
      BY <3>3 DEF SetActs
    <3>5. p \in DOMAIN Base => Contents(Base[p]) \in Seq(Kind(node.type))
      BY <3>3, <3>4, SetContents DEF SetActs
    <3>6. p \in DOMAIN item' => Contents(item'[p]) \in Seq(Kind(node.type))
      BY <3>3 DEF SetActs
    <3>7. x \in Kind(node.type)
      <4>1. PICK X : X = Kind(node.type)
        OBVIOUS
      <4>2. CASE x \in ToSet(Contents(node))
        BY <3>4, <4>1, <4>2, MembersIn
      <4>3. ASSUME NEW at \in {Base, item'}, p \in DOMAIN at, x \in ToSet(Contents(at[p]))
            PROVE  x \in X
        <5>1. Contents(at[p]) \in Seq(X)
          BY <3>5, <3>6, <4>1, <4>3
        <5> QED BY <4>3, <5>1, MembersIn
      <4> QED BY <2>3, <3>1, <4>1, <4>2, <4>3
    <3> QED BY <3>1, <3>3, <3>7 DEF SetActs
  <2> QED BY <2>2, <2>3 DEF SetsKept
<1> QED BY <1>1, <1>2, <1>3 DEF Next

(* ADD to a set that stays in its place is union with the set that was     *)
(* sent and DELETE is difference, whatever else the update does, however   *)
(* the numbers are spelled and whatever the copies share, and a set that   *)
(* DELETE empties is no longer there (applyAdd, applyDelete, unionNumbers, *)
(* diffNumbers).                                                           *)
THEOREM SetsBehaveAsSetsHolds == Spec => SetsBehaveAsSets
<1>1. SetsBehaveAsSets <=> [][SetsKept]_vars
  BY PTL DEF SetsBehaveAsSets, SetsKept
<1> QED BY <1>1, DocumentsTypeCorrect, SetsAct, PTL DEF Spec

-----------------------------------------------------------------------------
(* Projections                                                             *)

(* Of an item a projection shows exactly what its paths lead to, each list *)
(* element behind those before it that are shown, when the paths do not    *)
(* overlap and come in the order of the lists: wrapPath and mergeAV lose   *)
(* nothing and mix nothing up (projectItem).                               *)
THEOREM ProjectionExactHolds == Spec => []ProjectionExact
<1>1. TypeOK => ProjectionExact
  <2> SUFFICES ASSUME TypeOK, NEW paths \in Projections, Orderly(paths)
               PROVE  projectItem(Current, paths) = Asked(Current, paths)
    BY DEF ProjectionExact
  <2>1. PICK at : at = Current
    OBVIOUS
  <2>2. IsValue(at)
    BY <2>1, CurrentValue
  <2>3. at[Here].type = "M"
    BY <2>1 DEF TypeOK, WellFormed, Current, Nothing
  <2>4. paths \in Seq(AttributePaths)
    BY ProjectionsAssumption
  <2> QED BY <2>1, <2>2, <2>3, <2>4, ProjectsExactly
<1> QED BY <1>1, DocumentsTypeCorrect, PTL

-----------------------------------------------------------------------------
(* Updates of nothing but REMOVEs                                          *)

LEMMA UpdateRemoves ==
    ASSUME TypeOK, NEW u \in Updates, Update(u), Independent(u.actions), Grouped(u.actions),
           \A i \in 1..Len(u.actions) : u.actions[i].op = "remove"
    PROVE  item' = Without(Base, Removals(u.actions))
<1>1. PICK acts, s, R, base : /\ acts = u.actions /\ s = Removes(acts) /\ R = Removals(acts)
                              /\ base = Base
  OBVIOUS
<1>2. PICK doc \in applyUpdate(base, acts) : item' = Attributes(doc)
  BY <1>1 DEF Update
<1>3. Plan(s, acts) /\ UpTo(s, Len(s)) = R
  <2>1. ~Malformed(u.actions)
    BY DEF Update
  <2> QED BY <1>1, <2>1, RemovesPlanned
<1>4. IsValue(base) /\ base[Here].type = "M" /\ Ground(base)
  BY <1>1, BaseWellFormed, WellFormedGround DEF WellFormed
<1>5. PICK docs, ops : docs = {cloneItem(base)} /\ ops = {"set", "add", "delete"}
  OBVIOUS
<1>6. applyEach(docs, acts, ops) = docs
  <2>1. Len(acts) \in Nat /\ \A i \in 1..Len(acts) : acts[i].op \notin ops
    BY <1>1, <1>5, ParsedActions
  <2> QED BY <2>1, EachIdle
<1>7. doc \in applyEach(docs, s, {"remove"})
  BY <1>1, <1>2, <1>5, <1>6 DEF applyUpdate
<1>8. \A d \in docs : Left(d, base, {})
  BY <1>4, <1>5, CloneLeft
<1>9. Left(doc, base, R)
  BY <1>3, <1>4, <1>7, <1>8, RemovesLeave
<1>10. Shows(Attributes(doc), base, Standing(base, R))
  BY <1>9 DEF Left
<1>11. R \subseteq AttributePaths
  BY <1>1, ParsedActions DEF Removals, PathsOf, IsAction
<1>12. Shows(Without(base, R), base, Standing(base, R))
  BY <1>4, <1>11, WithoutShows
<1>13. Attributes(doc) = Without(base, R)
  BY <1>10, <1>12, ShowsOnce
<1> QED BY <1>1, <1>2, <1>13

(* RemovalsExact, of one step.                                             *)
RemovedExactly ==
    reply'.outcome = "ok" /\ Independent(reply'.request.actions) /\ Grouped(reply'.request.actions)
    => RemovesAll(reply'.request.actions)

LEMMA RemovalsAct == TypeOK /\ [Next]_vars => [RemovedExactly]_vars
<1> SUFFICES ASSUME TypeOK, [Next]_vars PROVE [RemovedExactly]_vars
  OBVIOUS
<1>1. CASE UNCHANGED vars
  BY <1>1
<1>2. ASSUME NEW u \in Updates, Refuse(u) \/ FailCondition(u) \/ FailUpdate(u) PROVE RemovedExactly
  BY <1>2, Otherwise DEF RemovedExactly
<1>3. ASSUME NEW u \in Updates, Update(u) PROVE RemovedExactly
  <2>1. reply'.request.actions = u.actions
    BY <1>3 DEF Update
  <2>2. ASSUME Independent(u.actions), Grouped(u.actions) PROVE RemovesAll(u.actions)
    BY <1>3, <2>2, UpdateRemoves DEF RemovesAll
  <2> QED BY <2>1, <2>2 DEF RemovedExactly
<1> QED BY <1>1, <1>2, <1>3 DEF Next

(* An update of nothing but REMOVEs, of which none turns another aside and *)
(* those of one list are named side by side, leaves of every item exactly  *)
(* what the paths do not lead to, each list closed up: the order in which  *)
(* the REMOVEs are sorted makes each of them find what it names where it   *)
(* was (applyUpdate's sort.SliceStable, applyRemove).                      *)
THEOREM RemovalsExactHolds == Spec => RemovalsExact
<1>1. RemovalsExact <=> [][RemovedExactly]_vars
  BY PTL DEF RemovalsExact, RemovedExactly
<1> QED BY <1>1, DocumentsTypeCorrect, RemovalsAct, PTL DEF Spec

=============================================================================
