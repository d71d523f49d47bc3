------------------------------- MODULE Values --------------------------------
(***************************************************************************)
(* Attribute values and their comparison (expr.go).                        *)
(*                                                                         *)
(* An attribute value is a function from paths to nodes: the path <<>>     *)
(* leads to the value itself, and longer ones into its lists and maps.  A  *)
(* node is a record with the type and, unless it is a list or a map, the   *)
(* contents: bytes for S and B, num for N, members and nums (sequences,    *)
(* as they are stored) for SS, BS and NS, bool for BOOL.                   *)
(***************************************************************************)
EXTENDS KeyEncoding, FiniteSets

(* Path elements: .name and [index].                                       *)
Name(n) == [name |-> n, index |-> 0, isIdx |-> FALSE]
Index(i) == [name |-> "", index |-> i, isIdx |-> TRUE]

Here == <<>>

(* The value at path p of a value, and a value put below path p.           *)
At(value, p) ==
    [q \in {SubSeq(r, Len(p) + 1, Len(r)) : r \in {s \in DOMAIN value : IsPrefix(p, s)}}
        |-> value[p \o q]]

Scalar(node) == [p \in {Here} |-> node]

(* The elements of the list or map at path p.                              *)
Elements(value, p) ==
    {q[Len(q)] : q \in {r \in DOMAIN value : Len(r) = Len(p) + 1 /\ IsPrefix(p, r)}}

-----------------------------------------------------------------------------
(* What a value is, whether an item or a :ref holds it (validateAV).       *)
Steps == [name : STRING, index : {0}, isIdx : {FALSE}] \union
         [name : {""}, index : Nat, isIdx : {TRUE}]
Paths == Seq(Steps)

(* What parsePath gives: paths begin with an attribute's name.             *)
AttributePaths == {p \in Paths \ {<<>>} : ~p[1].isIdx}

(* Paths to the nodes of a value: a list or map is there before what is in *)
(* it.                                                                     *)
IsTree(paths) ==
    /\ IsFiniteSet(paths) /\ paths \subseteq Paths
    /\ Here \in paths
    /\ \A p \in paths \ {Here} : Front(p) \in paths

Sets == {"SS", "NS", "BS"}

Contents(node) == IF node.type = "NS" THEN node.nums ELSE node.members

Node ==
    [type : {"S", "B"}, bytes : Seq(Byte)] \union
    [type : {"N"}, num : Numerals] \union
    [type : {"BOOL"}, bool : BOOLEAN] \union
    [type : {"NULL", "L", "M"}] \union
    [type : {"SS", "BS"}, members : Seq(Seq(Byte)) \ {<<>>}] \union
    [type : {"NS"}, nums : Seq(Numerals) \ {<<>>}]

(* Lists and maps have the elements, lists have them without gaps.         *)
IsValue(value) ==
    /\ IsTree(DOMAIN value)
    /\ \A p \in DOMAIN value : value[p] \in Node
    /\ \A p \in DOMAIN value \ {Here} :
          /\ value[Front(p)].type = IF Last(p).isIdx THEN "L" ELSE "M"
          /\ Last(p).isIdx /\ Last(p).index > 0
                => Append(Front(p), Index(Last(p).index - 1)) \in DOMAIN value

-----------------------------------------------------------------------------
Count(seq, Same(_)) == Cardinality({i \in 1..Len(seq) : Same(seq[i])})

SameBytes(a, b) ==
    /\ Len(a) = Len(b)
    /\ \A x \in {a[i] : i \in 1..Len(a)} :
          Count(a, LAMBDA y : y = x) = Count(b, LAMBDA y : y = x)

SameNumbers(a, b) ==
    /\ Len(a) = Len(b)
    /\ \A x \in {a[i] : i \in 1..Len(a)} :
          Count(a, LAMBDA y : numbersEqual(y, x)) = Count(b, LAMBDA y : numbersEqual(y, x))

(* Two nodes of one type; elements of lists and maps are other nodes.      *)
SameNode(a, b) ==
    /\ a.type = b.type
    /\ a.type \in {"S", "B"} => a.bytes = b.bytes
    /\ a.type = "N" => numbersEqual(a.num, b.num)
    /\ a.type = "BOOL" => a.bool = b.bool
    /\ a.type \in {"SS", "BS"} => SameBytes(a.members, b.members)
    /\ a.type = "NS" => SameNumbers(a.nums, b.nums)

avEqual(a, b) ==
    /\ DOMAIN a = DOMAIN b
    /\ \A p \in DOMAIN a : SameNode(a[p], b[p])

(* compareOrder: whether two nodes have an order, and which.               *)
Ordered(a, b) == a.type = b.type /\ a.type \in {"S", "N", "B"}

compareOrder(a, b) ==
    CASE a.type = "N" -> compareNumbers(a.num, b.num)
      [] a.type # "N" /\ a.bytes = b.bytes -> 0
      [] a.type # "N" /\ a.bytes # b.bytes -> IF Precedes(a.bytes, b.bytes) THEN -1 ELSE 1

StartsWith(a, b) ==
    a.type = b.type /\ a.type \in {"S", "B"} /\ IsPrefix(b.bytes, a.bytes)

(* The part occurs in bytes.                                               *)
Occurs(part, bytes) ==
    \E i \in 0..(Len(bytes) - Len(part)) : SubSeq(bytes, i + 1, i + Len(part)) = part

=============================================================================
