----------------------------- MODULE Conditions ------------------------------
(***************************************************************************)
(* The evaluation of condition and filter expressions (expr.go).           *)
(*                                                                         *)
(* An item is a value whose root is a map.  An operand is a record with    *)
(* kind "value" (a :ref, with its number vref), "path" or "size" (with a   *)
(* path).                                                                  *)
(*                                                                         *)
(* What may be there is a set of at most one value.  A condition is "yes", *)
(* "no" or "error".                                                        *)
(***************************************************************************)
EXTENDS Values

CONSTANTS
    Conds,      \* condition expressions and the terms they consist of
    Refs        \* the values that :refs stand for, by number

Digits[n \in Nat] == IF n < 10 THEN <<n>> ELSE Digits[n \div 10] \o <<n % 10>>

Integer(n) ==
    [type |-> "N",
     num  |-> [neg |-> n < 0, int |-> Digits[IF n < 0 THEN -n ELSE n], frac |-> <<>>, exp |-> 0]]

ASSUME RefsAssumption ==
    /\ IsFiniteSet(DOMAIN Refs) /\ DOMAIN Refs \subseteq Nat
    /\ \A v \in DOMAIN Refs : IsValue(Refs[v])

(* What parseOperand and parseCond give.                                   *)
IsOperand(o) ==
    /\ o.kind \in {"value", "path", "size"}
    /\ o.kind \in {"path", "size"} => o.path \in AttributePaths

ASSUME CondsAssumption ==
    \A c \in Conds :
        /\ c.kind = "cmp" => /\ c.op \in {"=", "<>", "<", "<=", ">", ">="}
                             /\ IsOperand(c.left) /\ IsOperand(c.right)
        /\ c.kind = "between" => IsOperand(c.v) /\ IsOperand(c.lo) /\ IsOperand(c.hi)
        /\ c.kind = "in" => /\ IsOperand(c.v)
                            /\ c.list \in Seq({c.list[i] : i \in DOMAIN c.list})
                            /\ \A i \in DOMAIN c.list : IsOperand(c.list[i])

-----------------------------------------------------------------------------
resolvePath(item, path) ==
    IF path \in DOMAIN item \ {Here} THEN {At(item, path)} ELSE {}

Sized == {"S", "B", "SS", "NS", "BS", "L", "M"}

sizeOf(value) ==
    LET node == value[Here] IN
    CASE node.type \in {"S", "B"} -> Len(node.bytes)
      [] node.type \in {"SS", "BS"} -> Len(node.members)
      [] node.type = "NS" -> Len(node.nums)
      [] node.type \in {"L", "M"} -> Cardinality(Elements(value, Here))

(* resolveOperand: whether it is an error, and what it finds.              *)
Erroneous(o, item) ==
    \/ o.kind = "value" /\ o.vref \notin DOMAIN Refs
    \/ o.kind = "size" /\ \E v \in resolvePath(item, o.path) : v[Here].type \notin Sized

resolveOperand(o, item) ==
    CASE o.kind = "value" -> {Refs[o.vref]}
      [] o.kind = "path"  -> resolvePath(item, o.path)
      [] o.kind = "size"  -> {Scalar(Integer(sizeOf(v))) : v \in resolvePath(item, o.path)}

-----------------------------------------------------------------------------
Verdict(holds) == IF holds THEN "yes" ELSE "no"

Compares(op, l, r) ==
    \/ op = "="  /\ avEqual(l, r)
    \/ op = "<>" /\ ~avEqual(l, r)
    \/ /\ op \in {"<", "<=", ">", ">="}
       /\ Ordered(l[Here], r[Here])
       /\ LET cmp == compareOrder(l[Here], r[Here]) IN
          \/ op = "<"  /\ cmp < 0
          \/ op = "<=" /\ cmp <= 0
          \/ op = ">"  /\ cmp > 0
          \/ op = ">=" /\ cmp >= 0

(* Mutant of evalCmp: nothing is said to differ from a missing attribute.  *)
evalCmpFound(c, item) ==
    IF Erroneous(c.left, item) \/ Erroneous(c.right, item) THEN "error"
    ELSE Verdict(\E l \in resolveOperand(c.left, item), r \in resolveOperand(c.right, item) :
                    Compares(c.op, l, r))

evalCmp(c, item) ==
    IF Erroneous(c.left, item) \/ Erroneous(c.right, item) THEN "error"
    ELSE LET ls == resolveOperand(c.left, item)
             rs == resolveOperand(c.right, item)
         IN  Verdict(IF ls = {} \/ rs = {} THEN c.op = "<>"
                     ELSE \E l \in ls, r \in rs : Compares(c.op, l, r))

evalBetween(c, item) ==
    IF \E o \in {c.v, c.lo, c.hi} : Erroneous(o, item) THEN "error"
    ELSE Verdict(\E v \in resolveOperand(c.v, item), lo \in resolveOperand(c.lo, item),
                    hi \in resolveOperand(c.hi, item) :
                    Compares(">=", v, lo) /\ Compares("<=", v, hi))

(* The list is evaluated from the left, up to a value that is equal.       *)
evalIn(c, item) ==
    LET values == resolveOperand(c.v, item)
        Equals(o) == \E v \in values, w \in resolveOperand(o, item) : avEqual(v, w)
        ends == {i \in 1..Len(c.list) : Erroneous(c.list[i], item) \/ Equals(c.list[i])}
        end  == CHOOSE i \in ends : \A j \in ends : i <= j
    IN
    IF Erroneous(c.v, item) THEN "error"
    ELSE IF values = {} \/ ends = {} THEN "no"
    ELSE IF Erroneous(c.list[end], item) THEN "error" ELSE "yes"

-----------------------------------------------------------------------------
beginsWith(v, prefix) ==
    IF v[Here].type \in {"S", "B"} THEN Verdict(StartsWith(v[Here], prefix[Here])) ELSE "error"

(* The elements of a list or set of which one must equal the argument.     *)
Members(v) ==
    LET node == v[Here]
        Each(seq) == {seq[i] : i \in 1..Len(seq)}
    IN
    CASE node.type = "SS" -> {Scalar([type |-> "S", bytes |-> x]) : x \in Each(node.members)}
      [] node.type = "BS" -> {Scalar([type |-> "B", bytes |-> x]) : x \in Each(node.members)}
      [] node.type = "NS" -> {Scalar([type |-> "N", num |-> x]) : x \in Each(node.nums)}
      [] node.type = "L"  -> {At(v, <<e>>) : e \in Elements(v, Here)}

contains(v, arg) ==
    LET type == v[Here].type IN
    CASE type \in {"S", "B"} ->
            Verdict(arg[Here].type = type /\ Occurs(arg[Here].bytes, v[Here].bytes))
      [] type \in {"SS", "NS", "BS", "L"} -> Verdict(\E e \in Members(v) : avEqual(e, arg))
      [] OTHER -> "error"

(* begins_with and contains of two operands that are both found.           *)
OfBoth(c, item) ==
    LET vs == resolveOperand(c.v, item)
        as == resolveOperand(c.arg, item)
    IN
    IF Erroneous(c.v, item) \/ Erroneous(c.arg, item) THEN "error"
    ELSE IF vs = {} \/ as = {} THEN "no"
    ELSE LET v == CHOOSE x \in vs : TRUE
             a == CHOOSE x \in as : TRUE
         IN  IF c.name = "begins_with" THEN beginsWith(v, a) ELSE contains(v, a)

(* The type word of attribute_type is "" when its argument is not one.     *)
evalFunc(c, item) ==
    CASE c.name \in {"attribute_exists", "attribute_not_exists"} ->
            IF c.v.kind # "path" THEN "error"
            ELSE Verdict((resolvePath(item, c.v.path) # {}) <=> (c.name = "attribute_exists"))
      [] c.name = "attribute_type" ->
            IF Erroneous(c.v, item) THEN "error"
            ELSE IF resolveOperand(c.v, item) = {} THEN "no"
            ELSE IF c.typ = "" THEN "error"
            ELSE Verdict(\E v \in resolveOperand(c.v, item) : v[Here].type = c.typ)
      [] c.name \in {"begins_with", "contains"} -> OfBoth(c, item)

-----------------------------------------------------------------------------
(* AND and OR end at the first term that decides them.                     *)
First(results, goesOn) ==
    LET ends == {i \in 1..Len(results) : results[i] # goesOn} IN
    IF ends = {} THEN goesOn ELSE results[CHOOSE i \in ends : \A j \in ends : i <= j]

Negated == [yes |-> "no", no |-> "yes", error |-> "error"]

evalCond(cond, item) ==
    LET eval[c \in Conds] ==
            CASE c.kind = "or"  -> First([i \in 1..Len(c.terms) |-> eval[c.terms[i]]], "no")
              [] c.kind = "and" -> First([i \in 1..Len(c.terms) |-> eval[c.terms[i]]], "yes")
              [] c.kind = "not" -> Negated[eval[c.e]]
              [] c.kind = "cmp" -> evalCmp(c, item)
              [] c.kind = "between" -> evalBetween(c, item)
              [] c.kind = "in"  -> evalIn(c, item)
              [] c.kind = "func" -> evalFunc(c, item)
    IN  eval[cond]

=============================================================================
