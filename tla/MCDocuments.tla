----------------------------- MODULE MCDocuments -----------------------------
(***************************************************************************)
(* Small instances of Documents for TLC.                                   *)
(***************************************************************************)
EXTENDS Documents

(* Values.                                                                 *)
Inside(node, children) ==
    LET paths == {Here} \union
                 UNION {{<<e>> \o q : q \in DOMAIN children[e]} : e \in DOMAIN children}
    IN  [p \in paths |-> IF p = Here THEN node ELSE children[Head(p)][Tail(p)]]

List(values) ==
    Inside([type |-> "L"], [e \in {Index(i) : i \in 0..(Len(values) - 1)} |-> values[e.index + 1]])

Map(fields) == Inside([type |-> "M"], [e \in {Name(n) : n \in DOMAIN fields} |-> fields[e.name]])

S(byte) == Scalar([type |-> "S", bytes |-> <<byte>>])
N(num) == Scalar([type |-> "N", num |-> num])
SS(bytes) == Scalar([type |-> "SS", members |-> [i \in 1..Len(bytes) |-> <<bytes[i]>>]])
NS(nums) == Scalar([type |-> "NS", nums |-> nums])

Num(int, frac, exp) == [neg |-> FALSE, int |-> int, frac |-> frac, exp |-> exp]
One == Num(<<1>>, <<>>, 0)
OneAgain == Num(<<0>>, <<1, 0>>, 1)
Two == Num(<<2>>, <<>>, 0)

MCKeyAttributes == Map([k |-> S(1)])

-----------------------------------------------------------------------------
(* Paths, operands and actions.                                            *)
Top(n) == <<Name(n)>>
Elem(n, i) == <<Name(n), Index(i)>>
Field(n, f) == <<Name(n), Name(f)>>

(* The :refs.                                                              *)
EmptyString == Scalar([type |-> "S", bytes |-> <<>>])
Three == List(<<S(120), EmptyString, Scalar([type |-> "NULL"])>>)

MCRefs ==
    <<List(<<>>), Three, N(Two), N(OneAgain), NS(<<One>>), NS(<<OneAgain>>),
      NS(<<OneAgain, Two>>), NS(<<Two, OneAgain>>), SS(<<120>>), SS(<<120, 121>>), S(120)>>

Val(v) == [kind |-> "value", vref |-> CHOOSE i \in 1..Len(MCRefs) : MCRefs[i] = v]
Path(p) == [kind |-> "path", path |-> p]
Size(p) == [kind |-> "size", path |-> p]
Unset == [kind |-> "value", vref |-> 0]

Opnd(o) == [fn |-> "operand", opnd |-> o]
IfNotExists(p, b) == [fn |-> "if_not_exists", path |-> p, b |-> b]
ListAppend(a, b) == [fn |-> "list_append", a |-> a, b |-> b]

Set(p, r) == [op |-> "set", path |-> p, set |-> [kind |-> "plain", a |-> r]]
Plus(p, r, o) == [op |-> "set", path |-> p, set |-> [kind |-> "add", a |-> r, b |-> o]]
Minus(p, r, o) == [op |-> "set", path |-> p, set |-> [kind |-> "sub", a |-> r, b |-> o]]
Gone(p) == [op |-> "remove", path |-> p]
AddTo(p, v) == [op |-> "add", path |-> p, value |-> Val(v)]
DeleteFrom(p, v) == [op |-> "delete", path |-> p, value |-> Val(v)]

When(cond, actions) == [cond |-> cond, actions |-> actions]
Do(actions) == When(Always, actions)

-----------------------------------------------------------------------------
(* Conditions.                                                             *)
Cmp(l, op, r) == [kind |-> "cmp", op |-> op, left |-> l, right |-> r]
Func(name, v) == [kind |-> "func", name |-> name, v |-> v]
Func2(name, v, arg) == [kind |-> "func", name |-> name, v |-> v, arg |-> arg]

SizeIsOne == Cmp(Size(Top("a")), "=", Val(N(OneAgain)))
CounterBelow == Cmp(Path(Top("c")), "<", Val(N(Two)))
SameLists == Cmp(Path(Top("a")), "=", Path(Top("b")))
SameNums == Cmp(Path(Field("m", "n")), "=", Val(NS(<<Two, OneAgain>>)))
CounterRange ==
    [kind |-> "between", v |-> Path(Top("c")), lo |-> Val(N(OneAgain)), hi |-> Size(Top("a"))]
CounterIn ==
    [kind |-> "in", v |-> Path(Top("c")), list |-> <<Size(Top("a")), Path(Top("b")), Val(N(Two))>>]
HasElement == Func2("contains", Path(Top("a")), Path(Elem("b", 0)))
HasNumber == Func2("contains", Path(Field("m", "n")), Val(N(Two)))
NoLists == Func("attribute_not_exists", Path(Top("b")))
IsList == [kind |-> "func", name |-> "attribute_type", v |-> Path(Top("a")), typ |-> "L"]
Starts == Func2("begins_with", Path(Elem("a", 0)), Val(S(120)))
Both == [kind |-> "and", terms |-> <<IsList, HasElement>>]
Either == [kind |-> "or", terms |-> <<NoLists, SameLists>>]
Neither == [kind |-> "not", e |-> Either]
Undefined == Cmp(Path(Top("a")), "=", Unset)

MCConds ==
    {SizeIsOne, CounterBelow, SameLists, SameNums, CounterRange, CounterIn, HasElement, HasNumber,
     NoLists, IsList, Starts, Both, Either, Neither, Undefined}

-----------------------------------------------------------------------------
(* Requests.                                                               *)
Empty == Opnd(Val(List(<<>>)))
PathA == Opnd(Path(Top("a")))
ListB == IfNotExists(Top("b"), Empty)
Joined == ListAppend(ListB, PathA)
Letters == Opnd(Val(Three))
Maps == Opnd(Path(Top("m")))
Length == Opnd(Size(Top("b")))
Counter == IfNotExists(Top("c"), Opnd(Val(N(Two))))
Number == Opnd(Val(N(Two)))

MCRvalues == {Empty, PathA, ListB, Joined, Letters, Maps, Length, Counter, Number}

MCUpdates ==
    {Do(<<Set(Top("a"), Letters)>>),
     When(Starts, <<Set(Top("b"), Joined)>>),
     Do(<<Set(Elem("a", 1), Maps), Gone(Top("c"))>>),
     Do(<<Set(Field("m", "x"), PathA), Gone(Elem("a", 0))>>),
     When(Both, <<Set(Top("b"), PathA), Gone(Elem("a", 0))>>),
     Do(<<Gone(Elem("a", 0)), Gone(Elem("a", 1)), Gone(Field("m", "x"))>>),
     Do(<<Set(<<Name("a"), Index(1), Name("n")>>, Number), Gone(Elem("a", 0))>>),
     When(Neither, <<Gone(<<Name("a"), Index(1), Name("x"), Index(0)>>), Gone(Top("b"))>>),
     Do(<<Set(Field("m", "y"), Maps)>>),
     Do(<<Set(Top("a"), Letters), Gone(Elem("a", 0))>>),
     Do(<<Set(Top("k"), Number)>>),
     Do(<<AddTo(Field("m", "n"), NS(<<One>>))>>),
     When(CounterBelow, <<AddTo(Field("m", "n"), NS(<<OneAgain, Two>>)), AddTo(Top("s"), SS(<<120>>))>>),
     When(HasNumber,
          <<DeleteFrom(Field("m", "n"), NS(<<OneAgain>>)), DeleteFrom(Top("s"), SS(<<120, 121>>))>>),
     Do(<<Plus(Top("c"), Counter, Size(Top("a")))>>),
     When(CounterRange, <<Minus(Top("c"), Number, Path(Top("c")))>>),
     When(CounterIn, <<Set(<<Name("m"), Name("z"), Name("c")>>, Length)>>),
     When(Undefined, <<Gone(Top("a"))>>)}

MCProjections ==
    {<<Top("c"), Field("m", "n"), Field("m", "x"), Top("k")>>,
     <<Elem("a", 0), Top("b"), Elem("a", 2)>>,
     <<<<Name("m"), Name("z"), Name("c")>>, <<Name("a"), Index(1), Name("n")>>, Elem("a", 2),
       Field("m", "y")>>}

(* Two lists of three elements, and a REMOVE that goes from one to the     *)
(* other and back.                                                         *)
Alternating ==
    {Do(<<Set(Top("a"), Letters), Set(Top("b"), Letters)>>),
     Do(<<Gone(Elem("a", 0)), Gone(Elem("b", 0)), Gone(Elem("a", 1))>>)}

=============================================================================
