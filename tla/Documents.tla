------------------------------ MODULE Documents ------------------------------
(***************************************************************************)
(* UpdateItem as one item sees it (update.go, ops_item.go): conditional    *)
(* updates of the attributes of one key.                                   *)
(*                                                                         *)
(* An update works in place on a copy of the item, where SET attribute =   *)
(* path and list_append share the containers they copy from.  So the copy  *)
(* is a document: a value, and for each of its paths the container that is *)
(* found there.  A result is a set: {} is an error.                        *)
(***************************************************************************)
EXTENDS Conditions, Projection

CONSTANTS
    KeyAttributes,  \* the value of an item with no other attributes
    Updates,        \* requests: [cond, actions]
    Rvalues,        \* the right-hand sides of SET, nested ones included
    Projections,    \* sequences of paths that reads ask for
    Always,         \* no ConditionExpression
    NoItem,         \* no row
    MaxDigits,      \* the 38 significant digits of validateNumber
    MaxItemSize     \* maxItemSize

(* What parseRvalue and parseUpdateExpr give: nested right-hand sides end, *)
(* and a path begins with a name.  The fn of a plain operand, empty in the *)
(* source, is "operand".                                                   *)
Nested(r) ==
    CASE r.fn = "operand" -> {} [] r.fn = "if_not_exists" -> {r.b} [] r.fn = "list_append" -> {r.a, r.b}

ASSUME RvaluesAssumption ==
    /\ \A r \in Rvalues :
          /\ r.fn \in {"operand", "if_not_exists", "list_append"}
          /\ r.fn = "operand" => IsOperand(r.opnd)
          /\ r.fn = "if_not_exists" => r.path \in AttributePaths
          /\ Nested(r) \subseteq Rvalues
    /\ \A some \in (SUBSET Rvalues) \ {{}} : \E r \in some : Nested(r) \intersect some = {}

IsAction(a) ==
    /\ a.path \in AttributePaths
    /\ a.op \in {"set", "remove", "add", "delete"}
    /\ a.op = "set" =>
          /\ a.set.kind \in {"plain", "add", "sub"} /\ a.set.a \in Rvalues
          /\ a.set.kind # "plain" => IsOperand(a.set.b)
    /\ a.op \in {"add", "delete"} => IsOperand(a.value)

ASSUME UpdatesAssumption ==
    \A u \in Updates :
        /\ u.actions \in Seq({u.actions[i] : i \in DOMAIN u.actions})
        /\ \A i \in DOMAIN u.actions : IsAction(u.actions[i])

ASSUME ProjectionsAssumption == \A paths \in Projections : paths \in Seq(AttributePaths)

Sums == INSTANCE DecimalSums WITH Unit <- 1

Names(at) == {e.name : e \in Elements(at, Here)}
KeyNames == Names(KeyAttributes)

VARIABLES
    item,       \* the stored item
    reply       \* of the last request: [request, outcome, old, new]

vars == <<item, reply>>

-----------------------------------------------------------------------------
(* Documents.                                                              *)

Prefix(path, n) == SubSeq(path, 1, n)

(* Containers: of the item as it was read and of what was sent, or made by *)
(* the action at a path and first found at a place.  Anonymous stands for  *)
(* those that are not placed yet.                                          *)
Read(place)     == [made |-> FALSE, by |-> Here, place |-> place]
Made(by, place) == [made |-> TRUE, by |-> by, place |-> place]
Anonymous       == Made(Here, Here)

(* The values of :refs lie beside the attributes, where no path of a       *)
(* request leads: each is one value wherever the update uses it.           *)
RefPath(v) == <<Index(v)>>

Sent ==
    [p \in UNION {{RefPath(v) \o q : q \in DOMAIN Refs[v]} : v \in DOMAIN Refs} |->
        Refs[p[1].index][Tail(p)]]

cloneItem(at) ==
    LET all == [p \in DOMAIN at \union DOMAIN Sent |-> IF p \in DOMAIN at THEN at[p] ELSE Sent[p]]
    IN
    [at |-> all, ref |-> [p \in DOMAIN all |-> Read(p)]]

(* The item that an update leaves.                                         *)
Attributes(doc) ==
    [p \in {q \in DOMAIN doc.at : q = Here \/ ~q[1].isIdx} |-> doc.at[p]]

(* An update that puts a container into itself: validateItem does not      *)
(* return from it.  (Later actions of such an update are not evaluated;    *)
(* one of them could still fail and so end the request.)                   *)
Cyclic == [at |-> << >>, ref |-> << >>]

Given(value) == [at |-> value, ref |-> [p \in DOMAIN value |-> Anonymous]]

Subdocument(doc, path) == [at |-> At(doc.at, path), ref |-> At(doc.ref, path)]

(* Mutant of Below: the element, and nothing that was in it.               *)
BelowAlone(path, element, doc) == {p \in DOMAIN doc.at : p = Append(path, element)}

(* The element of a container, and all that is in it.                      *)
Below(path, element, doc) == {p \in DOMAIN doc.at : IsPrefix(Append(path, element), p)}

(* Mutant of Places: equal containers are taken for one, as if they were   *)
(* cloned to one.                                                          *)
PlacesAlike(doc, path) == {p \in DOMAIN doc.at : At(doc.at, p) = At(doc.at, path)}

(* Wherever the container at path is found.                                *)
Places(doc, path) == {p \in DOMAIN doc.at : doc.ref[p] = doc.ref[path]}

(* A subdocument is assigned to an element of the container at path.       *)
Put(doc, path, element, sub) ==
    IF \E q \in DOMAIN sub.at : sub.ref[q] = doc.ref[path] THEN Cyclic
    ELSE
    LET kept  == DOMAIN doc.at \ UNION {Below(p, element, doc) : p \in Places(doc, path)}
        spots == {Append(p, element) : p \in Places(doc, path) \intersect kept}
        new   == UNION {{s \o q : q \in DOMAIN sub.at} : s \in spots}
        spot(p) == CHOOSE s \in spots : IsPrefix(s, p)
        tail(p) == SubSeq(p, Len(spot(p)) + 1, Len(p))
    IN
    [at  |-> [p \in kept \union new |-> IF p \in new THEN sub.at[tail(p)] ELSE doc.at[p]],
     ref |-> [p \in kept \union new |-> IF p \in new THEN sub.ref[tail(p)] ELSE doc.ref[p]]]

(* The elements of lists after the one removed move down.                  *)
Cut(doc, path, element) ==
    LET places == Places(doc, path)
        cut    == UNION {Below(p, element, doc) : p \in places}
        moves(p) == {Len(q) + 1 : q \in {r \in places : Len(r) < Len(p) /\ IsPrefix(r, p)}}
        moved(p) == [i \in 1..Len(p) |->
                        IF i \in moves(p) /\ element.isIdx /\ p[i].isIdx /\ p[i].index > element.index
                        THEN Index(p[i].index - 1) ELSE p[i]]
        kept   == DOMAIN doc.at \ cut
        was    == [p \in {moved(q) : q \in kept} |-> CHOOSE q \in kept : moved(q) = p]
    IN
    [at  |-> [p \in DOMAIN was |-> doc.at[was[p]]],
     ref |-> [p \in DOMAIN was |-> doc.ref[was[p]]]]

-----------------------------------------------------------------------------
(* SET.                                                                    *)

operandValue(o, doc) ==
    IF Erroneous(o, doc.at) THEN {}
    ELSE IF o.kind = "value" THEN {Subdocument(doc, RefPath(o.vref))}
    ELSE IF o.kind = "path" /\ resolvePath(doc.at, o.path) # {} THEN {Subdocument(doc, o.path)}
    ELSE {Given(v) : v \in resolveOperand(o, doc.at)}

Appended(a, b) ==
    LET len == Cardinality(Elements(a.at, Here))
        shifted(p) == [p EXCEPT ![1] = Index(@.index + len)]
        tails   == {shifted(p) : p \in DOMAIN b.at \ {Here}}
        from(p) == CHOOSE q \in DOMAIN b.at \ {Here} : shifted(q) = p
    IN
    [at  |-> [p \in DOMAIN a.at \union tails |->
                IF p \in tails THEN b.at[from(p)] ELSE a.at[p]],
     ref |-> [p \in DOMAIN a.at \union tails |->
                IF p = Here THEN Anonymous
                ELSE IF p \in tails THEN b.ref[from(p)] ELSE a.ref[p]]]

(* A right-hand side, when value has what those nested in it give.         *)
evalWith(value, r, doc) ==
    CASE r.fn = "operand" -> operandValue(r.opnd, doc)
      [] r.fn = "if_not_exists" ->
            IF resolvePath(doc.at, r.path) # {} THEN {Subdocument(doc, r.path)} ELSE value[r.b]
      [] r.fn = "list_append" ->
            {Appended(a, b) : a \in {x \in value[r.a] : x.at[Here].type = "L"},
                              b \in {x \in value[r.b] : x.at[Here].type = "L"}}

evalRvalue(rvalue, doc) ==
    LET eval[r \in Rvalues] == evalWith(eval, r, doc)
    IN  eval[rvalue]

(* The integer a numeral stands for; the model's numbers are integers.     *)
Whole(digits) ==
    LET whole[n \in 0..Len(digits)] ==
            IF n = 0 THEN 0 ELSE 10 * whole[n - 1] + digits[n]
    IN  whole[Len(digits)]

Int10(num) ==
    LET dec == parseDecimal(num)
    IN  dec.sign * Whole(dec.digits \o [i \in 1..(dec.exp - Len(dec.digits)) |-> 0])

addNumbers(m, n, sub) == Given(Scalar(Integer(Sums!addNumbers(Int10(m), Int10(n), sub))))

Sum(as, bs, sub) ==
    {addNumbers(a.at[Here].num, b.at[Here].num, sub) :
        a \in {x \in as : x.at[Here].type = "N"}, b \in {x \in bs : x.at[Here].type = "N"}}

evalSetValue(set, doc) ==
    CASE set.kind = "plain" -> evalRvalue(set.a, doc)
      [] set.kind # "plain" ->
            Sum(evalRvalue(set.a, doc), operandValue(set.b, doc), set.kind = "sub")

(* Assigns at path, making the maps that are missing on the way.           *)
setPath(doc, path, sub) ==
    LET there == {n \in 0..(Len(path) - 1) : Prefix(path, n) \in DOMAIN doc.at}
        have  == CHOOSE n \in there : \A m \in there : m <= n
        rest  == SubSeq(path, have + 2, Len(path))
        maps  == {Prefix(rest, n) : n \in 0..(Len(rest) - 1)}
        nodes == maps \union {rest \o p : p \in DOMAIN sub.at}
        tail(p) == SubSeq(p, Len(rest) + 1, Len(p))
        new(p)  == p \in maps \/ sub.ref[tail(p)] = Anonymous
        chain == [at  |-> [p \in nodes |-> IF p \in maps THEN [type |-> "M"] ELSE sub.at[tail(p)]],
                  ref |-> [p \in nodes |-> IF new(p) THEN Made(path, Prefix(path, have + 1) \o p)
                                            ELSE sub.ref[tail(p)]]]
        fits  == \/ path \in DOMAIN doc.at
                 \/ /\ doc.at[Prefix(path, have)].type = "M"
                    /\ \A i \in (have + 1)..Len(path) : ~path[i].isIdx
    IN
    IF fits THEN {Put(doc, Prefix(path, have), path[have + 1], chain)} ELSE {}

-----------------------------------------------------------------------------
(* REMOVE, ADD and DELETE.                                                 *)

applyRemove(doc, path) ==
    LET parent == Front(path)
        type   == doc.at[parent].type
    IN
    IF parent \notin DOMAIN doc.at THEN {doc}
    ELSE IF Last(path).isIdx
    THEN IF type = "L" /\ path \in DOMAIN doc.at THEN {Cut(doc, parent, Last(path))} ELSE {}
    ELSE IF type = "M" THEN {Cut(doc, parent, Last(path))} ELSE {}

WithContents(type, seq) ==
    Given(Scalar(IF type = "NS" THEN [type |-> type, nums |-> seq]
                 ELSE [type |-> type, members |-> seq]))

HasMember(type, seq, x) ==
    \E i \in 1..Len(seq) : IF type = "NS" THEN numbersEqual(seq[i], x) ELSE seq[i] = x

union(type, a, b) ==
    LET out[n \in 0..Len(b)] ==
            IF n = 0 THEN a
            ELSE IF HasMember(type, out[n - 1], b[n]) THEN out[n - 1]
            ELSE Append(out[n - 1], b[n])
    IN  out[Len(b)]

(* Mutant of diff: numbers are removed as they are spelled.                *)
diffSpelled(type, a, b) == SelectSeq(a, LAMBDA x : \A i \in 1..Len(b) : b[i] # x)

diff(type, a, b) ==
    LET out[n \in 0..Len(a)] ==
            IF n = 0 THEN <<>>
            ELSE IF HasMember(type, b, a[n]) THEN out[n - 1]
            ELSE Append(out[n - 1], a[n])
    IN  out[Len(a)]

Add(doc, path, v) ==
    LET node == v.at[Here]
        cur  == doc.at[path]
    IN
    CASE node.type \notin Sets \union {"N"} -> {}
      [] node.type \in Sets \union {"N"} /\ resolvePath(doc.at, path) = {} -> setPath(doc, path, v)
      [] node.type \in Sets \union {"N"} /\ resolvePath(doc.at, path) # {} ->
            IF cur.type # node.type THEN {}
            ELSE IF node.type = "N" THEN setPath(doc, path, addNumbers(cur.num, node.num, FALSE))
            ELSE setPath(doc, path,
                         WithContents(node.type, union(node.type, Contents(cur), Contents(node))))

Delete(doc, path, v) ==
    LET node == v.at[Here]
        cur  == doc.at[path]
        out  == diff(node.type, Contents(cur), Contents(node))
    IN
    IF resolvePath(doc.at, path) = {} THEN {doc}
    ELSE IF node.type \notin Sets \/ cur.type # node.type THEN {}
    ELSE IF out = <<>> THEN applyRemove(doc, path)
    ELSE setPath(doc, path, WithContents(node.type, out))

-----------------------------------------------------------------------------
(* Updates.                                                                *)

applyAction(doc, a) ==
    IF doc = Cyclic THEN {Cyclic}
    ELSE CASE a.op = "set"    -> UNION {setPath(doc, a.path, v) : v \in evalSetValue(a.set, doc)}
           [] a.op = "remove" -> applyRemove(doc, a.path)
           [] a.op = "add"    -> UNION {Add(doc, a.path, v) : v \in operandValue(a.value, doc)}
           [] a.op = "delete" -> UNION {Delete(doc, a.path, v) : v \in operandValue(a.value, doc)}

SameParent(p, q) == Len(p) = Len(q) /\ Front(p) = Front(q)

(* Mutant of GoesBefore: the lowest index goes first.                      *)
GoesBeforeUp(a, b) ==
    /\ Last(a.path).isIdx /\ Last(b.path).isIdx /\ SameParent(a.path, b.path)
    /\ Last(a.path).index < Last(b.path).index

(* The comparison that sorts the REMOVEs.                                  *)
GoesBefore(a, b) ==
    /\ Last(a.path).isIdx /\ Last(b.path).isIdx /\ SameParent(a.path, b.path)
    /\ Last(a.path).index > Last(b.path).index

(* sort.SliceStable of at most 20 elements: each is inserted after the     *)
(* last one before it that it does not go before.                          *)
Inserted(sorted, a) ==
    LET stops == {i \in 1..Len(sorted) : ~GoesBefore(a, sorted[i])}
        stop  == IF stops = {} THEN 0 ELSE CHOOSE i \in stops : \A j \in stops : j <= i
    IN  InsertAt(sorted, stop + 1, a)

(* The REMOVEs as they are sorted.                                         *)
Removes(actions) ==
    LET removes[n \in 0..Len(actions)] ==
            IF n = 0 THEN <<>>
            ELSE IF actions[n].op = "remove" THEN Inserted(removes[n - 1], actions[n])
            ELSE removes[n - 1]
    IN  removes[Len(actions)]

(* One after the other, those of the actions that do one of ops.           *)
applyEach(docs, actions, ops) ==
    LET after[n \in 0..Len(actions)] ==
            IF n = 0 THEN docs
            ELSE IF actions[n].op \in ops THEN UNION {applyAction(d, actions[n]) : d \in after[n - 1]}
            ELSE after[n - 1]
    IN  after[Len(actions)]

applyUpdate(at, actions) ==
    applyEach(applyEach({cloneItem(at)}, actions, {"set", "add", "delete"}),
              Removes(actions), {"remove"})

(* Mutant of Touched: REMOVEs are forgotten.                               *)
TouchedKept(actions) ==
    {actions[i].path[1].name : i \in {j \in 1..Len(actions) : actions[j].op # "remove"}}

(* updated: the attributes of UPDATED_OLD and UPDATED_NEW.                 *)
Touched(actions) == {actions[i].path[1].name : i \in 1..Len(actions)}

pickUpdated(at, names) == [p \in {q \in DOMAIN at \ {Here} : q[1].name \in names} |-> at[p]]

pathsOverlap(p, q) == IsPrefix(p, q) \/ IsPrefix(q, p)

(* What parsing and validation refuse.                                     *)
Malformed(actions) ==
    \/ \E i, j \in 1..Len(actions) : i < j /\ pathsOverlap(actions[i].path, actions[j].path)
    \/ \E i \in 1..Len(actions) : actions[i].path[1].name \in KeyNames

-----------------------------------------------------------------------------
(* validateItem and itemSize.                                              *)

validateNumber(num) ==
    LET dec == parseDecimal(num) IN
    dec.sign # 0 => Len(dec.digits) <= MaxDigits /\ dec.exp \in -130..126

validateItem(at) ==
    \A p \in DOMAIN at :
        /\ at[p].type = "N" => validateNumber(at[p].num)
        /\ at[p].type = "NS" => \A i \in 1..Len(at[p].nums) : validateNumber(at[p].nums[i])
        /\ at[p].type \in Sets => Contents(at[p]) # <<>>

NumberSize(num) == (Len(parseDecimal(num).digits) + 1) \div 2 + 1

NodeSize(node) ==
    CASE node.type \in {"S", "B"} -> Len(node.bytes)
      [] node.type = "N" -> NumberSize(node.num)
      [] node.type \in {"BOOL", "NULL"} -> 1
      [] node.type \in {"SS", "BS"} -> FoldLeft(LAMBDA n, x : n + Len(x), 0, node.members)
      [] node.type = "NS" -> FoldLeft(LAMBDA n, x : n + NumberSize(x), 0, node.nums)
      [] node.type \in {"L", "M"} -> 3

(* Names count 1; so does an element of a list or map.                     *)
itemSize(at) ==
    MapThenSumSet(LAMBDA p : NodeSize(at[p]) + (IF Last(p).isIdx THEN 0 ELSE 1)
                                             + (IF Len(p) > 1 THEN 1 ELSE 0),
                  DOMAIN at \ {Here})

(* The key of an item is one that a PutItem could have stored.             *)
ASSUME KeyAttributesAssumption ==
    /\ IsValue(KeyAttributes) /\ KeyAttributes[Here].type = "M"
    /\ \A p \in DOMAIN KeyAttributes \ {Here} : KeyAttributes[p].type \in {"S", "N", "B"}
    /\ validateItem(KeyAttributes) /\ itemSize(KeyAttributes) <= MaxItemSize

-----------------------------------------------------------------------------
Outcomes == {"ok", "refused", "failed condition", "invalid", "too large", "died"}

Nothing == [p \in {Here} |-> [type |-> "M"]]
Current == IF item = NoItem THEN Nothing ELSE item
Base    == IF item = NoItem THEN KeyAttributes ELSE item

Init ==
    /\ item \in {KeyAttributes, NoItem}
    /\ reply = [request |-> [cond |-> Always, actions |-> <<>>], outcome |-> "refused",
                old |-> <<>>, new |-> <<>>]

Answer(u, outcome) ==
    /\ reply' = [request |-> u, outcome |-> outcome, old |-> <<>>, new |-> <<>>]
    /\ UNCHANGED item

Judgement(u) == IF u.cond = Always THEN "yes" ELSE evalCond(u.cond, Current)

Refuse(u) ==
    /\ Malformed(u.actions)
    /\ Answer(u, "refused")

FailCondition(u) ==
    /\ ~Malformed(u.actions)
    /\ Judgement(u) # "yes"
    /\ Answer(u, IF Judgement(u) = "no" THEN "failed condition" ELSE "invalid")

Verdicts(docs) ==
    {CASE d = Cyclic -> "died"
       [] d # Cyclic -> IF ~validateItem(Attributes(d)) THEN "invalid"
                        ELSE IF itemSize(Attributes(d)) <= MaxItemSize THEN "ok"
                        ELSE "too large" : d \in docs}

FailUpdate(u) ==
    LET verdicts == Verdicts(applyUpdate(Base, u.actions)) IN
    /\ ~Malformed(u.actions)
    /\ Judgement(u) = "yes"
    /\ "ok" \notin verdicts
    /\ Answer(u, IF verdicts = {} THEN "invalid" ELSE CHOOSE v \in verdicts : TRUE)

Update(u) ==
    /\ ~Malformed(u.actions)
    /\ Judgement(u) = "yes"
    /\ \E doc \in applyUpdate(Base, u.actions) :
          /\ Verdicts({doc}) = {"ok"}
          /\ item' = Attributes(doc)
          /\ reply' = [request |-> u, outcome |-> "ok",
                       old |-> pickUpdated(Current, Touched(u.actions)),
                       new |-> pickUpdated(Attributes(doc), Touched(u.actions))]

Next == \E u \in Updates : Refuse(u) \/ FailCondition(u) \/ FailUpdate(u) \/ Update(u)

Spec == Init /\ [][Next]_vars

-----------------------------------------------------------------------------
(* A set does not have a member twice.                                     *)
MembersDiffer(node) ==
    node.type \in Sets =>
        \A i \in 1..Len(Contents(node)) :
            ~HasMember(node.type, Prefix(Contents(node), i - 1), Contents(node)[i])

AllDiffer(value) == \A p \in DOMAIN value : MembersDiffer(value[p])

(* An item is a map, the key is its own, and the sets are sets when        *)
(* clients send such.                                                      *)
WellFormed(at) ==
    /\ IsValue(at) /\ at[Here].type = "M"
    /\ (\A v \in DOMAIN Refs : AllDiffer(Refs[v])) => AllDiffer(at)
    /\ \A p \in DOMAIN KeyAttributes : p \in DOMAIN at /\ at[p] = KeyAttributes[p]
    /\ validateItem(at)
    /\ itemSize(at) <= MaxItemSize

(* Every stored item is well-formed and storable, whatever updates did to  *)
(* their copies of it (applyUpdate, validateItem, itemSize).               *)
TypeOK ==
    /\ item # NoItem => WellFormed(item)
    /\ reply.outcome \in Outcomes

(* Where two paths lead to the same, or to nothing.                        *)
Agree(p, at1, at2) ==
    /\ p \in DOMAIN at1 <=> p \in DOMAIN at2
    /\ p \in DOMAIN at1 => at1[p] = at2[p]

PathsOf(actions, ops) == {actions[i].path : i \in {j \in 1..Len(actions) : actions[j].op \in ops}}

Removals(actions) == PathsOf(actions, {"remove"})

(* Elements that may go from a list: DELETE removes a set that it empties. *)
Leaving(actions) == {p \in PathsOf(actions, {"remove", "delete"}) : Last(p).isIdx}

(* An element that follows r in its list, or something in it.              *)
Follows(p, r) ==
    /\ Len(p) >= Len(r) /\ Prefix(p, Len(r) - 1) = Front(r)
    /\ p[Len(r)].isIdx /\ p[Len(r)].index > Last(r).index

Moves(p, actions) == \E r \in Leaving(actions) : Follows(p, r)

(* No path leads through an element that may have moved by then: REMOVEs   *)
(* come last.                                                              *)
Independent(actions) ==
    \A i \in 1..Len(actions) :
        LET earlier == IF actions[i].op = "remove" THEN {"delete", "remove"} ELSE {"delete"}
        IN  \A r \in PathsOf(actions, earlier) :
                Last(r).isIdx /\ Follows(actions[i].path, r) => Len(actions[i].path) = Len(r)

(* An update that fails changes nothing, and one that succeeds only what   *)
(* its paths lead to or through, and the elements after those it removes.  *)
(* (applyUpdate works on a clone, with containers that are shared.)        *)
OnlyNamedChange ==
    [][LET as == reply'.request.actions IN
       IF reply'.outcome # "ok" THEN item' = item
       ELSE Independent(as) =>
            \A p \in DOMAIN Base \union DOMAIN item' :
                \/ \E i \in 1..Len(as) : pathsOverlap(as[i].path, p)
                \/ Moves(p, as)
                \/ Agree(p, Base, item')]_vars

(* UPDATED_OLD and UPDATED_NEW together tell all that changed, when no     *)
(* removal turns a path aside (applyUpdate's updated, pickUpdated).        *)
ChangeReported ==
    [][reply'.outcome = "ok" /\ Independent(reply'.request.actions) =>
        \A p \in (DOMAIN Base \union DOMAIN item') \ {Here} :
            Agree(p, Base, item') \/ (Agree(p, Base, reply'.old) /\ Agree(p, item', reply'.new))]_vars

(* The REMOVEs from one list stand side by side.                           *)
Grouped(actions) ==
    \A i, k \in 1..Len(actions) : \A j \in i..k :
        SameParent(actions[i].path, actions[k].path)
        => SameParent(actions[i].path, actions[j].path)

(* What the paths lead to is gone, and lists close up.                     *)
Without(at, paths) ==
    LET lower(p, i) == {r \in paths : /\ Len(r) = i /\ Last(r).isIdx
                                      /\ Front(r) = Prefix(p, i - 1)
                                      /\ r[i].index < p[i].index}
        place(p) == [i \in 1..Len(p) |->
                        IF p[i].isIdx THEN Index(p[i].index - Cardinality(lower(p, i))) ELSE p[i]]
        kept == {p \in DOMAIN at : \A r \in paths : ~IsPrefix(r, p)}
    IN
    [p \in {place(q) : q \in kept} |-> at[CHOOSE q \in kept : place(q) = p]]

RemovesAll(actions) ==
    (\A i \in 1..Len(actions) : actions[i].op = "remove") => item' = Without(Base, Removals(actions))

(* A list loses exactly the elements that REMOVE names by the indexes they *)
(* had, when those of one list are named side by side.                     *)
RemovalsExact ==
    [][reply'.outcome = "ok" /\ Independent(reply'.request.actions) /\ Grouped(reply'.request.actions)
        => RemovesAll(reply'.request.actions)]_vars

(* It does so whatever else is removed between them ("REMOVE with list     *)
(* indexes must be applied highest-index-first per list", applyUpdate).    *)
RemovesTakeEffect ==
    [][reply'.outcome = "ok" /\ Independent(reply'.request.actions)
        => RemovesAll(reply'.request.actions)]_vars

(* Members of a set, numbers by their values.                              *)
IsIn(x, at, path) ==
    path \in DOMAIN at /\ at[path].type \in Sets /\ HasMember(at[path].type, Contents(at[path]), x)

(* No other element may take the place of this one.                        *)
Stays(path, actions) == path \notin Leaving(actions) /\ ~Moves(path, actions)

(* ADD to a set and DELETE from a set are union and difference, however    *)
(* the numbers are spelled, and an emptied set goes.                       *)
SetsBehaveAsSets ==
    [][LET as == reply'.request.actions IN
       reply'.outcome = "ok" /\ Independent(as) =>
        \A a \in {as[i] : i \in {j \in 1..Len(as) : as[j].op \in {"add", "delete"}}} :
            a.value.kind = "value" /\ Refs[a.value.vref][Here].type \in Sets /\ Stays(a.path, as) =>
                LET node == Refs[a.value.vref][Here]
                    Listed(x) == HasMember(node.type, Contents(node), x)
                    all == ToSet(Contents(node)) \union
                           UNION {ToSet(Contents(at[a.path])) :
                                    at \in {b \in {Base, item'} : a.path \in DOMAIN b}}
                IN
                \A x \in all :
                    IsIn(x, item', a.path) <=>
                        IF a.op = "add" THEN IsIn(x, Base, a.path) \/ Listed(x)
                        ELSE IsIn(x, Base, a.path) /\ ~Listed(x)]_vars

(* Conditions agree with one another on every item: = and <>, the orders   *)
(* with each other and with =, BETWEEN with >= and <=, and IN with =.      *)
ConditionsCoherent ==
    \A c \in Conds :
        LET says(l, op, r) == evalCmp([kind |-> "cmp", op |-> op, left |-> l, right |-> r], Current)
            yes(l, op, r) == says(l, op, r) = "yes"
        IN
        /\ c.kind = "cmp" =>
              /\ says(c.left, "<>", c.right) = Negated[says(c.left, "=", c.right)]
              /\ says(c.left, "<", c.right) = says(c.right, ">", c.left)
              /\ Cardinality({op \in {"<", "=", ">"} : yes(c.left, op, c.right)}) <= 1
              /\ yes(c.left, "<=", c.right) /\ yes(c.left, ">=", c.right) => yes(c.left, "=", c.right)
              /\ yes(c.left, "<=", c.right) => ~yes(c.left, ">", c.right)
        /\ c.kind = "between" /\ evalBetween(c, Current) # "error" =>
              (evalBetween(c, Current) = "yes") <=> (yes(c.v, ">=", c.lo) /\ yes(c.v, "<=", c.hi))
        /\ c.kind = "in" /\ evalIn(c, Current) # "error" =>
              (evalIn(c, Current) = "yes") <=> \E i \in 1..Len(c.list) : yes(c.v, "=", c.list[i])

(* Of an item a projection shows what its paths lead to, as it is there,   *)
(* and nothing else.  Paths do not overlap, no two lead through one list   *)
(* element, and those into one list come in its order: projectItem appends *)
(* elements in the order of the paths, and each of them anew.              *)
Orderly(paths) ==
    \A i, j \in 1..Len(paths) : i < j =>
        /\ ~pathsOverlap(paths[i], paths[j])
        /\ \A n \in 1..Len(paths[i]) :
              n <= Len(paths[j]) /\ Prefix(paths[i], n - 1) = Prefix(paths[j], n - 1)
              /\ paths[i][n].isIdx /\ paths[j][n].isIdx
              => paths[i][n].index < paths[j][n].index

ProjectionExact ==
    \A paths \in Projections : Orderly(paths) => projectItem(Current, paths) = Asked(Current, paths)

=============================================================================
