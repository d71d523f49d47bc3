------------------------------ MODULE Projection ------------------------------
(***************************************************************************)
(* ProjectionExpression (ops_item.go): what a read returns of an item.     *)
(* Each path's value is put back under its names, a list around it for an  *)
(* index, and the results are merged one after the other.                  *)
(***************************************************************************)
EXTENDS Values

Root == Scalar([type |-> "M"])

(* The value at path, inside maps and lists of one element.                *)
wrapPath(item, path) ==
    LET place == [i \in 1..Len(path) |-> IF path[i].isIdx THEN Index(0) ELSE path[i]]
        above == {SubSeq(place, 1, n) : n \in 0..(Len(path) - 1)}
        value == At(item, path)
        tail(p) == SubSeq(p, Len(path) + 1, Len(p))
    IN
    [p \in above \union {place \o q : q \in DOMAIN value} |->
        IF p \notin above THEN value[tail(p)]
        ELSE [type |-> IF path[Len(p) + 1].isIdx THEN "L" ELSE "M"]]

(* Mutant of mergeAV: the later value replaces the earlier.                *)
mergeTop(a, b) ==
    LET lost == {p \in DOMAIN a : p # Here /\ <<p[1]>> \in DOMAIN b} IN
    [p \in (DOMAIN a \ lost) \union DOMAIN b |-> IF p \in DOMAIN b THEN b[p] ELSE a[p]]

(* Maps are merged name by name, lists appended to one another; of others  *)
(* the later stays.                                                        *)
mergeAV(a, b) ==
    LET Both(p)  == p \in DOMAIN a \intersect DOMAIN b
        maps     == {p \in DOMAIN b : \A n \in 0..Len(p) :
                        LET q == SubSeq(p, 1, n) IN Both(q) /\ a[q].type = "M" /\ b[q].type = "M"}
        meet     == {p \in DOMAIN b : Both(p) /\ p \notin maps /\ (p = Here \/ Front(p) \in maps)}
        lists    == {p \in meet : a[p].type = "L" /\ b[p].type = "L"}
        lost     == {p \in DOMAIN a : \E m \in meet \ lists : IsPrefix(m, p)}
        after(p) == {m \in lists : IsPrefix(m, p) /\ Len(m) < Len(p)}
        place(p) == [i \in 1..Len(p) |->
                        IF \E m \in after(p) : i = Len(m) + 1
                        THEN Index(p[i].index + Cardinality(Elements(a, SubSeq(p, 1, i - 1))))
                        ELSE p[i]]
        placed   == {place(p) : p \in DOMAIN b}
        from(p)  == CHOOSE q \in DOMAIN b : place(q) = p
    IN
    [p \in (DOMAIN a \ lost) \union placed |-> IF p \in placed THEN b[from(p)] ELSE a[p]]

projectItem(item, paths) ==
    LET out[n \in 0..Len(paths)] ==
            IF n = 0 THEN Root
            ELSE IF paths[n] \in DOMAIN item THEN mergeAV(out[n - 1], wrapPath(item, paths[n]))
            ELSE out[n - 1]
    IN  out[Len(paths)]

-----------------------------------------------------------------------------
(* What is asked for: of each map the names, of each list the elements,    *)
(* that a path leads to or through.                                        *)
Asked(item, paths) ==
    LET found == {p \in {paths[i] : i \in 1..Len(paths)} : p \in DOMAIN item}
        kept  == {q \in DOMAIN item : q = Here \/ \E p \in found : IsPrefix(p, q) \/ IsPrefix(q, p)}
        before(q, i) == {m \in 0..(q[i].index - 1) : Append(SubSeq(q, 1, i - 1), Index(m)) \in kept}
        place(q) == [i \in 1..Len(q) |->
                        IF q[i].isIdx THEN Index(Cardinality(before(q, i))) ELSE q[i]]
    IN
    [p \in {place(q) : q \in kept} |-> item[CHOOSE q \in kept : place(q) = p]]

=============================================================================
