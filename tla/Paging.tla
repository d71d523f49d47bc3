------------------------------- MODULE Paging -------------------------------
(***************************************************************************)
(* Query and Scan (ops_item.go): a client lists a table page by page, with *)
(* the LastEvaluatedKey of one page as the ExclusiveStartKey of the next,  *)
(* while others write, and delete the table.  A page is two statements,    *)
(* the load of the table and the SELECT; nothing is held between two of    *)
(* them.                                                                   *)
(*                                                                         *)
(* The SELECT compares encoded keys as BLOBs; what a client expects is     *)
(* said in terms of the key attributes.                                    *)
(***************************************************************************)
EXTENDS Values

CONSTANTS
    Tables,     \* tables, of which a client lists one
    HashType,   \* the type of a table's partition key
    RangeType,  \* the type of its sort key, or ""
    Keys,       \* of each table: the primary keys
    HashKey,    \* of each key: the value of the partition key
    RangeKey,   \* of each key: the value of the sort key, or NoSort
    NoSort,     \* the sort key of an item of a table without one
    Items,      \* stored items
    NoItem,     \* no row with this key
    NoKey,      \* no ExclusiveStartKey; no value
    Filters,    \* filter expressions, the absent one included
    Filtered,   \* evalCond: Filters -> Items -> "yes", "no" or "error"
    Requests    \* the Query and Scan requests of each table's client

Ops == {"", "=", "<", "<=", ">", ">=", "between", "begins_with"}

ASSUME PagingAssumption ==
    /\ \A t \in Tables :
          /\ IsFiniteSet(Keys[t]) /\ NoKey \notin Keys[t]
          /\ \A k \in Keys[t] :
                /\ HashKey[k].type = HashType[t]
                /\ RangeType[t] = "" => RangeKey[k] = NoSort
                /\ RangeType[t] # "" => RangeKey[k] # NoSort /\ RangeKey[k].type = RangeType[t]
          /\ \A req \in Requests[t] :
                /\ req.kind \in {"Query", "Scan"} /\ req.cond.op \in Ops
                /\ req.limit \in Nat /\ req.filter \in Filters
                /\ req.kind = "Scan" => req.forward
    /\ NoItem \notin Items
    /\ Filtered \in [Filters -> [Items -> {"yes", "no", "error"}]]

(* What itemKey makes a key of: values that have an encoding, and of which *)
(* two spellings of one value are one key; and attribute values in a Query.*)
Encodable(av) == av \in KeyAttribute /\ encodeKeyValue(av) # NoBytes

ASSUME KeysAssumption ==
    /\ \A t \in Tables : \A j, k \in Keys[t] :
          /\ Encodable(HashKey[k])
          /\ RangeType[t] # "" => Encodable(RangeKey[k])
          /\ /\ compareOrder(HashKey[j], HashKey[k]) = 0
             /\ RangeType[t] # "" => compareOrder(RangeKey[j], RangeKey[k]) = 0
             => j = k
    /\ \A t \in Tables : \A req \in Requests[t] :
          req.kind = "Query" =>
             /\ req.pk \in KeyAttribute
             /\ req.cond.op # "" => req.cond.lo \in KeyAttribute
             /\ req.cond.op = "between" => req.cond.hi \in KeyAttribute

VARIABLES
    table,      \* the table that the client lists
    rows,       \* its data table
    exists,     \* whether it has not been deleted
    phase,      \* "idle", "load", "select", "done", "failed"
    request,    \* what the client lists
    origin,     \* the key it starts after
    start,      \* the ExclusiveStartKey of the next page
    page,       \* keys of the items of the last page
    got,        \* keys of the items of all pages before it
    steady      \* keys nobody wrote since the listing began

listing == <<phase, request, origin, start, page, got>>
vars == <<table, rows, exists, listing, steady>>

-----------------------------------------------------------------------------
(* The columns pk and sk of an item.                                       *)
itemKey(k) ==
    <<encodeKeyValue(HashKey[k]), IF RangeKey[k] = NoSort THEN <<>> ELSE encodeKeyValue(RangeKey[k])>>

(* What SQLite finds when it compares the two columns of two rows.         *)
Columns == [t \in Tables |-> [k \in Keys[t] |-> itemKey(k)]]

SamePk ==
    [t \in Tables |-> {jk \in Keys[t] \X Keys[t] : Columns[t][jk[1]][1] = Columns[t][jk[2]][1]}]
LessPk ==
    [t \in Tables |->
        {jk \in Keys[t] \X Keys[t] : Precedes(Columns[t][jk[1]][1], Columns[t][jk[2]][1])}]
LessSk ==
    [t \in Tables |->
        {jk \in Keys[t] \X Keys[t] : Precedes(Columns[t][jk[1]][2], Columns[t][jk[2]][2])}]

(* The predicate on sk that a key condition becomes.                       *)
Satisfies(cond, key) ==
    LET lo   == encodeKeyValue(cond.lo)
        hi   == encodeKeyValue(cond.hi)
        pref == keyPrefix(cond.lo)
    IN
    \/ cond.op = ""
    \/ cond.op = "="  /\ key = lo
    \/ cond.op = "<"  /\ Precedes(key, lo)
    \/ cond.op = "<=" /\ ~Precedes(lo, key)
    \/ cond.op = ">"  /\ Precedes(lo, key)
    \/ cond.op = ">=" /\ ~Precedes(key, lo)
    \/ cond.op = "between" /\ ~Precedes(key, lo) /\ ~Precedes(hi, key)
    \/ /\ cond.op = "begins_with"
       /\ ~Precedes(key, pref)
       /\ successor(pref) # NoBytes => Precedes(key, successor(pref))

(* What parseKeyCondition, addSk and keyPrefix accept: values of the types *)
(* of the keys, not empty; begins_with takes any S or B.                   *)
Accepted(t, req) ==
    req.kind = "Query" =>
        /\ req.pk.type = HashType[t]
        /\ encodeKeyValue(req.pk) # NoBytes
        /\ req.cond.op # "" =>
              /\ RangeType[t] # ""
              /\ encodeKeyValue(req.cond.lo) # NoBytes
        /\ req.cond.op = "begins_with" => req.cond.lo.type \in {"S", "B"}
        /\ req.cond.op \notin {"", "begins_with"} => req.cond.lo.type = RangeType[t]
        /\ req.cond.op = "between" =>
              req.cond.hi.type = RangeType[t] /\ encodeKeyValue(req.cond.hi) # NoBytes

(* The keys that a SELECT's WHERE accepts, start key aside.                *)
Asked ==
    [t \in Tables |-> [req \in {r \in Requests[t] : Accepted(t, r)} |->
        {k \in Keys[t] :
            req.kind = "Query" =>
                /\ Columns[t][k][1] = encodeKeyValue(req.pk)
                /\ Satisfies(req.cond, Columns[t][k][2])}]]

(* Mutant of Continues: the page repeats its ExclusiveStartKey.            *)
ContinuesFrom(esk, k) ==
    IF request.kind = "Scan"
    THEN <<k, esk>> \notin LessPk[table]
    ELSE <<k, esk>> \notin LessSk[table]

(* Mutant of Continues: a descending Query continues upwards.              *)
ContinuesUp(esk, k) ==
    IF request.kind = "Scan"
    THEN <<esk, k>> \in LessPk[table] \union (SamePk[table] \intersect LessSk[table])
    ELSE RangeType[table] # "" => <<esk, k>> \in LessSk[table]

(* The predicate that an ExclusiveStartKey becomes.  A Query has one only  *)
(* on the sort key, which a table may not have.                            *)
Continues(esk, k) ==
    IF request.kind = "Scan"
    THEN <<esk, k>> \in LessPk[table] \union (SamePk[table] \intersect LessSk[table])
    ELSE RangeType[table] # "" =>
            IF request.forward THEN <<esk, k>> \in LessSk[table] ELSE <<k, esk>> \in LessSk[table]

(* ORDER BY sk ASC or DESC, and ORDER BY pk, sk.                           *)
OrderedBefore(j, k) ==
    \/ request.kind = "Scan" /\ <<j, k>> \in LessPk[table]
    \/ /\ <<j, k>> \in SamePk[table]
       /\ IF request.forward THEN <<j, k>> \in LessSk[table] ELSE <<k, j>> \in LessSk[table]

Selected ==
    {k \in Asked[table][request] :
        rows[k] # NoItem /\ (start # NoKey => Continues(start, k))}

(* The first limit rows; all of them without a limit.                      *)
FirstOf(selected) ==
    {k \in selected : request.limit > 0
                      => Cardinality({j \in selected : OrderedBefore(j, k)}) < request.limit}

Scanned == FirstOf(Selected)

Outcome(k) == Filtered[request.filter][rows[k]]

(* Mutant of LastKey: the key of the last item that passed the filter.     *)
LastKept(keys) ==
    LET kept == {k \in keys : Outcome(k) = "yes"} IN
    IF kept = {} THEN NoKey
    ELSE CHOOSE k \in kept : \A j \in kept : j = k \/ OrderedBefore(j, k)

(* LastEvaluatedKey: the key of the last row scanned, whether it passed    *)
(* the filter or not.                                                      *)
LastKey(keys) == CHOOSE k \in keys : \A j \in keys : j = k \/ OrderedBefore(j, k)

-----------------------------------------------------------------------------
Init ==
    /\ table \in Tables
    /\ rows \in [Keys[table] -> Items \union {NoItem}]
    /\ exists = TRUE
    /\ phase = "idle"
    /\ request \in Requests[table]
    /\ origin = NoKey
    /\ start = NoKey
    /\ page = {}
    /\ got = {}
    /\ steady = Keys[table]

Listing == phase \in {"load", "select"}

(* The client begins its listing, at the start or after a key it knows.    *)
(* (Another listing would be this one from other rows.)                    *)
Begin(esk) ==
    /\ phase = "idle"
    /\ phase' = "load"
    /\ origin' = esk
    /\ start' = esk
    /\ steady' = Keys[table]
    /\ UNCHANGED <<table, rows, exists, request, page, got>>

(* Mutant of Refused: values of other types than the keys' are let through. *)
RefusedUntyped == ~exists

(* loadTable, and the checks of the request against the key schema; a      *)
(* Query refuses an ExclusiveStartKey of another partition.                *)
Refused ==
    \/ ~exists
    \/ ~Accepted(table, request)
    \/ /\ request.kind = "Query" /\ start # NoKey
       /\ Columns[table][start][1] # encodeKeyValue(request.pk)

Load ==
    /\ phase = "load"
    /\ phase' = IF Refused THEN "failed" ELSE "select"
    /\ UNCHANGED <<table, rows, exists, request, origin, start, page, got, steady>>

Page ==
    /\ phase = "select"
    /\ exists
    /\ LET selected == Selected
           scanned  == FirstOf(selected)
       IN
       /\ \A k \in scanned : Outcome(k) # "error"
       /\ page' = {k \in scanned : Outcome(k) = "yes"}
       /\ start' = IF scanned # selected THEN LastKey(scanned) ELSE NoKey
    /\ got' = got \union page
    /\ phase' = IF start' # NoKey THEN "load" ELSE "done"
    /\ UNCHANGED <<table, rows, exists, request, origin, steady>>

(* The data table is gone, or a row's filter cannot be evaluated.          *)
PageFails ==
    /\ phase = "select"
    /\ ~exists \/ \E k \in Scanned : Outcome(k) = "error"
    /\ phase' = "failed"
    /\ UNCHANGED <<table, rows, exists, request, origin, start, page, got, steady>>

(* Another request puts, replaces or deletes an item between two           *)
(* statements, or deletes the table.                                       *)
Write(k, item) ==
    /\ exists
    /\ rows[k] # item
    /\ rows' = [rows EXCEPT ![k] = item]
    /\ steady' = steady \ {k}
    /\ UNCHANGED <<table, exists, listing>>

DeleteTable ==
    /\ exists
    /\ exists' = FALSE
    /\ rows' = [k \in Keys[table] |-> NoItem]
    /\ steady' = {}
    /\ UNCHANGED <<table, listing>>

(* It may come back, with the same key schema.                             *)
CreateTable ==
    /\ ~exists
    /\ exists' = TRUE
    /\ UNCHANGED <<table, rows, listing, steady>>

Next ==
    \/ \E esk \in Keys[table] \union {NoKey} : Begin(esk)
    \/ Load
    \/ Page
    \/ PageFails
    \/ \E k \in Keys[table], item \in Items \union {NoItem} : Write(k, item)
    \/ DeleteTable
    \/ CreateTable

(* The client asks for the next page until there is none.                  *)
FairSpec == Init /\ [][Next]_vars /\ WF_vars(Load \/ Page \/ PageFails)

-----------------------------------------------------------------------------
(* What a client expects, in terms of the key attributes.                  *)

Before(a, b) == compareOrder(a, b) < 0
Same(a, b) == compareOrder(a, b) = 0

(* Which sort keys a key condition describes: what evalCond says of the    *)
(* same condition as a filter.                                             *)
Describes(cond, key) ==
    \/ cond.op = ""
    \/ cond.op = "="  /\ Same(key, cond.lo)
    \/ cond.op = "<"  /\ Before(key, cond.lo)
    \/ cond.op = "<=" /\ ~Before(cond.lo, key)
    \/ cond.op = ">"  /\ Before(cond.lo, key)
    \/ cond.op = ">=" /\ ~Before(key, cond.lo)
    \/ cond.op = "between" /\ ~Before(key, cond.lo) /\ ~Before(cond.hi, key)
    \/ cond.op = "begins_with" /\ StartsWith(key, cond.lo)

Wanted ==
    [t \in Tables |-> [req \in {r \in Requests[t] : Accepted(t, r)} |->
        {k \in Keys[t] : req.kind = "Query" =>
                            Same(HashKey[k], req.pk) /\ Describes(req.cond, RangeKey[k])}]]

Comes(req, j, k) ==
    \/ req.kind = "Scan" /\ Before(HashKey[j], HashKey[k])
    \/ /\ Same(HashKey[j], HashKey[k])
       /\ RangeKey[j] # NoSort
       /\ IF req.forward THEN Before(RangeKey[j], RangeKey[k]) ELSE Before(RangeKey[k], RangeKey[j])

(* The order of a listing: of its sort keys' values, upwards or downwards. *)
InOrder ==
    [t \in Tables |-> [req \in Requests[t] |->
        {jk \in Keys[t] \X Keys[t] : Comes(req, jk[1], jk[2])}]]

Follows(j, k) == <<j, k>> \in InOrder[table][request]

(* Encoded keys are faithful: different keys are different rows, and the   *)
(* order of the columns as BLOBs is the order of the attributes' values,   *)
(* however they are spelled.                                               *)
Faithful ==
    [t \in Tables |-> \A j, k \in Keys[t] :
        /\ itemKey(k) \in Seq(Byte) \X Seq(Byte)
        /\ itemKey(j) = itemKey(k) => j = k
        /\ <<j, k>> \in SamePk[t] <=> Same(HashKey[j], HashKey[k])
        /\ <<j, k>> \in LessPk[t] <=> Before(HashKey[j], HashKey[k])
        /\ RangeType[t] # "" => (<<j, k>> \in LessSk[t] <=> Before(RangeKey[j], RangeKey[k]))]

KeysFaithful == \A t \in Tables : Faithful[t]

(* The rows of a table are ordered as their keys (encodeKeyValue, itemKey).*)
RowsOrderedAsKeys == Faithful[table]

ConditionsFaithful == \A t \in Tables : Asked[t] = Wanted[t]

(* The predicate that a key condition becomes accepts the rows that the    *)
(* condition describes, a range for a prefix included (addSk, keyPrefix,   *)
(* successor).                                                             *)
SelectsAsDescribed == Asked[table] = Wanted[table]

(* The state is of the right types, and no SELECT runs for a request that  *)
(* does not fit the table's keys.                                          *)
TypeOK ==
    /\ table \in Tables
    /\ rows \in [Keys[table] -> Items \union {NoItem}]
    /\ exists \in BOOLEAN
    /\ phase \in {"idle", "load", "select", "done", "failed"}
    /\ request \in Requests[table]
    /\ origin \in Keys[table] \union {NoKey}
    /\ start \in Keys[table] \union {NoKey}
    /\ page \subseteq Keys[table]
    /\ got \subseteq Keys[table]
    /\ steady \subseteq Keys[table]
    /\ phase = "select" => Accepted(table, request)

(* Pages come in the order of the sort key and never give an item twice,   *)
(* whatever is written or deleted between them, the item at the boundary   *)
(* included.  (The ORDER BY and the ExclusiveStartKey of opQuery, opScan.) *)
PagesInOrder == \A j \in got, k \in page : Follows(j, k)

(* A listing that ends has given every item it was asked for that nobody   *)
(* wrote in the meantime, and nothing it was not asked for.                *)
ListingComplete ==
    phase = "done" =>
        /\ \A k \in steady \intersect Wanted[table][request] :
              /\ rows[k] # NoItem /\ Outcome(k) = "yes"
              /\ origin # NoKey => Follows(origin, k)
              => k \in got \union page
        /\ got \union page \subseteq Wanted[table][request]
        /\ \A k \in (got \union page) \intersect steady : rows[k] # NoItem

(* Every listing ends, although others go on writing.                      *)
ListingEnds == Listing ~> ~Listing

(* An item is continued strictly after: no page has the ExclusiveStartKey  *)
(* it was asked to continue after, or an item before it.                   *)
StrictlyAfter ==
    origin # NoKey => \A k \in got \union page : Follows(origin, k)

=============================================================================
