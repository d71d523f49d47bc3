----------------------------- MODULE DynarData -----------------------------
(***************************************************************************)
(* The values that dynar's requests and its SQLite file are made of, and   *)
(* what one write does to them.                                            *)
(*                                                                         *)
(* Items, conditions and update expressions are abstract: an item is a     *)
(* value with a size, a condition is a table of its three outcomes and an  *)
(* update a table of its results.  The transactional layers do not look    *)
(* inside them.                                                            *)
(***************************************************************************)
EXTENDS Naturals, Sequences

CONSTANTS
    Names,        \* DynamoDB table names
    DataTable,    \* Names -> SqlNames: the SQLite table that backs a name
    SqlNames,     \* SQLite's identities of data tables (case is folded)
    KeyTypes,     \* types a key schema can declare
    Keys,         \* encoded keys (pk, sk)
    KeyType,      \* Keys -> KeyTypes: the type of the key's attribute
    Items,        \* stored items
    NoItem,       \* no row with this key
    BadItem,      \* the outcome of an update that fails
    Size,         \* Items -> Nat: itemSize
    maxItemSize,
    maxTransactTotalBytes,
    Conds,        \* condition expressions, the absent one included
    Holds,        \* evalCond: Conds -> (Items or NoItem) -> outcome
    Updates,      \* update expressions
    Result,       \* applyUpdate and validateItem: Updates -> old -> new
    TagKeys,      \* tags of a table (their values are left out)
    NoRow,        \* no such table in the catalog
    Tokens,       \* client request tokens
    NoToken,      \* a request without a token
    NoStamp,      \* no such token in dynar_tokens
    clientTokenTTLSeconds,
    ItemInputs,   \* the item and transaction requests that clients send
    TableInputs   \* the table and tag requests that clients send

Outcomes == {"yes", "no", "error"}

Stored == Items \union {NoItem}

Rows == [type : KeyTypes, protected : BOOLEAN, tags : SUBSET TagKeys]

(* The part of a row that clients are promised something about.            *)
RowFacts == [type : KeyTypes, protected : BOOLEAN]

Kinds == {"Put", "Update", "Delete", "ConditionCheck", "Get"}

(* One write, check or read of one key: the part of a request after        *)
(* TableName.  Its value is Put's item or Update's expression.             *)
Acts == [kind : Kinds, table : Names, key : Keys, cond : Conds,
         value : Items \union Updates \union {NoItem}]

ItemOpNames ==
    {"PutItem", "GetItem", "UpdateItem", "DeleteItem", "TransactWriteItems"}

TableOpNames ==
    {"CreateTable", "DescribeTable", "ListTables", "DeleteTable",
     "ListTagsOfResource", "TagResource", "UntagResource"}

Inputs == ItemInputs \union TableInputs

(* A row of dynar_tokens: the request it was used with and when that       *)
(* request was applied.                                                    *)
Stamps == [request : ItemInputs, at : Nat]

(* What the SQLite file holds: dynar_tables, the data tables that exist,   *)
(* their rows (all absent in a table that does not exist), dynar_tokens.   *)
Databases ==
    [catalog : [Names -> Rows \union {NoRow}],
     backing : SUBSET SqlNames,
     data    : [SqlNames -> [Keys -> Stored]],
     tokens  : [Tokens -> Stamps \union {NoStamp}]]

ASSUME NamesAssumption ==
    /\ DataTable \in [Names -> SqlNames]
    /\ KeyType \in [Keys -> KeyTypes]
    /\ NoRow \notin Rows \union RowFacts

ASSUME ItemsAssumption ==
    /\ NoItem \notin Items
    /\ BadItem \notin Stored
    /\ Size \in [Items -> Nat]
    /\ maxItemSize \in Nat
    /\ maxTransactTotalBytes \in Nat
    /\ Items \intersect Updates = {}
    /\ Holds \in [Conds -> [Stored -> Outcomes]]
    /\ Result \in [Updates -> [Stored -> Items \union {BadItem}]]

ASSUME TokensAssumption ==
    /\ NoToken \notin Tokens
    /\ NoStamp \notin Stamps
    /\ clientTokenTTLSeconds \in Nat

(* The shape that the parsers of requests establish: a single-item request *)
(* has one act of its kind, and Put and Update carry what they write.      *)
ASSUME InputsAssumption ==
    /\ TableInputs \subseteq [op : TableOpNames, table : Names, row : Rows,
                              tags : SUBSET TagKeys]
    /\ \A in \in ItemInputs :
          /\ in \in [op : ItemOpNames, acts : Seq(Acts),
                     token : Tokens \union {NoToken}]
          /\ in.op # "TransactWriteItems" => Len(in.acts) = 1
          /\ in.acts # <<>>
          /\ \A i \in DOMAIN in.acts :
                /\ in.acts[i].kind = "Put" => in.acts[i].value \in Items
                /\ in.acts[i].kind = "Update" => in.acts[i].value \in Updates
                /\ in.acts[i].kind = "Get" => in.op = "GetItem"

-----------------------------------------------------------------------------
(* What the program's own files are like.                                  *)

(* The catalog and the data tables agree, one table for each name, and a   *)
(* table that does not exist has no items.                                 *)
Backed(file) ==
    /\ file.backing = {DataTable[n] : n \in {m \in Names : file.catalog[m] # NoRow}}
    /\ \A n, m \in Names :
          /\ file.catalog[n] # NoRow /\ file.catalog[m] # NoRow
          /\ DataTable[n] = DataTable[m]
          => n = m
    /\ \A t \in SqlNames \ file.backing, k \in Keys : file.data[t][k] = NoItem

(* No item is larger than the limit.                                       *)
Bounded(file) ==
    \A t \in SqlNames, k \in Keys :
        file.data[t][k] # NoItem => Size[file.data[t][k]] <= maxItemSize

-----------------------------------------------------------------------------
(* What one act leaves in its row, given what the row held.                *)
NewItem(act, old) ==
    CASE act.kind = "Put"    -> act.value
      [] act.kind = "Update" -> Result[act.value][old]
      [] act.kind = "Delete" -> NoItem
      [] OTHER               -> old

(* The size TransactWriteItems counts for an act toward its limit.         *)
CountedSize(act, old) ==
    LET counted == IF act.kind \in {"Put", "Update"} THEN NewItem(act, old)
                                                     ELSE old
    IN  IF counted \in Items THEN Size[counted] ELSE 0

(* f[1] + ... + f[n].                                                      *)
SumUpTo(f, n) ==
    LET sum[i \in 0..n] == IF i = 0 THEN 0 ELSE sum[i - 1] + f[i] IN sum[n]

Writes(act) == act.kind \in {"Put", "Update", "Delete"}

(* Mutants of Storable: an update without validateItem's test, and one     *)
(* without the test of the size.                                           *)
StorableUnchecked(item) == TRUE
StorableAnySize(item) == item \in Items

(* A new item that Put or Update may store: valid and not too large.       *)
Storable(item) == item \in Items /\ Size[item] <= maxItemSize

Cell(db, act) == db.data[DataTable[act.table]][act.key]

Exists(db, act) == DataTable[act.table] \in db.backing

(* INSERT OR REPLACE, or DELETE, of one row.                               *)
SetCell(db, act, item) ==
    [db EXCEPT !.data[DataTable[act.table]][act.key] = item]

(* Two acts of one transaction on one item (the id of the code: the        *)
(* table's name with the encoded key).                                     *)
SameTarget(a, b) == a.table = b.table /\ a.key = b.key

Expired(stamp, now) == stamp # NoStamp /\ stamp.at + clientTokenTTLSeconds < now

(* Mutant of Purge: it takes rows that are exactly as old as the window.   *)
PurgeAtEnd(tokens, now) ==
    [k \in Tokens |->
        IF tokens[k] # NoStamp /\ tokens[k].at + clientTokenTTLSeconds <= now
        THEN NoStamp ELSE tokens[k]]

(* DELETE FROM dynar_tokens WHERE created_at < now - clientTokenTTLSeconds *)
Purge(tokens, now) ==
    [k \in Tokens |-> IF Expired(tokens[k], now) THEN NoStamp ELSE tokens[k]]

=============================================================================
