------------------------------ MODULE MCDynar ------------------------------
(***************************************************************************)
(* Small instances of Dynar for TLC: the constants of every run.           *)
(***************************************************************************)
EXTENDS Dynar, TLC

CONSTANTS r1, r2

MCRequests == {r1, r2}
Symmetry == Permutations(MCRequests)

OneName == {"orders"}
TwoNames == {"orders", "users"}
OwnTable == [n \in Names |-> n]

OneKey == {"a"}
TwoKeys == {"a", "b"}
MixedKeys == {"a", "7"}
MCKeyType == [k \in Keys |-> IF k = "7" THEN "N" ELSE "S"]

-----------------------------------------------------------------------------
(* Items grow by update; "big" is beyond the limit of an item.             *)
MCItems == {"v1", "v2", "big"}
MCSize == [v1 |-> 1, v2 |-> 2, big |-> 9]
MCItem == "none"
MCBad == "bad"
MCStored == MCItems \union {MCItem}

MCConds == {"always", "absent", "exists", "typed"}
MCHolds ==
    [c \in MCConds |-> [old \in MCStored |->
        CASE c = "always" -> "yes"
          [] c = "absent" -> IF old = MCItem THEN "yes" ELSE "no"
          [] c = "exists" -> IF old = MCItem THEN "no" ELSE "yes"
          [] OTHER        -> IF old = "v2" THEN "error" ELSE "yes"]]

MCUpdates == {"grow", "strict"}
MCResult ==
    [grow   |-> [none |-> "v1", v1 |-> "v2", v2 |-> "big", big |-> "big"],
     strict |-> [none |-> MCBad, v1 |-> "v1", v2 |-> "v1", big |-> "v1"]]

-----------------------------------------------------------------------------
MCAct(kind, name, key, cond, value) ==
    [kind |-> kind, table |-> name, key |-> key, cond |-> cond, value |-> value]

PutOf(n, k, v, c) == MCAct("Put", n, k, c, v)
UpdateOf(n, k, u, c) == MCAct("Update", n, k, c, u)
DeleteOf(n, k, c) == MCAct("Delete", n, k, c, MCItem)
CheckOf(n, k, c) == MCAct("ConditionCheck", n, k, c, MCItem)
GetOf(n, k) == MCAct("Get", n, k, "always", MCItem)

Single(op, act) == [op |-> op, acts |-> <<act>>, token |-> "no token"]
Tx(acts, token) == [op |-> "TransactWriteItems", acts |-> acts, token |-> token]
TableInput(op, n, row, tags) == [op |-> op, table |-> n, row |-> row, tags |-> tags]
NoTable == {}

Row(type, protected) == [type |-> type, protected |-> protected, tags |-> {}]

(* A file with the given catalog rows and nothing else.                    *)
EmptyFile(rows) ==
    [catalog |-> rows,
     backing |-> {DataTable[n] : n \in {m \in DOMAIN rows : rows[m] # NoRow}},
     data    |-> [t \in SqlNames |-> [k \in Keys |-> NoItem]],
     tokens  |-> [k \in Tokens |-> NoStamp]]

-----------------------------------------------------------------------------
(* Run items: every item operation on two keys of one table.               *)
ItemsInit == {EmptyFile([n \in OneName |-> Row("S", FALSE)])}

ItemsInputs ==
    {Single("PutItem", PutOf("orders", "a", "v1", "absent")),
     Single("UpdateItem", UpdateOf("orders", "a", "grow", "always")),
     Single("DeleteItem", DeleteOf("orders", "a", "typed")),
     Single("GetItem", GetOf("orders", "a")),
     Tx(<<UpdateOf("orders", "a", "grow", "always"),
          UpdateOf("orders", "b", "grow", "always")>>, "no token"),
     Tx(<<DeleteOf("orders", "a", "exists"),
          UpdateOf("orders", "b", "strict", "always")>>, "no token"),
     Tx(<<PutOf("orders", "b", "v2", "always"),
          CheckOf("orders", "a", "typed")>>, "no token"),
     Tx(<<UpdateOf("orders", "a", "grow", "always"),
          UpdateOf("orders", "a", "grow", "always")>>, "no token")}

-----------------------------------------------------------------------------
(* Run tables: tables come and go under item requests; two names differ    *)
(* only in case, and a third table is protected.                           *)
TablesInit ==
    {EmptyFile([n \in Names |-> IF n = "users" THEN Row("S", TRUE) ELSE NoRow])}

ThreeNames == {"orders", "Orders", "users"}
CaseFolded == [n \in Names |-> IF n = "Orders" THEN "orders" ELSE n]

TablesItems ==
    {Single("PutItem", PutOf("orders", "a", "v1", "always")),
     Single("PutItem", PutOf("orders", "7", "v1", "always")),
     Single("PutItem", PutOf("users", "a", "big", "always")),
     Tx(<<PutOf("users", "a", "v1", "always"),
          DeleteOf("orders", "a", "always")>>, "no token")}

TablesOps ==
    {TableInput("CreateTable", "orders", Row("S", FALSE), {}),
     TableInput("CreateTable", "Orders", Row("N", FALSE), {}),
     TableInput("DeleteTable", "orders", Row("S", FALSE), {}),
     TableInput("DeleteTable", "Orders", Row("S", FALSE), {}),
     TableInput("DeleteTable", "users", Row("S", FALSE), {}),
     TableInput("DescribeTable", "orders", Row("S", FALSE), {}),
     TableInput("ListTables", "orders", Row("S", FALSE), {}),
     TableInput("TagResource", "orders", Row("S", FALSE), {"t1"}),
     TableInput("UntagResource", "orders", Row("S", FALSE), {"t1"}),
     TableInput("ListTagsOfResource", "orders", Row("S", FALSE), {})}

-----------------------------------------------------------------------------
(* Runs tags, panic and schema: the interleavings that the documents rule  *)
(* out.                                                                    *)
TagsOps ==
    {TableInput("TagResource", "orders", Row("S", FALSE), {"t1"}),
     TableInput("TagResource", "orders", Row("S", FALSE), {"t2"})}

PanicOps ==
    {TableInput("ListTagsOfResource", "orders", Row("S", FALSE), {}),
     TableInput("DeleteTable", "orders", Row("S", FALSE), {})}

SchemaItems == {Single("PutItem", PutOf("orders", "a", "v1", "always"))}

SchemaOps ==
    {TableInput("CreateTable", "orders", Row("N", FALSE), {}),
     TableInput("DeleteTable", "orders", Row("S", FALSE), {})}

NoItems == {}

-----------------------------------------------------------------------------
(* Run lifecycle: table, item and transaction requests, two of them with   *)
(* one client token, while the clock ends the token's window and the       *)
(* handle is closed, dies and is opened again.                             *)
LifecycleItems ==
    {Single("DeleteItem", DeleteOf("orders", "a", "exists")),
     Tx(<<UpdateOf("orders", "a", "grow", "always")>>, "x"),
     Tx(<<CheckOf("orders", "a", "absent")>>, "x")}

LifecycleOps ==
    {TableInput("CreateTable", "orders", Row("S", FALSE), {}),
     TableInput("DeleteTable", "orders", Row("S", FALSE), {})}

=============================================================================
