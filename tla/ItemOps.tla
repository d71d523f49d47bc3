------------------------------ MODULE ItemOps ------------------------------
(***************************************************************************)
(* PutItem, GetItem, UpdateItem and DeleteItem (ops_item.go).  Each loads  *)
(* the table's catalog row outside the transaction and checks the request  *)
(* against it; a write then reads, tests and replaces the item inside one. *)
(***************************************************************************)
EXTENDS Store

SingleWrites == {"PutItem", "UpdateItem", "DeleteItem"}

(* tableKey, itemKey and PutItem's size limit, against a loaded table.     *)
FitsSchema(row, act) == KeyType[act.key] = row.type

Accepts(row, act) ==
    FitsSchema(row, act) /\ (act.kind = "Put" => Storable(act.value))

(* loadTable and the validation that needs no stored item.                 *)
LoadItemTable(r) ==
    /\ pc[r] = "load"
    /\ Op(r) \in SingleWrites \union {"GetItem"}
    /\ Reads(r)
    /\ LET row == disk.catalog[Act(r).table] IN
       \/ row = NoRow /\ Answer(r, "ResourceNotFoundException")
       \/ row # NoRow /\ ~Accepts(row, Act(r)) /\ Answer(r, "ValidationException")
       \/ /\ row # NoRow /\ Accepts(row, Act(r))
          /\ Goto(r, IF Op(r) = "GetItem" THEN "get" ELSE "begin")
    /\ UNCHANGED local

(* GetItem's one SELECT on the data table.                                 *)
GetItem(r) ==
    /\ pc[r] = "get"
    /\ Reads(r)
    /\ IF Exists(disk, Act(r))
       THEN AnswerWith(r, [Reply("ok") EXCEPT !.item = Cell(disk, Act(r))])
       ELSE Answer(r, "InternalServerError")
    /\ UNCHANGED local

(* Inside the transaction, up to the write: getItem, the condition, and    *)
(* UpdateItem's new item.  What the body of the transaction returns if one *)
(* of them refuses.                                                        *)
CheckRefusal(act) ==
    LET old == Cell(work, act) IN
    CASE ~Exists(work, act) -> Reply("InternalServerError")
      [] Exists(work, act) /\ Holds[act.cond][old] = "error" ->
            Reply("ValidationException")
      [] Exists(work, act) /\ Holds[act.cond][old] = "no" ->
            [Reply("ConditionalCheckFailedException") EXCEPT !.item = old]
      [] /\ Exists(work, act) /\ Holds[act.cond][old] = "yes"
         /\ act.kind = "Update" /\ ~Storable(NewItem(act, old)) ->
            Reply("ValidationException")
      [] OTHER -> NoReply

CheckItem(r) ==
    /\ pc[r] = "check"
    /\ TxReads(r)
    /\ CheckRefusal(Act(r)) = NoReply
    /\ local' = [local EXCEPT ![r].olds = <<Cell(work, Act(r))>>]
    /\ Goto(r, "write")

CheckFails(r) ==
    /\ pc[r] = "check"
    /\ r \notin cancelled
    /\ CheckRefusal(Act(r)) # NoReply
    /\ Rollback(r)
    /\ AnswerWith(r, CheckRefusal(Act(r)))

(* INSERT OR REPLACE, or DELETE.                                           *)
WriteItem(r) ==
    /\ pc[r] = "write"
    /\ InTx(r)
    /\ work' = SetCell(work, Act(r), NewItem(Act(r), local[r].olds[1]))
    /\ Goto(r, "commit")
    /\ UNCHANGED local

ItemStep(r) ==
    \/ LoadItemTable(r)
    \/ GetItem(r)
    \/ CheckItem(r)
    \/ CheckFails(r)
    \/ WriteItem(r)

=============================================================================
