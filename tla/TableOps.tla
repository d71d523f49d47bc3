------------------------------ MODULE TableOps ------------------------------
(***************************************************************************)
(* The table and tag operations (ops_table.go).  CreateTable and           *)
(* DeleteTable change the catalog and the data tables in one transaction;  *)
(* DescribeTable, CreateTable's reply and the tag operations are sequences *)
(* of single statements with no transaction around them.                   *)
(***************************************************************************)
EXTENDS Store

Table(r) == input[r].table

SetRow(database, name, row) == [database EXCEPT !.catalog[name] = row]

-----------------------------------------------------------------------------
(* CreateTable                                                             *)

InsertRow(r) ==
    /\ pc[r] = "insertRow"
    /\ r \notin cancelled
    /\ \/ /\ work.catalog[Table(r)] # NoRow
          /\ Rollback(r)
          /\ Answer(r, "ResourceInUseException")
       \/ /\ work.catalog[Table(r)] = NoRow
          /\ InTx(r)
          /\ work' = SetRow(work, Table(r), input[r].row)
          /\ Goto(r, "createData")
          /\ UNCHANGED local

(* CREATE TABLE, which SQLite refuses for a name it has in another case.   *)
CreateData(r) ==
    /\ pc[r] = "createData"
    /\ r \notin cancelled
    /\ \/ /\ DataTable[Table(r)] \in work.backing
          /\ Rollback(r)
          /\ Answer(r, "InternalServerError")
       \/ /\ DataTable[Table(r)] \notin work.backing
          /\ InTx(r)
          /\ work' = [work EXCEPT !.backing = @ \union {DataTable[Table(r)]}]
          /\ Goto(r, "commit")
          /\ UNCHANGED local

(* Mutant of LoadCreated: the reply is made from the request.              *)
DescribeRequest(r) ==
    /\ pc[r] = "created"
    /\ Reads(r)
    /\ Answer(r, "ok")
    /\ UNCHANGED local

(* loadTable after the commit, for the reply.                              *)
LoadCreated(r) ==
    /\ pc[r] = "created"
    /\ Reads(r)
    /\ Answer(r, IF disk.catalog[Table(r)] = NoRow
                 THEN "ResourceNotFoundException" ELSE "ok")
    /\ UNCHANGED local

-----------------------------------------------------------------------------
(* DeleteTable                                                             *)

(* Mutant of Deletable: the protection of a table is not looked at.        *)
DeletableAlways(row) == TRUE

Deletable(row) == ~row.protected

DeleteRow(r) ==
    /\ pc[r] = "deleteRow"
    /\ r \notin cancelled
    /\ LET row == work.catalog[Table(r)] IN
       \/ row = NoRow /\ Rollback(r) /\ Answer(r, "ResourceNotFoundException")
       \/ row # NoRow /\ ~Deletable(row) /\ Rollback(r) /\ Answer(r, "ValidationException")
       \/ /\ row # NoRow /\ Deletable(row)
          /\ InTx(r)
          /\ work' = SetRow(work, Table(r), NoRow)
          /\ Goto(r, "dropData")
          /\ UNCHANGED local

DropData(r) ==
    /\ pc[r] = "dropData"
    /\ r \notin cancelled
    /\ LET table == DataTable[Table(r)] IN
       \/ table \notin work.backing /\ Rollback(r) /\ Answer(r, "InternalServerError")
       \/ /\ table \in work.backing
          /\ InTx(r)
          /\ work' = [work EXCEPT !.backing = @ \ {table},
                                  !.data[table] = [k \in Keys |-> NoItem]]
          /\ Goto(r, "commit")
          /\ UNCHANGED local

-----------------------------------------------------------------------------
(* DescribeTable loads the row, then counts the items of the data table.   *)

LoadDescribed(r) ==
    /\ pc[r] = "describe"
    /\ Reads(r)
    /\ IF disk.catalog[Table(r)] = NoRow
       THEN Answer(r, "ResourceNotFoundException")
       ELSE Goto(r, "count")
    /\ UNCHANGED local

CountItems(r) ==
    /\ pc[r] = "count"
    /\ Reads(r)
    /\ Answer(r, IF DataTable[Table(r)] \in disk.backing THEN "ok"
                                                         ELSE "InternalServerError")
    /\ UNCHANGED local

ListTables(r) ==
    /\ pc[r] = "list"
    /\ Reads(r)
    /\ Answer(r, "ok")
    /\ UNCHANGED local

-----------------------------------------------------------------------------
(* The tag operations resolve the ARN (one load), load the table again     *)
(* without looking at the error, and write all tags back.                  *)

ResolveARN(r) ==
    /\ pc[r] = "resolve"
    /\ Reads(r)
    /\ IF disk.catalog[Table(r)] = NoRow
       THEN Answer(r, "ResourceNotFoundException")
       ELSE Goto(r, "reload")
    /\ UNCHANGED local

(* A table that is gone by now is a nil tableMeta, which the handler uses. *)
Reload(r) ==
    /\ pc[r] = "reload"
    /\ Reads(r)
    /\ LET row == disk.catalog[Table(r)] IN
       \/ row = NoRow /\ Answer(r, "panic") /\ UNCHANGED local
       \/ /\ row # NoRow /\ Op(r) = "ListTagsOfResource"
          /\ Answer(r, "ok") /\ UNCHANGED local
       \/ /\ row # NoRow /\ Op(r) # "ListTagsOfResource"
          /\ local' = [local EXCEPT ![r].row = row]
          /\ Goto(r, "retag")

(* UPDATE dynar_tables SET tags: no row to update is no error.             *)
NewTags(r) ==
    IF Op(r) = "TagResource" THEN local[r].row.tags \union input[r].tags
                             ELSE local[r].row.tags \ input[r].tags

UpdateTags(r) ==
    /\ pc[r] = "retag"
    /\ Granted(r)
    /\ disk' = IF disk.catalog[Table(r)] = NoRow THEN disk
               ELSE [disk EXCEPT !.catalog[Table(r)].tags = NewTags(r)]
    /\ work' = disk'
    /\ Answer(r, "ok")
    /\ UNCHANGED <<conn, handle, clock, local, cancelled>>

TableStep(r) ==
    \/ InsertRow(r)
    \/ CreateData(r)
    \/ LoadCreated(r)
    \/ DeleteRow(r)
    \/ DropData(r)
    \/ LoadDescribed(r)
    \/ CountItems(r)
    \/ ListTables(r)
    \/ ResolveARN(r)
    \/ Reload(r)
    \/ UpdateTags(r)

=============================================================================
