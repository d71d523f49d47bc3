------------------------------- MODULE Store -------------------------------
(***************************************************************************)
(* The database handle: one SQLite connection that all requests share      *)
(* (store.go), the entry and the exit of a request (dynar.go), and what    *)
(* happens to both from outside: a cancelled context, a Close, the death   *)
(* of the process, the clock.                                              *)
(*                                                                         *)
(* A request is a goroutine in httpClient.Do.  A statement outside a       *)
(* transaction takes the connection and gives it back in one step.  A      *)
(* transaction keeps it from BEGIN to COMMIT or ROLLBACK: work is the      *)
(* database as the holder sees it, disk what is committed.                 *)
(***************************************************************************)
EXTENDS DynarData

CONSTANTS
    Requests,   \* goroutines that call the handle
    NoReq,      \* nobody
    NoInput,    \* no request
    InitDbs,    \* databases the handle may be opened on
    Faults,     \* which of "cancel", "io", "close", "crash" happen
    MaxClock    \* bound: the last second of the clock

ASSUME RequestsAssumption == NoReq \notin Requests

ASSUME StoreAssumption ==
    /\ NoInput \notin Inputs
    /\ InitDbs \subseteq Databases
    /\ MaxClock \in Nat

(* A handle is opened on a file that dynar itself has written, or made.    *)
ASSUME FilesAssumption == \A file \in InitDbs : Backed(file) /\ Bounded(file)

VARIABLES
    disk,       \* the committed database
    work,       \* what the connection sees: disk, or an open transaction
    conn,       \* the request whose transaction holds the connection
    handle,     \* "open", "closing" (the flag is set), "closed"
    clock,      \* time.Now().Unix()
    pc,         \* the next step of each request
    input,      \* what each request asks
    local,      \* the variables of each request's handler
    reply,      \* what the handler has decided to return
    cancelled   \* requests whose context is done

db == <<disk, work, conn>>
task == <<pc, input, local, reply>>
vars == <<disk, work, conn, handle, clock, pc, input, local, reply, cancelled>>

(* Steps that run one statement on the connection, outside a transaction.  *)
StatementSteps == {"load", "get", "describe", "count", "list",
                   "resolve", "reload", "retag", "created"}

(* Steps of an open transaction.                                           *)
TxSteps == {"check", "write", "token", "checkAll", "apply", "stamp",
            "insertRow", "createData", "deleteRow", "dropData", "commit"}

Steps == StatementSteps \union TxSteps \union {"idle", "begin", "answered", "done"}

Codes == {"none", "ok", "RequestCanceled", "DatabaseClosedError",
          "ValidationException", "ResourceNotFoundException",
          "ResourceInUseException", "ConditionalCheckFailedException",
          "TransactionCanceledException", "IdempotentParameterMismatchException",
          "InternalServerError", "panic"}

(* One entry of CancellationReasons.                                       *)
Reasons == {"None", "ConditionalCheckFailed", "ValidationError"}

Reply(code) == [code |-> code, item |-> NoItem, reasons |-> <<>>]
NoReply == Reply("none")

Replies == [code : Codes, item : Stored, reasons : Seq(Reasons)]

Locals == [idx : Nat, olds : Seq(Stored), reasons : Seq(Reasons),
           total : Nat, now : Nat, row : Rows \union {NoRow}]

EmptyLocal ==
    [idx     |-> 1,       \* the act a loop is at
     olds    |-> <<>>,    \* items read by the acts so far
     reasons |-> <<>>,    \* outcome of each condition so far
     total   |-> 0,       \* bytes counted so far
     now     |-> 0,       \* the time captured before the transaction
     row     |-> NoRow]   \* the catalog row loaded last

TypeOK ==
    /\ disk \in Databases
    /\ work \in Databases
    /\ conn \in Requests \union {NoReq}
    /\ handle \in {"open", "closing", "closed"}
    /\ clock \in 0..MaxClock
    /\ pc \in [Requests -> Steps]
    /\ input \in [Requests -> Inputs \union {NoInput}]
    /\ local \in [Requests -> Locals]
    /\ reply \in [Requests -> Replies]
    /\ cancelled \subseteq Requests

Init ==
    /\ disk \in InitDbs
    /\ work = disk
    /\ conn = NoReq
    /\ handle = "open"
    /\ clock = 0
    /\ pc = [r \in Requests |-> "idle"]
    /\ input = [r \in Requests |-> NoInput]
    /\ local = [r \in Requests |-> EmptyLocal]
    /\ reply = [r \in Requests |-> NoReply]
    /\ cancelled = {}

-----------------------------------------------------------------------------
(* Control of one request.                                                 *)

Op(r) == input[r].op
Act(r) == input[r].acts[local[r].idx]
ActCount(r) == Len(input[r].acts)

Goto(r, step) == pc' = [pc EXCEPT ![r] = step] /\ UNCHANGED <<input, reply>>

AnswerWith(r, answer) ==
    /\ pc' = [pc EXCEPT ![r] = "answered"]
    /\ reply' = [reply EXCEPT ![r] = answer]
    /\ UNCHANGED input

Answer(r, code) == AnswerWith(r, Reply(code))

(* Mutant of Granted: a pool that outlives Close.                          *)
GrantedAfterClose(r) == conn = NoReq /\ r \notin cancelled

(* The connection is free and database/sql grants it: the pool refuses a   *)
(* closed handle and a done context.                                       *)
Granted(r) == conn = NoReq /\ handle # "closed" /\ r \notin cancelled

(* A statement outside a transaction that only reads.                      *)
Reads(r) == Granted(r) /\ UNCHANGED <<db, handle, clock, cancelled>>

(* A statement of r's transaction; one that changes nothing it sees.       *)
InTx(r) == conn = r /\ r \notin cancelled /\ UNCHANGED <<disk, conn, handle, clock, cancelled>>
TxReads(r) == InTx(r) /\ UNCHANGED work

(* Mutants of Rollback: an error that still commits what was done so far,  *)
(* and a body that leaves withTx without ending its transaction.           *)
RollbackCommits(r) ==
    /\ conn = r
    /\ disk' = work
    /\ conn' = NoReq
    /\ UNCHANGED <<work, handle, clock, local, cancelled>>

RollbackForgotten(r) == conn = r /\ UNCHANGED <<db, handle, clock, local, cancelled>>

(* withTx, when its body returns an error: undo everything and give the    *)
(* connection back.                                                        *)
Rollback(r) ==
    /\ conn = r
    /\ work' = disk
    /\ conn' = NoReq
    /\ UNCHANGED <<disk, handle, clock, local, cancelled>>

-----------------------------------------------------------------------------
(* httpClient.Do up to dispatch, with the first step of the handler.       *)
FirstStep(in) ==
    CASE in.op \in ItemOpNames -> "load"
      [] in.op \in {"CreateTable", "DeleteTable"} -> "begin"
      [] in.op = "DescribeTable" -> "describe"
      [] in.op = "ListTables" -> "list"
      [] OTHER -> "resolve"

Do(r, in) ==
    /\ pc[r] = "idle"
    /\ input' = [input EXCEPT ![r] = in]
    /\ \/ /\ "cancel" \in Faults      \* the context is done on entry
          /\ pc' = [pc EXCEPT ![r] = "done"]
          /\ reply' = [reply EXCEPT ![r] = Reply("RequestCanceled")]
       \/ /\ handle = "open"
          /\ pc' = [pc EXCEPT ![r] = FirstStep(in)]
          /\ UNCHANGED reply
       \/ /\ handle # "open"
          /\ pc' = [pc EXCEPT ![r] = "done"]
          /\ reply' = [reply EXCEPT ![r] = Reply("DatabaseClosedError")]
    /\ UNCHANGED <<db, handle, clock, local, cancelled>>

FirstTxStep(op) ==
    CASE op = "TransactWriteItems" -> "token"
      [] op = "CreateTable" -> "insertRow"
      [] op = "DeleteTable" -> "deleteRow"
      [] OTHER -> "check"

(* Mutant of Begin: a pool of more than one connection.                    *)
BeginWithoutPool(r) ==
    /\ pc[r] = "begin"
    /\ handle # "closed" /\ r \notin cancelled
    /\ conn' = r
    /\ Goto(r, FirstTxStep(Op(r)))
    /\ UNCHANGED <<disk, work, handle, clock, local, cancelled>>

(* BeginTx, once the pool hands out its one connection.                    *)
Begin(r) ==
    /\ pc[r] = "begin"
    /\ Granted(r)
    /\ conn' = r
    /\ Goto(r, FirstTxStep(Op(r)))
    /\ UNCHANGED <<disk, work, handle, clock, local, cancelled>>

(* COMMIT.  CreateTable reads its row back before it answers; a single-    *)
(* item write may return the item it replaced.                             *)
Commit(r) ==
    /\ pc[r] = "commit"
    /\ conn = r
    /\ r \notin cancelled
    /\ disk' = work
    /\ conn' = NoReq
    /\ \/ /\ Op(r) = "CreateTable"
          /\ Goto(r, "created")
       \/ /\ Op(r) \in {"PutItem", "UpdateItem", "DeleteItem"}
          /\ AnswerWith(r, [Reply("ok") EXCEPT !.item = local[r].olds[1]])
       \/ /\ Op(r) \in {"TransactWriteItems", "DeleteTable"}
          /\ Answer(r, "ok")
    /\ UNCHANGED <<work, handle, clock, local, cancelled>>

(* database/sql refuses a statement, or a BeginTx, whose context is done   *)
(* or whose handle is closed, waiting for the connection or not; SQLite    *)
(* may fail one that runs.  What the client is told depends on who ran it: *)
(* tableFromARN takes every error for a missing table, and the tag         *)
(* handlers use the table that their second, unchecked load did not        *)
(* return.                                                                 *)
FailureCode(step) ==
    CASE step = "resolve" -> "ResourceNotFoundException"
      [] step = "reload"  -> "panic"
      [] OTHER            -> "InternalServerError"

StatementFails(r) ==
    /\ pc[r] \in StatementSteps \union {"begin"}
    /\ \/ r \in cancelled \/ handle = "closed"
       \/ "io" \in Faults /\ conn = NoReq
    /\ Answer(r, FailureCode(pc[r]))
    /\ UNCHANGED <<db, handle, clock, local, cancelled>>

(* The same inside a transaction: database/sql or withTx rolls it back.    *)
(* Bound: a COMMIT fails only for a done context, which it checks first.   *)
TxFails(r) ==
    /\ pc[r] \in TxSteps
    /\ pc[r] = "apply" => Writes(Act(r))      \* a ConditionCheck runs no statement
    /\ r \in cancelled \/ ("io" \in Faults /\ pc[r] # "commit")
    /\ Rollback(r)
    /\ Answer(r, "InternalServerError")

(* httpClient.Do after dispatch: an error goes to the client as it is, a   *)
(* success is reported only if the context is still alive.                 *)
Finish(r) ==
    /\ pc[r] = "answered"
    /\ pc' = [pc EXCEPT ![r] = "done"]
    /\ reply' = IF reply[r].code = "ok" /\ r \in cancelled
                THEN [reply EXCEPT ![r] = Reply("RequestCanceled")]
                ELSE reply
    /\ UNCHANGED <<db, handle, clock, input, local, cancelled>>

(* The client takes the reply; the goroutine may serve another request.    *)
Return(r) ==
    /\ pc[r] = "done"
    /\ pc' = [pc EXCEPT ![r] = "idle"]
    /\ input' = [input EXCEPT ![r] = NoInput]
    /\ local' = [local EXCEPT ![r] = EmptyLocal]
    /\ reply' = [reply EXCEPT ![r] = NoReply]
    /\ cancelled' = cancelled \ {r}
    /\ UNCHANGED <<db, handle, clock>>

-----------------------------------------------------------------------------
(* What happens to the handle.                                             *)

Cancel(r) ==
    /\ "cancel" \in Faults
    /\ pc[r] \notin {"idle", "done"}
    /\ cancelled' = cancelled \union {r}
    /\ UNCHANGED <<db, handle, clock, task>>

Tick ==
    /\ clock < MaxClock
    /\ clock' = clock + 1
    /\ UNCHANGED <<db, handle, task, cancelled>>

(* DB.Close sets the flag, then closes the pool.  A transaction that holds *)
(* the connection keeps it until it ends.                                  *)
CloseFlag ==
    /\ "close" \in Faults
    /\ handle = "open"
    /\ handle' = "closing"
    /\ UNCHANGED <<db, clock, task, cancelled>>

CloseSql ==
    /\ handle = "closing"
    /\ handle' = "closed"
    /\ UNCHANGED <<db, clock, task, cancelled>>

(* The process dies: SQLite finds the committed database again.            *)
Crash ==
    /\ "crash" \in Faults
    /\ handle # "closed" \/ conn # NoReq
    /\ work' = disk
    /\ conn' = NoReq
    /\ handle' = "closed"
    /\ pc' = [r \in Requests |-> "idle"]
    /\ input' = [r \in Requests |-> NoInput]
    /\ local' = [r \in Requests |-> EmptyLocal]
    /\ reply' = [r \in Requests |-> NoReply]
    /\ cancelled' = {}
    /\ UNCHANGED <<disk, clock>>

(* Open on the file of a closed handle.  Bound: after every request of the *)
(* old handle has returned.                                                *)
Reopen ==
    /\ handle = "closed"
    /\ \A r \in Requests : pc[r] = "idle"
    /\ handle' = "open"
    /\ UNCHANGED <<db, clock, task, cancelled>>

=============================================================================
