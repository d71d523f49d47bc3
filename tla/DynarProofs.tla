---------------------------- MODULE DynarProofs ----------------------------
(***************************************************************************)
(* Theorems about the handle, for any requests, tables, keys, items,       *)
(* conditions, updates and tokens: the types of its state, one transaction *)
(* at a time, a closed handle, and a client token that stays with its      *)
(* request until its window is over.                                       *)
(***************************************************************************)
EXTENDS Dynar, SequenceTheorems, TLAPS

-----------------------------------------------------------------------------
(* Type correctness: a handler's variables have their types because of     *)
(* where the handler is.  The invariant adds to TypeOK what each step may  *)
(* rely on.                                                                *)

ItemSteps == {"load", "get", "check", "write", "token", "checkAll", "apply", "stamp"}

TableSteps == {"created", "describe", "count", "list", "resolve", "reload", "retag",
               "insertRow", "createData", "deleteRow", "dropData"}

(* What holds of a request's input and local variables at a step.          *)
Control(step, in, loc) ==
    /\ IF step = "idle" THEN loc = EmptyLocal ELSE in \in Inputs
    /\ step \in ItemSteps => in \in ItemInputs /\ loc.idx \in 1..Len(in.acts)
    /\ step \in TableSteps => in \in TableInputs
    /\ step \in {"load", "begin", "token"} => loc.olds = <<>>
    /\ step \in {"begin", "token"} => loc.idx = 1
    /\ step = "begin" => in.op \notin {"GetItem", "DescribeTable", "ListTables",
                            "ListTagsOfResource", "TagResource", "UntagResource"}
    /\ step \in {"check", "write"} => in.op \in SingleWrites
    /\ step \in {"token", "checkAll", "apply", "stamp"} => in.op = "TransactWriteItems"
    /\ step = "checkAll" => Len(loc.olds) = loc.idx - 1
    /\ step = "apply" => Len(loc.olds) = Len(in.acts)
    /\ step = "stamp" => in.token \in Tokens
    /\ step = "write" =>
          /\ Len(loc.olds) = 1
          /\ in.acts[1].kind = "Update" => NewItem(in.acts[1], loc.olds[1]) \in Items
    /\ step = "commit" /\ in.op \in SingleWrites => Len(loc.olds) = 1
    /\ step = "retag" => loc.row \in Rows

ControlOK == \A r \in Requests : Control(pc[r], input[r], local[r])

TypeInv == TypeOK /\ ControlOK
-----------------------------------------------------------------------------
(* The values of requests and of the database                              *)

(* What a request's input looks like: its operation tells which kind.      *)
LEMMA InputTyped ==
    ASSUME NEW in \in Inputs
    PROVE  /\ in.op \in ItemOpNames => in \in ItemInputs
           /\ in.op \notin ItemOpNames => in \in TableInputs
           /\ in \in ItemInputs => in.op \in ItemOpNames
           /\ in \in TableInputs => /\ in.op \in TableOpNames
                                    /\ in.table \in Names
                                    /\ in.row \in Rows
                                    /\ in.tags \in SUBSET TagKeys
BY InputsAssumption DEF Inputs, ItemOpNames, TableOpNames

(* The act a request is at.                                                *)
LEMMA ActTyped ==
    ASSUME NEW in \in ItemInputs, NEW i \in 1..Len(in.acts)
    PROVE  /\ in.acts \in Seq(Acts)
           /\ in.acts[i] \in Acts
           /\ in.acts[i].table \in Names
           /\ in.acts[i].key \in Keys
           /\ in.acts[i].cond \in Conds
           /\ in.acts[i].kind \in Kinds
           /\ in.acts[i].kind = "Put" => in.acts[i].value \in Items
           /\ in.acts[i].kind = "Update" => in.acts[i].value \in Updates
<1>1. /\ in.acts \in Seq(Acts)
      /\ \A j \in DOMAIN in.acts :
            /\ in.acts[j].kind = "Put" => in.acts[j].value \in Items
            /\ in.acts[j].kind = "Update" => in.acts[j].value \in Updates
  BY InputsAssumption
<1>2. in.acts[i] \in Acts /\ i \in DOMAIN in.acts
  BY <1>1
<1>3. QED
  BY <1>1, <1>2 DEF Acts

(* A new item is one that can be stored, unless its update fails.          *)
LEMMA NewItemTyped ==
    ASSUME NEW in \in ItemInputs, NEW i \in 1..Len(in.acts), NEW old \in Stored
    PROVE  /\ NewItem(in.acts[i], old) \in Stored \union {BadItem}
           /\ in.acts[i].kind # "Update" => NewItem(in.acts[i], old) \in Stored
           /\ CountedSize(in.acts[i], old) \in Nat
<1>1. /\ NewItem(in.acts[i], old) \in Stored \union {BadItem}
      /\ in.acts[i].kind # "Update" => NewItem(in.acts[i], old) \in Stored
  BY ActTyped, ItemsAssumption DEF NewItem, Stored
<1>2. CountedSize(in.acts[i], old) \in Nat
  BY ItemsAssumption DEF CountedSize
<1>3. QED
  BY <1>1, <1>2

LEMMA CellTyped ==
    ASSUME NEW database \in Databases, NEW act \in Acts
    PROVE  Cell(database, act) \in Stored
<1>1. DataTable[act.table] \in SqlNames
  BY NamesAssumption DEF Acts
<1>2. database.data \in [SqlNames -> [Keys -> Stored]] /\ act.key \in Keys
  BY DEF Databases, Acts
<1>3. QED
  BY <1>1, <1>2 DEF Cell

LEMMA SetCellTyped ==
    ASSUME NEW database \in Databases, NEW act \in Acts, NEW item \in Stored
    PROVE  SetCell(database, act, item) \in Databases
<1>1. database.data \in [SqlNames -> [Keys -> Stored]]
  BY DEF Databases
<1>2. [database.data EXCEPT ![DataTable[act.table]][act.key] = item]
        \in [SqlNames -> [Keys -> Stored]]
  BY <1>1
<1>3. QED
  BY <1>2 DEF SetCell, Databases

LEMMA SetTokensTyped ==
    ASSUME NEW database \in Databases,
           NEW tokens \in [Tokens -> Stamps \union {NoStamp}]
    PROVE  [database EXCEPT !.tokens = tokens] \in Databases
BY DEF Databases

LEMMA PurgeTyped ==
    ASSUME NEW database \in Databases, NEW now \in Nat
    PROVE  Purge(database.tokens, now) \in [Tokens -> Stamps \union {NoStamp}]
BY DEF Databases, Purge

LEMMA SetRowTyped ==
    ASSUME NEW database \in Databases, NEW name \in Names,
           NEW row \in Rows \union {NoRow}
    PROVE  SetRow(database, name, row) \in Databases
<1>1. [database.catalog EXCEPT ![name] = row] \in [Names -> Rows \union {NoRow}]
  BY DEF Databases
<1>2. QED
  BY <1>1 DEF Databases, SetRow

LEMMA ReplyTyped ==
    ASSUME NEW code \in Codes
    PROVE  /\ Reply(code) \in Replies
           /\ \A item \in Stored : [Reply(code) EXCEPT !.item = item] \in Replies
           /\ \A reasons \in Seq(Reasons) :
                 [Reply(code) EXCEPT !.reasons = reasons] \in Replies
<1>1. <<>> \in Seq(Reasons) /\ NoItem \in Stored
  BY DEF Stored
<1>2. Reply(code) \in Replies
  BY <1>1 DEF Reply, Replies
<1>3. ASSUME NEW item \in Stored
      PROVE  [Reply(code) EXCEPT !.item = item] \in Replies
  BY <1>2 DEF Replies
<1>4. ASSUME NEW reasons \in Seq(Reasons)
      PROVE  [Reply(code) EXCEPT !.reasons = reasons] \in Replies
  BY <1>2 DEF Replies
<1>5. QED
  BY <1>2, <1>3, <1>4

-----------------------------------------------------------------------------
(* How the invariant moves with a request                                  *)

(* A step that takes request r to a step of its handler whose demands the  *)
(* request's input and new local variables meet.                           *)
LEMMA MoveTyped ==
    ASSUME TypeInv, NEW r \in Requests, NEW step \in Steps,
           NEW loc \in Locals, NEW answer \in Replies,
           Control(step, input[r], loc),
           pc' = [pc EXCEPT ![r] = step],
           local' = [local EXCEPT ![r] = loc],
           reply' = [reply EXCEPT ![r] = answer],
           disk' \in Databases, work' \in Databases,
           conn' \in Requests \union {NoReq},
           UNCHANGED <<handle, clock, input, cancelled>>
    PROVE  TypeInv'
<1>1. TypeOK'
  BY DEF TypeInv, TypeOK
<1>2. ASSUME NEW q \in Requests PROVE Control(pc'[q], input'[q], local'[q])
  <2>1. CASE q = r
    BY <2>1 DEF TypeInv, TypeOK
  <2>2. CASE q # r
    BY <2>2 DEF TypeInv, TypeOK, ControlOK
  <2>3. QED
    BY <2>1, <2>2
<1>3. ControlOK'
  BY <1>2 DEF ControlOK
<1>4. QED
  BY <1>1, <1>3 DEF TypeInv

(* An answer asks nothing of the local variables.                          *)
LEMMA AnswerTyped ==
    ASSUME TypeInv, NEW r \in Requests, NEW answer \in Replies,
           pc[r] # "idle", AnswerWith(r, answer),
           disk' \in Databases, work' \in Databases,
           conn' \in Requests \union {NoReq},
           UNCHANGED <<handle, clock, local, cancelled>>
    PROVE  TypeInv'
<1>1. "answered" \in Steps
  BY DEF Steps
<1>2. Control("answered", input[r], local[r])
  BY DEF TypeInv, ControlOK, Control, ItemSteps, TableSteps
<1>3. local[r] \in Locals /\ local' = [local EXCEPT ![r] = local[r]]
  BY DEF TypeInv, TypeOK
<1>4. QED
  BY <1>1, <1>2, <1>3, MoveTyped DEF AnswerWith

LEMMA GotoTyped ==
    ASSUME TypeInv, NEW r \in Requests, NEW step \in Steps, NEW loc \in Locals,
           Control(step, input[r], loc), Goto(r, step),
           local' = [local EXCEPT ![r] = loc],
           disk' \in Databases, work' \in Databases,
           conn' \in Requests \union {NoReq},
           UNCHANGED <<handle, clock, cancelled>>
    PROVE  TypeInv'
<1>1. reply[r] \in Replies /\ reply' = [reply EXCEPT ![r] = reply[r]]
  BY DEF TypeInv, TypeOK, Goto
<1>2. QED
  BY <1>1, MoveTyped DEF Goto

(* ... when the local variables stay.                                      *)
LEMMA KeepTyped ==
    ASSUME TypeInv, NEW r \in Requests, NEW step \in Steps,
           Control(step, input[r], local[r]), Goto(r, step),
           disk' \in Databases, work' \in Databases,
           conn' \in Requests \union {NoReq},
           UNCHANGED <<handle, clock, local, cancelled>>
    PROVE  TypeInv'
<1>1. local[r] \in Locals /\ local' = [local EXCEPT ![r] = local[r]]
  BY DEF TypeInv, TypeOK
<1>2. QED
  BY <1>1, GotoTyped

LEMMA RollbackTyped ==
    ASSUME TypeInv, NEW r \in Requests, NEW answer \in Replies,
           pc[r] # "idle", Rollback(r), AnswerWith(r, answer)
    PROVE  TypeInv'
BY AnswerTyped DEF Rollback, TypeInv, TypeOK

LEMMA RollbackCodeTyped ==
    ASSUME TypeInv, NEW r \in Requests, NEW code \in Codes,
           pc[r] # "idle", Rollback(r), Answer(r, code)
    PROVE  TypeInv'
BY RollbackTyped, ReplyTyped DEF Answer

(* A single statement that only reads, and after which r answers or goes   *)
(* on.                                                                     *)
LEMMA ReadAnswerTyped ==
    ASSUME TypeInv, NEW r \in Requests, NEW code \in Codes,
           pc[r] # "idle", Reads(r), Answer(r, code), UNCHANGED local
    PROVE  TypeInv'
<1>1. Reply(code) \in Replies
  BY ReplyTyped
<1>2. QED
  BY <1>1, AnswerTyped DEF Reads, Answer, db, TypeInv, TypeOK

LEMMA ReadGotoTyped ==
    ASSUME TypeInv, NEW r \in Requests, NEW step \in Steps,
           Reads(r), Goto(r, step), UNCHANGED local,
           Control(step, input[r], local[r])
    PROVE  TypeInv'
BY KeepTyped DEF Reads, db, TypeInv, TypeOK

(* A statement of r's transaction that leaves its local variables.         *)
LEMMA TxGotoTyped ==
    ASSUME TypeInv, NEW r \in Requests, NEW step \in Steps,
           InTx(r), work' \in Databases, Goto(r, step), UNCHANGED local,
           Control(step, input[r], local[r])
    PROVE  TypeInv'
BY KeepTyped DEF InTx, TypeInv, TypeOK

-----------------------------------------------------------------------------
(* The entry and the exit of a request                                     *)

LEMMA DoTyped ==
    ASSUME TypeInv, NEW r \in Requests, NEW in \in Inputs, Do(r, in)
    PROVE  TypeInv'
<1>1. PICK step \in {FirstStep(in), "done"} : pc' = [pc EXCEPT ![r] = step]
  BY DEF Do
<1>2. step \in Steps
  BY <1>1 DEF FirstStep, Steps, StatementSteps
<1>3. /\ input' = [input EXCEPT ![r] = in]
      /\ UNCHANGED <<disk, work, conn, handle, clock, local, cancelled>>
      /\ pc[r] = "idle"
  BY DEF Do, db
<1>4. reply' \in [Requests -> Replies]
  <2>1. /\ Reply("RequestCanceled") \in Replies
        /\ Reply("DatabaseClosedError") \in Replies
    BY ReplyTyped DEF Codes
  <2>2. QED
    BY <2>1 DEF Do, TypeInv, TypeOK
<1>5. TypeOK'
  BY <1>1, <1>2, <1>3, <1>4 DEF TypeInv, TypeOK
<1>6. Control(step, in, EmptyLocal)
  <2>1. in.op \in ItemOpNames \union TableOpNames
    BY InputTyped, InputsAssumption DEF Inputs
  <2>2. in.op \in ItemOpNames => in \in ItemInputs /\ 1 \in 1..Len(in.acts)
    BY InputTyped, InputsAssumption
  <2>3. in.op \notin ItemOpNames => in \in TableInputs
    BY InputTyped
  <2>4. CASE step = "done"
    BY <2>4 DEF Control, ItemSteps, TableSteps
  <2>5. CASE step = FirstStep(in)
    <3>1. CASE in.op \in ItemOpNames
      <4>1. step = "load" /\ EmptyLocal.idx = 1 /\ EmptyLocal.olds = <<>>
        BY <2>5, <3>1 DEF FirstStep, EmptyLocal, ItemOpNames
      <4>2. QED
        BY <2>2, <3>1, <4>1 DEF Control, ItemSteps, TableSteps
    <3>2. CASE in.op \notin ItemOpNames
      BY <2>1, <2>3, <2>5, <3>2 DEF FirstStep, Control, ItemSteps, TableSteps, EmptyLocal,
                                    ItemOpNames, TableOpNames
    <3>3. QED
      BY <3>1, <3>2
  <2>6. QED
    BY <1>1, <2>4, <2>5
<1>7. local[r] = EmptyLocal
  BY <1>3 DEF TypeInv, ControlOK, Control
<1>8. ControlOK'
  <2> SUFFICES ASSUME NEW q \in Requests PROVE Control(pc'[q], input'[q], local'[q])
    BY DEF ControlOK
  <2>1. CASE q = r
    BY <2>1, <1>1, <1>3, <1>6, <1>7 DEF TypeInv, TypeOK
  <2>2. CASE q # r
    BY <2>2, <1>1, <1>3 DEF TypeInv, TypeOK, ControlOK
  <2>3. QED
    BY <2>1, <2>2
<1>9. QED
  BY <1>5, <1>8 DEF TypeInv

LEMMA EmptyLocalTyped == EmptyLocal \in Locals
<1>1. <<>> \in Seq(Stored) /\ <<>> \in Seq(Reasons)
  OBVIOUS
<1>2. QED
  BY <1>1 DEF EmptyLocal, Locals

LEMMA BeginTyped ==
    ASSUME TypeInv, NEW r \in Requests, Begin(r)
    PROVE  TypeInv'
<1>1. /\ input[r] \in Inputs
      /\ local[r].olds = <<>> /\ local[r].idx = 1
      /\ Op(r) \notin {"GetItem", "DescribeTable", "ListTables",
                       "ListTagsOfResource", "TagResource", "UntagResource"}
  BY DEF Begin, TypeInv, ControlOK, Control, Op
<1>2. Op(r) \in ItemOpNames => input[r] \in ItemInputs /\ Len(input[r].acts) \in Nat
                                /\ Len(input[r].acts) >= 1
  <2> HAVE Op(r) \in ItemOpNames
  <2>1. input[r] \in ItemInputs
    BY <1>1, InputTyped DEF Op
  <2>2. input[r].acts \in Seq(Acts) /\ input[r].acts # <<>>
    BY <2>1, InputsAssumption
  <2>3. QED
    BY <2>1, <2>2
<1>3. Op(r) \notin ItemOpNames => input[r] \in TableInputs /\ Op(r) \in TableOpNames
  BY <1>1, InputTyped DEF Op
<1>4. FirstTxStep(Op(r)) \in Steps
  BY DEF FirstTxStep, Steps, TxSteps
<1>5. Control(FirstTxStep(Op(r)), input[r], local[r])
  <2>1. CASE Op(r) \in ItemOpNames
    BY <1>1, <1>2, <2>1 DEF FirstTxStep, Control, ItemSteps, TableSteps, ItemOpNames,
                            SingleWrites, Op
  <2>2. CASE Op(r) \notin ItemOpNames
    BY <1>1, <1>3, <2>2 DEF FirstTxStep, Control, ItemSteps, TableSteps, TableOpNames,
                            ItemOpNames, Op
  <2>3. QED
    BY <2>1, <2>2
<1>6. QED
  BY <1>4, <1>5, KeepTyped DEF Begin, TypeInv, TypeOK

LEMMA CommitTyped ==
    ASSUME TypeInv, NEW r \in Requests, Commit(r)
    PROVE  TypeInv'
<1>1. /\ disk' \in Databases /\ work' \in Databases
      /\ conn' \in Requests \union {NoReq}
      /\ UNCHANGED <<handle, clock, local, cancelled>>
  BY DEF Commit, TypeInv, TypeOK
<1>2. pc[r] # "idle" /\ input[r] \in Inputs /\ "created" \in Steps
  BY DEF Commit, TypeInv, ControlOK, Control, Steps, StatementSteps
<1>3. CASE Op(r) = "CreateTable" /\ Goto(r, "created")
  <2>1. input[r] \in TableInputs
    BY <1>2, <1>3, InputTyped DEF Op, ItemOpNames
  <2>2. Control("created", input[r], local[r])
    BY <1>2, <2>1 DEF Control, ItemSteps, TableSteps
  <2>3. QED
    BY <1>1, <1>2, <1>3, <2>2, KeepTyped
<1>4. CASE /\ Op(r) \in SingleWrites
           /\ AnswerWith(r, [Reply("ok") EXCEPT !.item = local[r].olds[1]])
  <2>1. local[r].olds \in Seq(Stored) /\ Len(local[r].olds) = 1
    <3>1. local[r].olds \in Seq(Stored)
      BY DEF TypeInv, TypeOK, Locals
    <3>2. Control("commit", input[r], local[r])
      BY DEF Commit, TypeInv, ControlOK
    <3>3. QED
      BY <1>4, <3>1, <3>2 DEF Control, Op
  <2>2. [Reply("ok") EXCEPT !.item = local[r].olds[1]] \in Replies
    <3>1. local[r].olds[1] \in Stored /\ "ok" \in Codes
      BY <2>1 DEF Codes
    <3>2. QED
      BY <3>1, ReplyTyped
  <2>3. QED
    BY <1>1, <1>2, <1>4, <2>2, AnswerTyped
<1>5. CASE Answer(r, "ok")
  BY <1>1, <1>2, <1>5, AnswerTyped, ReplyTyped DEF Answer, Codes
<1>6. QED
  BY <1>3, <1>4, <1>5 DEF Commit, SingleWrites

LEMMA FailsTyped ==
    ASSUME TypeInv, NEW r \in Requests, StatementFails(r) \/ TxFails(r)
    PROVE  TypeInv'
<1>1. CASE StatementFails(r)
  <2>1. pc[r] # "idle"
    BY <1>1 DEF StatementFails, StatementSteps
  <2>2. FailureCode(pc[r]) \in Codes
    BY DEF FailureCode, Codes
  <2>3. QED
    BY <1>1, <2>1, <2>2, AnswerTyped, ReplyTyped
       DEF StatementFails, Answer, db, TypeInv, TypeOK
<1>2. CASE TxFails(r)
  <2>1. pc[r] # "idle" /\ "InternalServerError" \in Codes
    BY <1>2 DEF TxFails, TxSteps, Codes
  <2>2. QED
    BY <1>2, <2>1, RollbackCodeTyped DEF TxFails
<1>3. QED
  BY <1>1, <1>2

LEMMA FinishTyped ==
    ASSUME TypeInv, NEW r \in Requests, Finish(r)
    PROVE  TypeInv'
<1>1. /\ "done" \in Steps
      /\ local[r] \in Locals /\ local' = [local EXCEPT ![r] = local[r]]
      /\ reply[r] \in Replies
      /\ UNCHANGED <<handle, clock, input, cancelled>>
      /\ disk' \in Databases /\ work' \in Databases /\ conn' \in Requests \union {NoReq}
  BY DEF Finish, db, Steps, TypeInv, TypeOK
<1>2. Control("done", input[r], local[r])
  BY DEF Finish, TypeInv, ControlOK, Control, ItemSteps, TableSteps
<1>3. PICK answer \in Replies : reply' = [reply EXCEPT ![r] = answer]
  <2>1. Reply("RequestCanceled") \in Replies
    BY ReplyTyped DEF Codes
  <2>2. reply = [reply EXCEPT ![r] = reply[r]]
    BY DEF TypeInv, TypeOK
  <2>3. QED
    BY <1>1, <2>1, <2>2 DEF Finish
<1>4. QED
  BY <1>1, <1>2, <1>3, MoveTyped DEF Finish

LEMMA ReturnTyped ==
    ASSUME TypeInv, NEW r \in Requests, Return(r)
    PROVE  TypeInv'
<1>1. TypeOK'
  BY EmptyLocalTyped, ReplyTyped
     DEF Return, db, TypeInv, TypeOK, Steps, NoReply, Codes
<1>2. Control("idle", NoInput, EmptyLocal)
  BY DEF Control, ItemSteps, TableSteps
<1>3. ASSUME NEW q \in Requests PROVE Control(pc'[q], input'[q], local'[q])
  <2>1. CASE q = r
    BY <2>1, <1>2 DEF Return, TypeInv, TypeOK
  <2>2. CASE q # r
    BY <2>2 DEF Return, TypeInv, TypeOK, ControlOK
  <2>3. QED
    BY <2>1, <2>2
<1>4. QED
  BY <1>1, <1>3 DEF TypeInv, ControlOK

LEMMA HandleTyped ==
    ASSUME TypeInv,
           \/ \E r \in Requests : Cancel(r)
           \/ Tick \/ CloseFlag \/ CloseSql \/ Crash \/ Reopen
    PROVE  TypeInv'
<1>1. CASE Tick
  <2>1. clock' \in 0..MaxClock
    BY <1>1, StoreAssumption DEF Tick, TypeInv, TypeOK
  <2>2. QED
    BY <1>1, <2>1 DEF Tick, db, task, TypeInv, TypeOK, ControlOK
<1>2. CASE CloseFlag \/ CloseSql \/ Reopen \/ \E r \in Requests : Cancel(r)
  BY <1>2 DEF CloseFlag, CloseSql, Reopen, Cancel, db, task, TypeInv, TypeOK, ControlOK
<1>3. CASE Crash
  <2>1. TypeOK'
    BY <1>3, EmptyLocalTyped, ReplyTyped DEF Crash, TypeInv, TypeOK, Steps, NoReply, Codes
  <2>2. Control("idle", NoInput, EmptyLocal)
    BY DEF Control, ItemSteps, TableSteps
  <2>3. QED
    BY <1>3, <2>1, <2>2 DEF Crash, TypeInv, ControlOK
<1>4. QED
  BY <1>1, <1>2, <1>3

-----------------------------------------------------------------------------
(* The item operations                                                     *)

(* What the invariant says of an item request at one of its steps.         *)
LEMMA AtAct ==
    ASSUME TypeInv, NEW r \in Requests, pc[r] \in ItemSteps
    PROVE  /\ pc[r] # "idle"
           /\ input[r] \in ItemInputs
           /\ local[r] \in Locals
           /\ local[r].idx \in 1..ActCount(r)
           /\ ActCount(r) \in Nat
           /\ Act(r) \in Acts
           /\ Cell(work, Act(r)) \in Stored
           /\ Cell(disk, Act(r)) \in Stored
<1>1. /\ pc[r] # "idle" /\ input[r] \in ItemInputs
      /\ local[r].idx \in 1..Len(input[r].acts)
  BY DEF TypeInv, ControlOK, Control, ItemSteps
<1>2. input[r].acts \in Seq(Acts) /\ Act(r) \in Acts
  BY <1>1, ActTyped DEF Act
<1>3. local[r] \in Locals /\ work \in Databases /\ disk \in Databases
  BY DEF TypeInv, TypeOK
<1>4. QED
  BY <1>1, <1>2, <1>3, CellTyped DEF ActCount

LEMMA LoadItemTableTyped ==
    ASSUME TypeInv, NEW r \in Requests, LoadItemTable(r)
    PROVE  TypeInv'
<1>1. pc[r] # "idle" /\ pc[r] \in ItemSteps
  BY DEF LoadItemTable, ItemSteps
<1>2. CASE \E code \in Codes : Answer(r, code)
  BY <1>1, <1>2, ReadAnswerTyped DEF LoadItemTable
<1>3. CASE Goto(r, IF Op(r) = "GetItem" THEN "get" ELSE "begin")
  <2>1. /\ input[r] \in ItemInputs /\ local[r].idx \in 1..Len(input[r].acts)
        /\ local[r].olds = <<>>
    BY DEF LoadItemTable, TypeInv, ControlOK, Control, ItemSteps
  <2>2. local[r].idx = 1
    BY <2>1, InputsAssumption DEF LoadItemTable, Op, SingleWrites
  <2>3. input[r] \in Inputs
    BY <2>1 DEF Inputs
  <2>4. CASE Op(r) = "GetItem"
    <3>1. Control("get", input[r], local[r])
      BY <2>1, <2>3 DEF Control, ItemSteps, TableSteps
    <3>2. QED
      BY <1>3, <2>4, <3>1, ReadGotoTyped DEF LoadItemTable, Steps, StatementSteps
  <2>5. CASE Op(r) # "GetItem"
    <3>1. Control("begin", input[r], local[r])
      BY <2>1, <2>2, <2>3, <2>5 DEF LoadItemTable, SingleWrites, Op, Control,
                                    ItemSteps, TableSteps
    <3>2. QED
      BY <1>3, <2>5, <3>1, ReadGotoTyped DEF LoadItemTable, Steps
  <2>6. QED
    BY <2>4, <2>5
<1>4. QED
  BY <1>2, <1>3 DEF LoadItemTable, Codes

LEMMA GetItemTyped ==
    ASSUME TypeInv, NEW r \in Requests, GetItem(r)
    PROVE  TypeInv'
<1>1. pc[r] \in ItemSteps
  BY DEF GetItem, ItemSteps
<1>2. [Reply("ok") EXCEPT !.item = Cell(disk, Act(r))] \in Replies
  BY <1>1, AtAct, ReplyTyped DEF Codes
<1>3. Reply("InternalServerError") \in Replies
  BY ReplyTyped DEF Codes
<1>4. PICK answer \in Replies : AnswerWith(r, answer)
  BY <1>2, <1>3 DEF GetItem, Answer
<1>5. QED
  BY <1>1, <1>4, AtAct, AnswerTyped DEF GetItem, Reads, db, TypeInv, TypeOK

LEMMA CheckItemTyped ==
    ASSUME TypeInv, NEW r \in Requests, CheckItem(r)
    PROVE  TypeInv'
<1> DEFINE old == Cell(work, Act(r))
           loc == [local[r] EXCEPT !.olds = <<old>>]
<1>1. pc[r] = "check" /\ pc[r] \in ItemSteps
  BY DEF CheckItem, ItemSteps
<1>2. old \in Stored /\ local[r] \in Locals /\ input[r] \in ItemInputs
  BY <1>1, AtAct
<1>3. loc \in Locals /\ loc.olds = <<old>> /\ loc.idx = local[r].idx
  <2>1. <<old>> \in Seq(Stored)
    BY <1>2
  <2>2. QED
    BY <1>2, <2>1 DEF Locals
<1>4. Op(r) \in SingleWrites /\ local[r].idx \in 1..Len(input[r].acts)
  BY <1>1 DEF Op, TypeInv, ControlOK, Control, ItemSteps
<1>5. Len(input[r].acts) = 1 /\ Act(r) = input[r].acts[1]
  BY <1>2, <1>4, InputsAssumption DEF Op, SingleWrites, Act
<1>6. Act(r).kind = "Update" => NewItem(Act(r), old) \in Items
  <2>1. SUFFICES ASSUME Act(r).kind = "Update", ~Storable(NewItem(Act(r), old))
                 PROVE  FALSE
    BY DEF Storable
  <2>2. CheckRefusal(Act(r)) # NoReply
    <3>1. Holds[Act(r).cond][old] \in {"yes", "no", "error"}
      BY <1>1, <1>2, AtAct, ItemsAssumption DEF Acts, Outcomes
    <3>2. QED
      BY <2>1, <3>1 DEF CheckRefusal, Reply, NoReply
  <2>3. QED
    BY <2>2 DEF CheckItem
<1>7. Control("write", input[r], loc)
  BY <1>2, <1>3, <1>4, <1>5, <1>6 DEF Control, ItemSteps, TableSteps, Inputs, Op
<1>8. QED
  BY <1>3, <1>7, GotoTyped DEF CheckItem, TxReads, InTx, Steps, TxSteps, TypeInv, TypeOK

LEMMA CheckFailsTyped ==
    ASSUME TypeInv, NEW r \in Requests, CheckFails(r)
    PROVE  TypeInv'
<1>1. pc[r] \in ItemSteps
  BY DEF CheckFails, ItemSteps
<1>2. CheckRefusal(Act(r)) \in Replies
  <2>1. Cell(work, Act(r)) \in Stored
    BY <1>1, AtAct
  <2>2. {"InternalServerError", "ValidationException",
         "ConditionalCheckFailedException", "none"} \subseteq Codes
    BY DEF Codes
  <2>3. /\ Reply("InternalServerError") \in Replies
        /\ Reply("ValidationException") \in Replies
        /\ [Reply("ConditionalCheckFailedException") EXCEPT !.item = Cell(work, Act(r))]
              \in Replies
        /\ NoReply \in Replies
    BY <2>1, <2>2, ReplyTyped DEF NoReply
  <2>4. QED
    BY <2>3 DEF CheckRefusal
<1>3. QED
  BY <1>1, <1>2, AtAct, RollbackTyped DEF CheckFails

LEMMA WriteItemTyped ==
    ASSUME TypeInv, NEW r \in Requests, WriteItem(r)
    PROVE  TypeInv'
<1> DEFINE old == local[r].olds[1]
<1>1. pc[r] = "write" /\ pc[r] \in ItemSteps
  BY DEF WriteItem, ItemSteps
<1>2. /\ Len(local[r].olds) = 1
      /\ input[r].acts[1].kind = "Update" => NewItem(input[r].acts[1], old) \in Items
      /\ input[r] \in ItemInputs /\ input[r].op \in SingleWrites
      /\ local[r].idx \in 1..Len(input[r].acts)
  BY <1>1 DEF TypeInv, ControlOK, Control, ItemSteps
<1>3. Len(input[r].acts) = 1 /\ local[r].idx = 1
  BY <1>2, InputsAssumption DEF SingleWrites
<1>4. old \in Stored
  BY <1>1, <1>2, AtAct DEF Locals
<1>5. NewItem(Act(r), old) \in Stored
  BY <1>2, <1>3, <1>4, NewItemTyped DEF Act, Stored
<1>6. work' \in Databases
  BY <1>1, <1>5, AtAct, SetCellTyped DEF WriteItem, TypeInv, TypeOK
<1>7. Control("commit", input[r], local[r])
  BY <1>2 DEF Control, ItemSteps, TableSteps, Inputs
<1>8. QED
  BY <1>6, <1>7, TxGotoTyped DEF WriteItem, Steps, TxSteps

-----------------------------------------------------------------------------
(* TransactWriteItems                                                      *)

LEMMA ParseTxItemTyped ==
    ASSUME TypeInv, NEW r \in Requests, ParseTxItem(r)
    PROVE  TypeInv'
<1>1. pc[r] = "load" /\ pc[r] \in ItemSteps /\ Op(r) = "TransactWriteItems"
  BY DEF ParseTxItem, ItemSteps
<1>2. /\ input[r] \in ItemInputs /\ input[r] \in Inputs /\ local[r] \in Locals
      /\ local[r].idx \in 1..Len(input[r].acts) /\ Len(input[r].acts) \in Nat
      /\ local[r].olds = <<>>
  BY <1>1, AtAct DEF Inputs, ActCount, TypeInv, ControlOK, Control
<1>3. CASE UNCHANGED local /\ \E code \in Codes : Answer(r, code)
  BY <1>1, <1>3, AtAct, ReadAnswerTyped DEF ParseTxItem
<1>4. CASE /\ local[r].idx < ActCount(r)
           /\ local' = [local EXCEPT ![r].idx = local[r].idx + 1]
           /\ Goto(r, "load")
  <2> DEFINE loc == [local[r] EXCEPT !.idx = local[r].idx + 1]
  <2>1. /\ loc \in Locals /\ loc.olds = <<>> /\ loc.idx \in 1..Len(input[r].acts)
        /\ local' = [local EXCEPT ![r] = loc]
    <3>1. loc \in Locals
      BY <1>2, SMTT(60) DEF Locals
    <3>2. loc.olds = <<>> /\ loc.idx = local[r].idx + 1
      BY <1>2 DEF Locals
    <3>3. loc.idx \in 1..Len(input[r].acts)
      BY <1>2, <1>4, <3>2 DEF ActCount
    <3>4. local' = [local EXCEPT ![r] = loc]
      BY <1>4
    <3>5. QED
      BY <3>1, <3>2, <3>3, <3>4
  <2>2. Control("load", input[r], loc)
    BY <1>2, <2>1 DEF Control, ItemSteps, TableSteps
  <2>3. QED
    BY <1>4, <2>1, <2>2, GotoTyped
       DEF ParseTxItem, Reads, db, Steps, StatementSteps, TypeInv, TypeOK
<1>5. CASE /\ local' = [local EXCEPT ![r].idx = 1, ![r].now = clock]
           /\ Goto(r, "begin")
  <2> DEFINE loc == [local[r] EXCEPT !.idx = 1, !.now = clock]
  <2>1. clock \in Nat
    BY StoreAssumption DEF TypeInv, TypeOK
  <2>2. /\ loc \in Locals /\ loc.olds = <<>> /\ loc.idx = 1
        /\ local' = [local EXCEPT ![r] = loc]
    <3>1. loc \in Locals
      BY <1>2, <2>1 DEF Locals
    <3>2. loc.olds = <<>> /\ loc.idx = 1
      BY <1>2 DEF Locals
    <3>3. local' = [local EXCEPT ![r] = loc]
      BY <1>5
    <3>4. QED
      BY <3>1, <3>2, <3>3
  <2>3. Control("begin", input[r], loc)
    BY <1>1, <1>2, <2>2 DEF Control, ItemSteps, TableSteps, Op
  <2>4. QED
    BY <1>5, <2>2, <2>3, GotoTyped DEF ParseTxItem, Reads, db, Steps, TypeInv, TypeOK
<1>6. QED
  BY <1>3, <1>4, <1>5 DEF ParseTxItem, Codes

(* What the invariant says of a transaction's request at one of its steps. *)
LEMMA AtTx ==
    ASSUME TypeInv, NEW r \in Requests, pc[r] \in {"token", "checkAll", "apply", "stamp"}
    PROVE  /\ pc[r] \in ItemSteps
           /\ input[r] \in ItemInputs /\ input[r] \in Inputs
           /\ input[r].op = "TransactWriteItems"
           /\ local[r].olds \in Seq(Stored) /\ local[r].reasons \in Seq(Reasons)
           /\ local[r].total \in Nat /\ local[r].now \in Nat
<1>1. pc[r] \in ItemSteps
  BY DEF ItemSteps
<1>2. input[r].op = "TransactWriteItems"
  BY DEF TypeInv, ControlOK, Control
<1>3. QED
  BY <1>1, <1>2, AtAct DEF Inputs, Locals

LEMMA LookUpTokenTyped ==
    ASSUME TypeInv, NEW r \in Requests, LookUpToken(r)
    PROVE  TypeInv'
<1> DEFINE tokens == Purge(work.tokens, local[r].now)
<1>1. pc[r] = "token"
  BY DEF LookUpToken
<1>2. [work EXCEPT !.tokens = tokens] \in Databases
  BY <1>1, AtTx, PurgeTyped, SetTokensTyped DEF TypeInv, TypeOK
<1>3. /\ input[r].op = "TransactWriteItems" /\ input[r] \in ItemInputs
      /\ input[r] \in Inputs
      /\ local[r].olds = <<>> /\ local[r].idx = 1
      /\ local[r].idx \in 1..Len(input[r].acts)
  BY <1>1, AtTx DEF TypeInv, ControlOK, Control, ItemSteps
<1>4. CASE /\ InTx(r) /\ work' = [work EXCEPT !.tokens = tokens]
           /\ Goto(r, "checkAll") /\ UNCHANGED local
  <2>1. Control("checkAll", input[r], local[r])
    BY <1>3 DEF Control, ItemSteps, TableSteps
  <2>2. QED
    BY <1>2, <1>4, <2>1, TxGotoTyped DEF Steps, TxSteps
<1>5. CASE /\ InTx(r) /\ work' = [work EXCEPT !.tokens = tokens]
           /\ Goto(r, "commit") /\ UNCHANGED local
  <2>1. Control("commit", input[r], local[r])
    BY <1>3 DEF Control, ItemSteps, TableSteps, SingleWrites
  <2>2. QED
    BY <1>2, <1>5, <2>1, TxGotoTyped DEF Steps, TxSteps
<1>6. CASE Rollback(r) /\ Answer(r, "IdempotentParameterMismatchException")
  BY <1>1, <1>6, RollbackCodeTyped DEF Codes
<1>7. QED
  BY <1>4, <1>5, <1>6 DEF LookUpToken

LEMMA CheckTxItemTyped ==
    ASSUME TypeInv, NEW r \in Requests, CheckTxItem(r)
    PROVE  TypeInv'
<1> DEFINE old == Cell(work, Act(r))
           reasons == Append(local[r].reasons, Reason(Act(r), old))
           last == local[r].idx = ActCount(r)
<1>1. pc[r] = "checkAll" /\ pc[r] \in ItemSteps /\ pc[r] # "idle"
  BY DEF CheckTxItem, ItemSteps
<1>2. /\ input[r].op = "TransactWriteItems" /\ input[r] \in ItemInputs
      /\ input[r] \in Inputs /\ local[r] \in Locals
      /\ local[r].idx \in 1..Len(input[r].acts) /\ Len(input[r].acts) \in Nat
      /\ ActCount(r) = Len(input[r].acts)
      /\ old \in Stored
  BY <1>1, AtTx, AtAct DEF ActCount
<1>3. local[r].olds \in Seq(Stored) /\ Len(local[r].olds) = local[r].idx - 1
  BY <1>1, AtTx DEF TypeInv, ControlOK, Control
<1>4. reasons \in Seq(Reasons)
  <2>1. Reason(Act(r), old) \in Reasons
    BY DEF Reason, Reasons
  <2>2. QED
    BY <1>1, <2>1, AtTx
<1>5. CASE Rollback(r) /\ AnswerWith(r, Cancellation(reasons))
  <2>1. Cancellation(reasons) \in Replies
    BY <1>4, ReplyTyped DEF Cancellation, Codes
  <2>2. QED
    BY <1>1, <1>5, <2>1, RollbackTyped
<1>6. CASE Rollback(r) /\ \E code \in Codes : Answer(r, code)
  BY <1>1, <1>6, RollbackCodeTyped
<1>7. CASE /\ TxReads(r)
           /\ local' = [local EXCEPT ![r].idx = IF last THEN 1 ELSE @ + 1,
                                     ![r].olds = Append(@, old),
                                     ![r].reasons = reasons]
           /\ Goto(r, IF last THEN "apply" ELSE "checkAll")
  <2> DEFINE loc == [local[r] EXCEPT !.idx = IF last THEN 1 ELSE @ + 1,
                                     !.olds = Append(@, old),
                                     !.reasons = reasons]
             step == IF last THEN "apply" ELSE "checkAll"
  <2>1. /\ Append(local[r].olds, old) \in Seq(Stored)
        /\ Len(Append(local[r].olds, old)) = local[r].idx
    BY <1>2, <1>3
  <2>2. (IF last THEN 1 ELSE local[r].idx + 1) \in 1..Len(input[r].acts)
    BY <1>2
  <2>3. /\ loc \in Locals
        /\ loc.idx \in 1..Len(input[r].acts)
        /\ loc.idx = IF last THEN 1 ELSE local[r].idx + 1
        /\ Len(loc.olds) = local[r].idx
    <3>1. local[r].idx \in Nat /\ (IF last THEN 1 ELSE local[r].idx + 1) \in Nat
      BY <1>2
    <3>2. /\ loc.idx = IF last THEN 1 ELSE local[r].idx + 1
          /\ loc.olds = Append(local[r].olds, old)
      BY <1>2 DEF Locals
    <3>3. loc \in Locals
      BY <1>2, <1>4, <2>1, <3>1 DEF Locals
    <3>4. QED
      BY <2>1, <2>2, <3>2, <3>3
  <2>4. local' = [local EXCEPT ![r] = loc]
    BY <1>7
  <2>5. Control(step, input[r], loc)
    <3>1. CASE last
      BY <1>2, <2>3, <3>1 DEF Control, ItemSteps, TableSteps
    <3>2. CASE ~last
      BY <1>2, <2>3, <3>2 DEF Control, ItemSteps, TableSteps
    <3>3. QED
      BY <3>1, <3>2
  <2>6. step \in Steps
    BY DEF Steps, TxSteps
  <2>7. QED
    BY <1>7, <2>3, <2>4, <2>5, <2>6, GotoTyped DEF TxReads, InTx, TypeInv, TypeOK
<1>8. QED
  BY <1>5, <1>6, <1>7 DEF CheckTxItem, Codes

LEMMA ApplyTxItemTyped ==
    ASSUME TypeInv, NEW r \in Requests, ApplyTxItem(r)
    PROVE  TypeInv'
<1> DEFINE act == Act(r)
           i == local[r].idx
           old == local[r].olds[i]
           new == NewItem(act, old)
           total == local[r].total + CountedSize(act, old)
           next == IF i < ActCount(r) THEN i + 1 ELSE i
           step == CASE i < ActCount(r) -> "apply"
                     [] i = ActCount(r) /\ Token(r) # NoToken -> "stamp"
                     [] OTHER -> "commit"
           loc == [local[r] EXCEPT !.total = total, !.idx = next]
<1>1. pc[r] = "apply" /\ pc[r] \in ItemSteps /\ pc[r] # "idle"
  BY DEF ApplyTxItem, ItemSteps
<1>2. /\ input[r].op = "TransactWriteItems" /\ input[r] \in ItemInputs
      /\ input[r] \in Inputs /\ local[r] \in Locals
      /\ i \in 1..Len(input[r].acts) /\ Len(input[r].acts) \in Nat
      /\ ActCount(r) = Len(input[r].acts)
      /\ act = input[r].acts[i] /\ act \in Acts
      /\ local[r].reasons \in Seq(Reasons) /\ local[r].total \in Nat
  BY <1>1, AtTx, AtAct DEF ActCount, Act
<1>3. local[r].olds \in Seq(Stored) /\ Len(local[r].olds) = Len(input[r].acts)
  BY <1>1, AtTx DEF TypeInv, ControlOK, Control
<1>4. old \in Stored
  BY <1>2, <1>3
<1>5. total \in Nat
  <2>1. CountedSize(act, old) \in Nat
    BY <1>2, <1>4, NewItemTyped
  <2>2. QED
    BY <1>2, <2>1
<1>6. CASE /\ Rollback(r)
           /\ AnswerWith(r, Cancellation([local[r].reasons EXCEPT ![i] = "ValidationError"]))
  <2>1. [local[r].reasons EXCEPT ![i] = "ValidationError"] \in Seq(Reasons)
    <3>1. PICK n \in Nat : local[r].reasons \in [1..n -> Reasons]
      BY <1>2
    <3>2. [local[r].reasons EXCEPT ![i] = "ValidationError"] \in [1..n -> Reasons]
      BY <3>1 DEF Reasons
    <3>3. QED
      BY <3>2, SeqDef, ZenonT(60)
  <2>2. Cancellation([local[r].reasons EXCEPT ![i] = "ValidationError"]) \in Replies
    BY <2>1, ReplyTyped DEF Cancellation, Codes
  <2>3. QED
    BY <1>1, <1>6, <2>2, RollbackTyped
<1>7. CASE /\ act.kind \in {"Put", "Update"} => Storable(new)
           /\ UNCHANGED <<disk, conn, handle, clock, cancelled>>
           /\ work' = IF Writes(act) THEN SetCell(work, act, new) ELSE work
           /\ local' = [local EXCEPT ![r].total = total, ![r].idx = next]
           /\ Goto(r, step)
  <2>1. new \in Stored
    <3>1. CASE act.kind = "Update"
      BY <1>7, <3>1 DEF Storable, Stored
    <3>2. CASE act.kind # "Update"
      BY <1>2, <1>4, <3>2, NewItemTyped, SMTT(60)
    <3>3. QED
      BY <3>1, <3>2
  <2>2. work' \in Databases /\ disk' \in Databases /\ conn' \in Requests \union {NoReq}
    BY <1>2, <1>7, <2>1, SetCellTyped DEF TypeInv, TypeOK
  <2>3. next \in 1..Len(input[r].acts) /\ next \in Nat
    BY <1>2
  <2>4. loc \in Locals /\ loc.idx = next /\ loc.olds = local[r].olds
    <3> HIDE DEF next, total
    <3>1. QED
      BY <1>2, <1>5, <2>3 DEF Locals
  <2>5. local' = [local EXCEPT ![r] = loc]
    BY <1>7
  <2>6. step \in Steps
    BY DEF Steps, TxSteps
  <2>7. input[r].token \in Tokens \union {NoToken}
    BY <1>2, InputsAssumption
  <2>8. Control(step, input[r], loc)
    <3>1. CASE i < ActCount(r)
      BY <1>2, <1>3, <2>3, <2>4, <3>1 DEF Control, ItemSteps, TableSteps
    <3>2. CASE i = ActCount(r) /\ Token(r) # NoToken
      <4>1. step = "stamp"
        BY <1>2, <3>2
      <4>2. QED
        BY <1>2, <2>3, <2>4, <2>7, <3>2, <4>1 DEF Control, ItemSteps, TableSteps, Token
    <3>3. CASE i = ActCount(r) /\ Token(r) = NoToken
      <4>1. step = "commit"
        BY <1>2, <3>3
      <4>2. QED
        BY <1>2, <4>1 DEF Control, ItemSteps, TableSteps, SingleWrites
    <3>4. QED
      BY <1>2, <3>1, <3>2, <3>3
  <2>9. QED
    BY <1>7, <2>2, <2>4, <2>5, <2>6, <2>8, GotoTyped
<1>8. QED
  BY <1>6, <1>7 DEF ApplyTxItem

LEMMA StampTokenTyped ==
    ASSUME TypeInv, NEW r \in Requests, StampToken(r)
    PROVE  TypeInv'
<1> DEFINE stamp == [request |-> input[r], at |-> clock]
<1>1. pc[r] = "stamp"
  BY DEF StampToken
<1>2. input[r] \in ItemInputs /\ input[r] \in Inputs /\ Token(r) \in Tokens
      /\ input[r].op = "TransactWriteItems"
  BY <1>1, AtTx DEF TypeInv, ControlOK, Control, Token
<1>3. stamp \in Stamps
  BY <1>2, StoreAssumption DEF Stamps, TypeInv, TypeOK
<1>4. [work.tokens EXCEPT ![Token(r)] = stamp] \in [Tokens -> Stamps \union {NoStamp}]
  BY <1>3 DEF TypeInv, TypeOK, Databases
<1>5. work' \in Databases
  BY <1>4, SetTokensTyped DEF StampToken, TypeInv, TypeOK
<1>6. Control("commit", input[r], local[r])
  BY <1>2 DEF Control, ItemSteps, TableSteps, SingleWrites
<1>7. QED
  BY <1>5, <1>6, TxGotoTyped DEF StampToken, Steps, TxSteps

-----------------------------------------------------------------------------
(* The table operations                                                    *)

LEMMA AtTable ==
    ASSUME TypeInv, NEW r \in Requests, pc[r] \in TableSteps
    PROVE  /\ pc[r] # "idle"
           /\ input[r] \in TableInputs /\ input[r] \in Inputs
           /\ input[r].op \in TableOpNames
           /\ Table(r) \in Names
           /\ input[r].row \in Rows
           /\ input[r].tags \in SUBSET TagKeys
           /\ work \in Databases /\ disk \in Databases
<1>1. pc[r] # "idle" /\ input[r] \in TableInputs /\ input[r] \in Inputs
  BY DEF TypeInv, ControlOK, Control, TableSteps
<1>2. QED
  BY <1>1, InputTyped DEF Table, TypeInv, TypeOK

(* A step of a table's transaction that goes on to another one.            *)
LEMMA TableTxTyped ==
    ASSUME TypeInv, NEW r \in Requests, pc[r] \in TableSteps,
           NEW step \in {"createData", "dropData", "commit"},
           InTx(r), work' \in Databases, Goto(r, step), UNCHANGED local
    PROVE  TypeInv'
<1>1. Control(step, input[r], local[r])
  BY AtTable DEF Control, ItemSteps, TableSteps, TableOpNames, SingleWrites
<1>2. QED
  BY <1>1, TxGotoTyped DEF Steps, TxSteps

LEMMA CreateTableTyped ==
    ASSUME TypeInv, NEW r \in Requests, InsertRow(r) \/ CreateData(r)
    PROVE  TypeInv'
<1>1. pc[r] \in TableSteps
  BY DEF InsertRow, CreateData, TableSteps
<1>2. CASE Rollback(r) /\ \E code \in Codes : Answer(r, code)
  BY <1>1, <1>2, AtTable, RollbackCodeTyped
<1>3. CASE /\ InTx(r) /\ work' = SetRow(work, Table(r), input[r].row)
           /\ Goto(r, "createData") /\ UNCHANGED local
  <2>1. work' \in Databases
    BY <1>1, <1>3, AtTable, SetRowTyped
  <2>2. QED
    BY <1>1, <1>3, <2>1, TableTxTyped
<1>4. CASE /\ InTx(r)
           /\ work' = [work EXCEPT !.backing = @ \union {DataTable[Table(r)]}]
           /\ Goto(r, "commit") /\ UNCHANGED local
  <2>1. DataTable[Table(r)] \in SqlNames
    BY <1>1, AtTable, NamesAssumption
  <2>2. work' \in Databases
    BY <1>4, <2>1 DEF TypeInv, TypeOK, Databases
  <2>3. QED
    BY <1>1, <1>4, <2>2, TableTxTyped
<1>5. QED
  BY <1>2, <1>3, <1>4 DEF InsertRow, CreateData, Codes

LEMMA DeleteTableTyped ==
    ASSUME TypeInv, NEW r \in Requests, DeleteRow(r) \/ DropData(r)
    PROVE  TypeInv'
<1>1. pc[r] \in TableSteps
  BY DEF DeleteRow, DropData, TableSteps
<1>2. CASE Rollback(r) /\ \E code \in Codes : Answer(r, code)
  BY <1>1, <1>2, AtTable, RollbackCodeTyped
<1>3. CASE /\ InTx(r) /\ work' = SetRow(work, Table(r), NoRow)
           /\ Goto(r, "dropData") /\ UNCHANGED local
  <2>1. work' \in Databases
    BY <1>1, <1>3, AtTable, SetRowTyped
  <2>2. QED
    BY <1>1, <1>3, <2>1, TableTxTyped
<1>4. CASE /\ InTx(r)
           /\ work' = [work EXCEPT !.backing = @ \ {DataTable[Table(r)]},
                                   !.data[DataTable[Table(r)]] = [k \in Keys |-> NoItem]]
           /\ Goto(r, "commit") /\ UNCHANGED local
  <2>1. [k \in Keys |-> NoItem] \in [Keys -> Stored]
    BY DEF Stored
  <2>2. work' \in Databases
    BY <1>4, <2>1 DEF TypeInv, TypeOK, Databases
  <2>3. QED
    BY <1>1, <1>4, <2>2, TableTxTyped
<1>5. QED
  BY <1>2, <1>3, <1>4 DEF DeleteRow, DropData, Codes

(* The steps that read the catalog and answer or go to the next statement. *)
LEMMA InspectTyped ==
    ASSUME TypeInv, NEW r \in Requests,
           LoadCreated(r) \/ LoadDescribed(r) \/ CountItems(r) \/ ListTables(r)
             \/ ResolveARN(r)
    PROVE  TypeInv'
<1>1. pc[r] \in TableSteps /\ Reads(r) /\ UNCHANGED local
  BY DEF LoadCreated, LoadDescribed, CountItems, ListTables, ResolveARN, TableSteps
<1>2. CASE \E code \in Codes : Answer(r, code)
  BY <1>1, <1>2, AtTable, ReadAnswerTyped
<1>3. ASSUME NEW step \in {"count", "reload"}, Goto(r, step)
      PROVE  TypeInv'
  <2>1. Control(step, input[r], local[r])
    BY <1>1, AtTable DEF Control, ItemSteps, TableSteps
  <2>2. QED
    BY <1>1, <1>3, <2>1, ReadGotoTyped DEF Steps, StatementSteps
<1>4. QED
  BY <1>2, <1>3 DEF LoadCreated, LoadDescribed, CountItems, ListTables, ResolveARN, Codes

LEMMA ReloadTyped ==
    ASSUME TypeInv, NEW r \in Requests, Reload(r)
    PROVE  TypeInv'
<1> DEFINE row == disk.catalog[Table(r)]
           loc == [local[r] EXCEPT !.row = row]
<1>1. pc[r] \in TableSteps
  BY DEF Reload, TableSteps
<1>2. CASE UNCHANGED local /\ \E code \in Codes : Answer(r, code)
  BY <1>1, <1>2, AtTable, ReadAnswerTyped DEF Reload
<1>3. CASE row # NoRow /\ local' = [local EXCEPT ![r].row = row] /\ Goto(r, "retag")
  <2>1. row \in Rows
    BY <1>1, <1>3, AtTable DEF Databases
  <2>2. loc \in Locals /\ loc.row = row /\ local' = [local EXCEPT ![r] = loc]
    BY <1>3, <2>1 DEF TypeInv, TypeOK, Locals
  <2>3. Control("retag", input[r], loc)
    BY <1>1, <2>1, <2>2, AtTable DEF Control, ItemSteps, TableSteps
  <2>4. QED
    BY <1>3, <2>2, <2>3, GotoTyped
       DEF Reload, Reads, db, Steps, StatementSteps, TypeInv, TypeOK
<1>4. QED
  BY <1>2, <1>3 DEF Reload, Codes

LEMMA UpdateTagsTyped ==
    ASSUME TypeInv, NEW r \in Requests, UpdateTags(r)
    PROVE  TypeInv'
<1> DEFINE row == disk.catalog[Table(r)]
<1>1. pc[r] = "retag" /\ pc[r] \in TableSteps
  BY DEF UpdateTags, TableSteps
<1>2. NewTags(r) \in SUBSET TagKeys
  <2>1. local[r].row \in Rows
    BY <1>1 DEF TypeInv, ControlOK, Control
  <2>2. QED
    BY <1>1, <2>1, AtTable DEF NewTags, Rows
<1>3. disk' \in Databases
  <2>1. CASE row = NoRow
    BY <1>1, <2>1, AtTable DEF UpdateTags
  <2>2. CASE row # NoRow
    <3>1. row \in Rows
      BY <1>1, <2>2, AtTable DEF Databases
    <3>2. [row EXCEPT !.tags = NewTags(r)] \in Rows
      BY <1>2, <3>1 DEF Rows
    <3>3. disk' = SetRow(disk, Table(r), [row EXCEPT !.tags = NewTags(r)])
      BY <2>2 DEF UpdateTags, SetRow
    <3>4. QED
      BY <1>1, <3>2, <3>3, AtTable, SetRowTyped
  <2>3. QED
    BY <2>1, <2>2
<1>4. QED
  BY <1>1, <1>3, AtTable, AnswerTyped, ReplyTyped
     DEF UpdateTags, Answer, Codes, TypeInv, TypeOK

-----------------------------------------------------------------------------
LEMMA InitTyped == Init => TypeInv
<1> HAVE Init
<1>1. NoReply \in Replies
  BY ReplyTyped DEF NoReply, Codes
<1>2. TypeOK
  BY <1>1, EmptyLocalTyped, StoreAssumption DEF Init, TypeOK, Steps
<1>3. Control("idle", NoInput, EmptyLocal)
  BY DEF Control, ItemSteps, TableSteps
<1>4. QED
  BY <1>2, <1>3 DEF Init, TypeInv, ControlOK

LEMMA NextTyped == TypeInv /\ [Next]_vars => TypeInv'
<1> SUFFICES ASSUME TypeInv, [Next]_vars PROVE TypeInv'
  OBVIOUS
<1>1. CASE UNCHANGED vars
  BY <1>1 DEF vars, TypeInv, TypeOK, ControlOK
<1>2. ASSUME NEW r \in Requests, ItemStep(r) PROVE TypeInv'
  BY <1>2, LoadItemTableTyped, GetItemTyped, CheckItemTyped, CheckFailsTyped,
     WriteItemTyped DEF ItemStep
<1>3. ASSUME NEW r \in Requests, TransactStep(r) PROVE TypeInv'
  BY <1>3, ParseTxItemTyped, LookUpTokenTyped, CheckTxItemTyped, ApplyTxItemTyped,
     StampTokenTyped DEF TransactStep
<1>4. ASSUME NEW r \in Requests, TableStep(r) PROVE TypeInv'
  BY <1>4, CreateTableTyped, DeleteTableTyped, InspectTyped, ReloadTyped,
     UpdateTagsTyped DEF TableStep
<1>5. ASSUME NEW r \in Requests, Step(r) PROVE TypeInv'
  BY <1>2, <1>3, <1>4, <1>5, BeginTyped, CommitTyped, FailsTyped, FinishTyped DEF Step
<1>6. QED
  BY <1>1, <1>5, DoTyped, ReturnTyped, HandleTyped DEF Next

(* Every variable keeps its type, and every handler finds at each of its   *)
(* steps what that step uses: the item it read before it writes, a table   *)
(* row before it writes tags, an act of its own request at every turn of a *)
(* loop, a token before it stores one.                                     *)
THEOREM TypeCorrect == Spec => []TypeOK
<1>1. TypeInv => TypeOK
  BY DEF TypeInv
<1>2. QED
  BY <1>1, InitTyped, NextTyped, PTL DEF Spec

-----------------------------------------------------------------------------
(* One transaction at a time                                               *)

(* OneTransaction with the types that its proof needs.                     *)
TxInv ==
    /\ pc \in [Requests -> Steps]
    /\ conn \in Requests \union {NoReq}
    /\ OneTransaction

(* A request that moves between steps outside of transactions, or between  *)
(* steps of its own one.                                                   *)
LEMMA MoveKeepsTx ==
    ASSUME TxInv, NEW r \in Requests, NEW step \in Steps,
           pc' = [pc EXCEPT ![r] = step],
           step \in TxSteps <=> pc[r] \in TxSteps,
           conn' = conn,
           conn = NoReq => (work' = disk' \/ UNCHANGED <<disk, work>>)
    PROVE  TxInv'
BY RequestsAssumption DEF TxInv, OneTransaction

(* A request that begins a transaction.                                    *)
LEMMA EnterKeepsTx ==
    ASSUME TxInv, NEW r \in Requests, NEW step \in TxSteps,
           pc' = [pc EXCEPT ![r] = step],
           conn = NoReq, conn' = r
    PROVE  TxInv'
BY RequestsAssumption DEF TxInv, OneTransaction, Steps

(* A request that ends its transaction.                                    *)
LEMMA LeaveKeepsTx ==
    ASSUME TxInv, NEW r \in Requests, NEW step \in Steps \ TxSteps,
           pc' = [pc EXCEPT ![r] = step],
           conn = r, conn' = NoReq, work' = disk'
    PROVE  TxInv'
BY RequestsAssumption DEF TxInv, OneTransaction

LEMMA RollbackLeaves ==
    ASSUME TxInv, NEW r \in Requests, NEW answer,
           Rollback(r), AnswerWith(r, answer)
    PROVE  TxInv'
<1>1. "answered" \in Steps \ TxSteps
  BY DEF Steps, StatementSteps, TxSteps
<1>2. QED
  BY <1>1, LeaveKeepsTx DEF Rollback, AnswerWith

(* A single statement outside of transactions that only reads.             *)
LEMMA ReadKeepsTx ==
    ASSUME TxInv, NEW r \in Requests, NEW step \in Steps \ TxSteps,
           pc[r] \in StatementSteps, Reads(r),
           pc' = [pc EXCEPT ![r] = step]
    PROVE  TxInv'
<1>1. pc[r] \notin TxSteps
  BY DEF StatementSteps, TxSteps
<1>2. QED
  BY <1>1, MoveKeepsTx DEF Reads, db

(* A statement of r's transaction after which the transaction goes on.     *)
LEMMA GoOnKeepsTx ==
    ASSUME TxInv, NEW r \in Requests, NEW step \in TxSteps,
           pc[r] \in TxSteps, conn' = conn,
           pc' = [pc EXCEPT ![r] = step]
    PROVE  TxInv'
<1>1. conn = r /\ conn # NoReq
  BY RequestsAssumption DEF TxInv, OneTransaction
<1>2. QED
  BY <1>1, MoveKeepsTx DEF Steps

(* Every operation, step by step.                                          *)
LEMMA LifeKeepsTx ==
    ASSUME TxInv, NEW r \in Requests,
           \/ \E in \in Inputs : Do(r, in)
           \/ Begin(r) \/ Commit(r) \/ StatementFails(r) \/ TxFails(r)
           \/ Finish(r) \/ Return(r) \/ Cancel(r)
    PROVE  TxInv'
<1> USE DEF Steps, StatementSteps, TxSteps
<1>1. ASSUME NEW in \in Inputs, Do(r, in) PROVE TxInv'
  <2>1. FirstStep(in) \in Steps \ TxSteps
    BY DEF FirstStep
  <2>2. PICK step \in Steps \ TxSteps : pc' = [pc EXCEPT ![r] = step]
    BY <1>1, <2>1 DEF Do
  <2>3. pc[r] \notin TxSteps /\ conn' = conn /\ UNCHANGED <<disk, work>>
    BY <1>1 DEF Do, db
  <2>4. QED
    BY <2>2, <2>3, MoveKeepsTx
<1>2. CASE Begin(r)
  <2>1. FirstTxStep(Op(r)) \in TxSteps
    BY DEF FirstTxStep
  <2>2. QED
    BY <1>2, <2>1, EnterKeepsTx DEF Begin, Granted, Goto
<1>3. CASE Commit(r)
  <2>1. PICK step \in {"created", "answered"} : pc' = [pc EXCEPT ![r] = step]
    BY <1>3 DEF Commit, Goto, Answer, AnswerWith
  <2>2. conn = r /\ conn' = NoReq /\ work' = disk'
    BY <1>3 DEF Commit
  <2>3. QED
    BY <2>1, <2>2, LeaveKeepsTx
<1>4. CASE StatementFails(r)
  <2>1. pc' = [pc EXCEPT ![r] = "answered"] /\ pc[r] \notin TxSteps
    BY <1>4 DEF StatementFails, Answer, AnswerWith
  <2>2. UNCHANGED <<disk, work, conn>>
    BY <1>4 DEF StatementFails, db
  <2>3. QED
    BY <2>1, <2>2, MoveKeepsTx
<1>5. CASE TxFails(r)
  BY <1>5, RollbackLeaves DEF TxFails, Answer
<1>6. CASE Finish(r)
  BY <1>6, MoveKeepsTx DEF Finish, db
<1>7. CASE Return(r)
  BY <1>7, MoveKeepsTx DEF Return, db
<1>8. CASE Cancel(r)
  BY <1>8 DEF Cancel, db, task, TxInv, OneTransaction
<1>9. QED
  BY <1>1, <1>2, <1>3, <1>4, <1>5, <1>6, <1>7, <1>8

LEMMA ItemKeepsTx ==
    ASSUME TxInv, NEW r \in Requests, ItemStep(r)
    PROVE  TxInv'
<1> USE DEF Steps, StatementSteps, TxSteps
<1>1. CASE LoadItemTable(r)
  <2>1. PICK step \in {"answered", "get", "begin"} : pc' = [pc EXCEPT ![r] = step]
    BY <1>1 DEF LoadItemTable, Answer, AnswerWith, Goto
  <2>2. QED
    BY <1>1, <2>1, ReadKeepsTx DEF LoadItemTable
<1>2. CASE GetItem(r)
  BY <1>2, ReadKeepsTx DEF GetItem, Answer, AnswerWith
<1>3. CASE CheckItem(r)
  BY <1>3, GoOnKeepsTx DEF CheckItem, TxReads, InTx, Goto
<1>4. CASE CheckFails(r)
  BY <1>4, RollbackLeaves DEF CheckFails
<1>5. CASE WriteItem(r)
  BY <1>5, GoOnKeepsTx DEF WriteItem, InTx, Goto
<1>6. QED
  BY <1>1, <1>2, <1>3, <1>4, <1>5 DEF ItemStep

LEMMA TransactKeepsTx ==
    ASSUME TxInv, NEW r \in Requests, TransactStep(r)
    PROVE  TxInv'
<1> USE DEF Steps, StatementSteps, TxSteps
<1>1. CASE ParseTxItem(r)
  <2>1. PICK step \in {"answered", "load", "begin"} : pc' = [pc EXCEPT ![r] = step]
    BY <1>1 DEF ParseTxItem, Answer, AnswerWith, Goto
  <2>2. QED
    BY <1>1, <2>1, ReadKeepsTx DEF ParseTxItem
<1>2. CASE LookUpToken(r)
  <2>1. CASE \E answer : Rollback(r) /\ AnswerWith(r, answer)
    BY <2>1, RollbackLeaves
  <2>2. CASE InTx(r) /\ \E step \in {"checkAll", "commit"} : Goto(r, step)
    BY <1>2, <2>2, GoOnKeepsTx DEF LookUpToken, InTx, Goto
  <2>3. QED
    BY <1>2, <2>1, <2>2 DEF LookUpToken, Answer
<1>3. CASE CheckTxItem(r)
  <2>1. CASE \E answer : Rollback(r) /\ AnswerWith(r, answer)
    BY <2>1, RollbackLeaves
  <2>2. CASE InTx(r) /\ \E step \in {"apply", "checkAll"} : Goto(r, step)
    <3>1. pc[r] \in TxSteps
      BY <1>3 DEF CheckTxItem
    <3>2. QED
      BY <2>2, <3>1, GoOnKeepsTx DEF InTx, Goto
  <2>3. QED
    BY <1>3, <2>1, <2>2 DEF CheckTxItem, Answer, TxReads
<1>4. CASE ApplyTxItem(r)
  <2>1. CASE \E answer : Rollback(r) /\ AnswerWith(r, answer)
    BY <2>1, RollbackLeaves
  <2>2. CASE conn' = conn /\ \E step \in {"apply", "stamp", "commit"} : Goto(r, step)
    BY <1>4, <2>2, GoOnKeepsTx DEF ApplyTxItem, Goto
  <2>3. QED
    BY <1>4, <2>1, <2>2 DEF ApplyTxItem
<1>5. CASE StampToken(r)
  BY <1>5, GoOnKeepsTx DEF StampToken, InTx, Goto
<1>6. QED
  BY <1>1, <1>2, <1>3, <1>4, <1>5 DEF TransactStep

LEMMA TableKeepsTx ==
    ASSUME TxInv, NEW r \in Requests, TableStep(r)
    PROVE  TxInv'
<1> USE DEF Steps, StatementSteps, TxSteps
<1>1. CASE InsertRow(r) \/ CreateData(r) \/ DeleteRow(r) \/ DropData(r)
  <2>1. CASE \E answer : Rollback(r) /\ AnswerWith(r, answer)
    BY <2>1, RollbackLeaves
  <2>2. CASE InTx(r) /\ \E step \in {"createData", "dropData", "commit"} : Goto(r, step)
    BY <1>1, <2>2, GoOnKeepsTx DEF InsertRow, CreateData, DeleteRow, DropData, InTx, Goto
  <2>3. QED
    BY <1>1, <2>1, <2>2 DEF InsertRow, CreateData, DeleteRow, DropData, Answer
<1>2. CASE LoadCreated(r)
  BY <1>2, ReadKeepsTx DEF LoadCreated, Answer, AnswerWith
<1>3. CASE LoadDescribed(r)
  BY <1>3, ReadKeepsTx DEF LoadDescribed, Answer, AnswerWith, Goto
<1>4. CASE CountItems(r)
  BY <1>4, ReadKeepsTx DEF CountItems, Answer, AnswerWith
<1>5. CASE ListTables(r)
  BY <1>5, ReadKeepsTx DEF ListTables, Answer, AnswerWith
<1>6. CASE ResolveARN(r)
  BY <1>6, ReadKeepsTx DEF ResolveARN, Answer, AnswerWith, Goto
<1>7. CASE Reload(r)
  <2>1. PICK step \in {"answered", "retag"} : pc' = [pc EXCEPT ![r] = step]
    BY <1>7 DEF Reload, Answer, AnswerWith, Goto
  <2>2. QED
    BY <1>7, <2>1, ReadKeepsTx DEF Reload
<1>8. CASE UpdateTags(r)
  <2>1. pc' = [pc EXCEPT ![r] = "answered"] /\ pc[r] \notin TxSteps
    BY <1>8 DEF UpdateTags, Answer, AnswerWith
  <2>2. conn' = conn /\ work' = disk'
    BY <1>8 DEF UpdateTags
  <2>3. QED
    BY <2>1, <2>2, MoveKeepsTx
<1>9. QED
  BY <1>1, <1>2, <1>3, <1>4, <1>5, <1>6, <1>7, <1>8 DEF TableStep

(* What happens to the handle leaves the connection alone, except that the *)
(* process dies.                                                           *)
LEMMA HandleKeepsTx ==
    ASSUME TxInv, Tick \/ CloseFlag \/ CloseSql \/ Crash \/ Reopen
    PROVE  TxInv'
<1>1. CASE Tick \/ CloseFlag \/ CloseSql \/ Reopen
  BY <1>1 DEF Tick, CloseFlag, CloseSql, Reopen, db, task, TxInv, OneTransaction
<1>2. CASE Crash
  BY <1>2, RequestsAssumption DEF Crash, TxInv, OneTransaction, Steps, TxSteps
<1>3. QED
  BY <1>1, <1>2

LEMMA NextKeepsTx == TxInv /\ [Next]_vars => TxInv'
<1> SUFFICES ASSUME TxInv, [Next]_vars PROVE TxInv'
  OBVIOUS
<1>1. CASE UNCHANGED vars
  BY <1>1 DEF vars, TxInv, OneTransaction
<1>2. ASSUME NEW r \in Requests, Step(r) PROVE TxInv'
  BY <1>2, LifeKeepsTx, ItemKeepsTx, TransactKeepsTx, TableKeepsTx DEF Step
<1>3. QED
  BY <1>1, <1>2, LifeKeepsTx, HandleKeepsTx DEF Next

LEMMA InitTx == Init => TxInv
BY RequestsAssumption DEF Init, TxInv, OneTransaction, Steps, TxSteps

(* At most one request is inside a transaction, it alone holds the         *)
(* connection, and the connection of nobody shows the committed database,  *)
(* through failed statements, cancelled contexts, crashes and Close        *)
(* (store.go: SetMaxOpenConns(1) and withTx).                              *)
THEOREM OneTransactionHolds == Spec => []OneTransaction
<1>1. TxInv => OneTransaction
  BY DEF TxInv
<1>2. QED
  BY <1>1, InitTx, NextKeepsTx, PTL DEF Spec

-----------------------------------------------------------------------------
(* A closed handle                                                         *)

(* With the pool closed and the connection free, the statements that write *)
(* and those that begin, end or undo a transaction are all disabled.       *)
LEMMA ClosedStep ==
    ASSUME NEW r \in Requests, Step(r), handle = "closed", conn = NoReq
    PROVE  UNCHANGED <<disk, conn>>
<1> USE RequestsAssumption DEF Granted, Reads, TxReads, InTx, Rollback, db
<1>1. CASE Begin(r) \/ Commit(r) \/ StatementFails(r) \/ TxFails(r) \/ Finish(r)
  BY <1>1 DEF Begin, Commit, StatementFails, TxFails, Finish
<1>2. CASE ItemStep(r)
  BY <1>2 DEF ItemStep, LoadItemTable, GetItem, CheckItem, CheckFails, WriteItem
<1>3. CASE TransactStep(r)
  BY <1>3 DEF TransactStep, ParseTxItem, LookUpToken, CheckTxItem, ApplyTxItem, StampToken
<1>4. CASE TableStep(r)
  BY <1>4 DEF TableStep, InsertRow, CreateData, LoadCreated, DeleteRow, DropData,
              LoadDescribed, CountItems, ListTables, ResolveARN, Reload, UpdateTags
<1>5. QED
  BY <1>1, <1>2, <1>3, <1>4 DEF Step

(* Once Close has closed the pool and the last transaction has ended, no   *)
(* waiting request writes the file or begins another one (store.go: Close, *)
(* and the flag in httpClient.Do, which a request may have passed before). *)
THEOREM ClosedFileUntouchedHolds == Spec => ClosedFileUntouched
<1>1. ASSUME Next, handle = "closed", conn = NoReq
      PROVE  disk' = disk /\ conn' = NoReq
  BY <1>1, ClosedStep DEF Next, Do, Return, Cancel, Tick, CloseFlag, CloseSql, Crash,
                          Reopen, db
<1>2. [Next]_vars => [handle = "closed" /\ conn = NoReq => disk' = disk /\ conn' = NoReq]_vars
  BY <1>1
<1>3. QED
  BY <1>2, PTL DEF Spec, ClosedFileUntouched

-----------------------------------------------------------------------------
(* Client tokens                                                           *)

Live(k) ==
    /\ disk.tokens[k] # NoStamp
    /\ clock <= disk.tokens[k].at + clientTokenTTLSeconds

(* The steps of a transaction between the lookup of its token and the      *)
(* commit of its stamp.                                                    *)
Applying == {"checkAll", "apply", "stamp"}

(* A transaction sees every token that is alive, it applies a request only *)
(* if its token is not in the table it sees, and it purges by a time that  *)
(* has passed.                                                             *)
TokenInv ==
    /\ \A k \in Tokens : Live(k) => work.tokens[k] = disk.tokens[k]
    /\ \A r \in Requests :
          pc[r] \in Applying /\ input[r].token # NoToken
          => work.tokens[input[r].token] = NoStamp
    /\ \A r \in Requests : local[r].now <= clock

-----------------------------------------------------------------------------
(* A step that touches no token and does not enter a transaction's second  *)
(* half.                                                                   *)
LEMMA MoveTokens ==
    ASSUME TypeInv, TokenInv, NEW r \in Requests, NEW step \in Steps, NEW loc \in Locals,
           pc' = [pc EXCEPT ![r] = step],
           local' = [local EXCEPT ![r] = loc], loc.now <= clock,
           step \in Applying => pc[r] \in Applying,
           UNCHANGED <<input, clock>>,
           disk'.tokens = disk.tokens, work'.tokens = work.tokens
    PROVE  TokenInv'
<1>1. \A k \in Tokens : Live(k)' => work'.tokens[k] = disk'.tokens[k]
  BY DEF TokenInv, Live
<1>2. ASSUME NEW q \in Requests, pc'[q] \in Applying, input'[q].token # NoToken
      PROVE  work'.tokens[input'[q].token] = NoStamp
  BY <1>2 DEF TokenInv, TypeInv, TypeOK
<1>3. ASSUME NEW q \in Requests PROVE local'[q].now <= clock'
  BY <1>3 DEF TokenInv, TypeInv, TypeOK
<1>4. QED
  BY <1>1, <1>2, <1>3 DEF TokenInv

LEMMA KeepTokens ==
    ASSUME TypeInv, TokenInv, NEW r \in Requests, NEW step \in Steps,
           pc' = [pc EXCEPT ![r] = step],
           step \in Applying => pc[r] \in Applying,
           UNCHANGED <<input, clock, local>>,
           disk'.tokens = disk.tokens, work'.tokens = work.tokens
    PROVE  TokenInv'
<1>1. local[r] \in Locals /\ local' = [local EXCEPT ![r] = local[r]]
  BY DEF TypeInv, TypeOK
<1>2. local[r].now <= clock
  BY DEF TokenInv
<1>3. QED
  BY <1>1, <1>2, MoveTokens

(* A step after which nobody is inside a transaction.                      *)
LEMMA EndTokens ==
    ASSUME TypeInv, TxInv, TokenInv, NEW r \in Requests, NEW step \in Steps \ TxSteps,
           pc' = [pc EXCEPT ![r] = step],
           conn \in {r, NoReq}, work' = disk', UNCHANGED <<input, clock, local>>
    PROVE  TokenInv'
<1>1. ASSUME NEW q \in Requests PROVE pc'[q] \notin Applying
  BY <1>1, RequestsAssumption DEF Applying, TxSteps, TxInv, OneTransaction
<1>2. QED
  BY <1>1 DEF TokenInv

LEMMA RollbackTokens ==
    ASSUME TypeInv, TxInv, TokenInv, NEW r \in Requests, NEW answer,
           Rollback(r), AnswerWith(r, answer)
    PROVE  TokenInv'
<1>1. "answered" \in Steps \ TxSteps
  BY DEF Steps, TxSteps
<1>2. QED
  BY <1>1, EndTokens DEF Rollback, AnswerWith

(* A single statement that only reads.                                     *)
LEMMA ReadTokens ==
    ASSUME TypeInv, TokenInv, NEW r \in Requests,
           NEW step \in Steps \ Applying,
           Reads(r), UNCHANGED <<input, local>>, pc' = [pc EXCEPT ![r] = step]
    PROVE  TokenInv'
BY KeepTokens DEF Reads, db

-----------------------------------------------------------------------------
(* The entry and the exit of a request, and the handle                     *)

LEMMA LifeTokens ==
    ASSUME TypeInv, TxInv, TokenInv, NEW r \in Requests,
           Begin(r) \/ Commit(r) \/ StatementFails(r) \/ TxFails(r) \/ Finish(r)
    PROVE  TokenInv'
<1>1. CASE Begin(r)
  <2>1. FirstTxStep(Op(r)) \in Steps /\ FirstTxStep(Op(r)) \notin Applying
    BY DEF FirstTxStep, Steps, TxSteps, Applying
  <2>2. QED
    BY <1>1, <2>1, KeepTokens DEF Begin, Goto
<1>2. CASE Commit(r)
  <2>1. PICK step \in {"created", "answered"} : pc' = [pc EXCEPT ![r] = step]
    BY <1>2 DEF Commit, Goto, Answer, AnswerWith
  <2>2. step \in Steps \ TxSteps
    BY <2>1 DEF Steps, StatementSteps, TxSteps
  <2>3. conn = r /\ work' = disk' /\ UNCHANGED <<input, clock, local>>
    BY <1>2 DEF Commit, Goto, Answer, AnswerWith
  <2>4. QED
    BY <2>1, <2>2, <2>3, EndTokens
<1>3. CASE StatementFails(r)
  BY <1>3, KeepTokens DEF StatementFails, Answer, AnswerWith, db, Steps, Applying
<1>4. CASE TxFails(r)
  BY <1>4, RollbackTokens DEF TxFails, Answer
<1>5. CASE Finish(r)
  BY <1>5, KeepTokens DEF Finish, db, Steps, Applying
<1>6. QED
  BY <1>1, <1>2, <1>3, <1>4, <1>5

LEMMA DoTokens ==
    ASSUME TypeInv, TokenInv, NEW r \in Requests, NEW in \in Inputs, Do(r, in)
    PROVE  TokenInv'
<1>1. PICK step \in {FirstStep(in), "done"} : pc' = [pc EXCEPT ![r] = step]
  BY DEF Do
<1>2. step \notin Applying
  BY <1>1 DEF FirstStep, Applying
<1>3. /\ input' = [input EXCEPT ![r] = in]
      /\ UNCHANGED <<disk, work, clock, local>>
  BY DEF Do, db
<1>4. ASSUME NEW q \in Requests, pc'[q] \in Applying
      PROVE  pc[q] \in Applying /\ input'[q] = input[q]
  BY <1>1, <1>2, <1>3, <1>4 DEF TypeInv, TypeOK
<1>5. QED
  BY <1>3, <1>4 DEF TokenInv, Live

LEMMA ReturnTokens ==
    ASSUME TypeInv, TokenInv, NEW r \in Requests, Return(r)
    PROVE  TokenInv'
<1>1. ASSUME NEW q \in Requests, pc'[q] \in Applying
      PROVE  pc[q] \in Applying /\ input'[q] = input[q]
  BY <1>1 DEF Return, Applying, TypeInv, TypeOK
<1>2. clock \in Nat /\ EmptyLocal.now = 0
  BY StoreAssumption DEF TypeInv, TypeOK, EmptyLocal
<1>3. ASSUME NEW q \in Requests PROVE local'[q].now <= clock
  BY <1>2 DEF Return, TokenInv, TypeInv, TypeOK
<1>4. QED
  BY <1>1, <1>3 DEF Return, db, TokenInv, Live

LEMMA HandleTokens ==
    ASSUME TypeInv, TokenInv,
           \/ \E r \in Requests : Cancel(r)
           \/ Tick \/ CloseFlag \/ CloseSql \/ Crash \/ Reopen
    PROVE  TokenInv'
<1>1. CASE Tick
  <2>1. clock \in Nat /\ clock' = clock + 1 /\ UNCHANGED <<disk, work, pc, input, local>>
    BY <1>1, StoreAssumption DEF Tick, db, task, TypeInv, TypeOK
  <2>2. ASSUME NEW k \in Tokens, Live(k)' PROVE Live(k)
    <3>1. disk.tokens[k] # NoStamp /\ clock + 1 <= disk.tokens[k].at + clientTokenTTLSeconds
      BY <2>1, <2>2 DEF Live
    <3>2. disk.tokens[k].at + clientTokenTTLSeconds \in Nat
      BY <3>1, TokensAssumption DEF TypeInv, TypeOK, Databases, Stamps
    <3>3. QED
      BY <2>1, <3>1, <3>2 DEF Live
  <2>3. ASSUME NEW r \in Requests PROVE local'[r].now <= clock'
    <3>1. local[r].now \in Nat /\ local[r].now <= clock
      BY DEF TypeInv, TypeOK, Locals, TokenInv
    <3>2. QED
      BY <2>1, <3>1
  <2>4. QED
    BY <2>1, <2>2, <2>3 DEF TokenInv
<1>2. CASE CloseFlag \/ CloseSql \/ Reopen \/ \E r \in Requests : Cancel(r)
  BY <1>2 DEF CloseFlag, CloseSql, Reopen, Cancel, db, task, TokenInv, Live
<1>3. CASE Crash
  <2>1. clock \in Nat /\ EmptyLocal.now = 0
    BY StoreAssumption DEF TypeInv, TypeOK, EmptyLocal
  <2>2. QED
    BY <1>3, <2>1 DEF Crash, TokenInv, Applying
<1>4. QED
  BY <1>1, <1>2, <1>3

-----------------------------------------------------------------------------
(* The handlers                                                            *)

LEMMA ItemTokens ==
    ASSUME TypeInv, TxInv, TokenInv, NEW r \in Requests, ItemStep(r)
    PROVE  TokenInv'
<1> USE DEF Steps, StatementSteps, TxSteps, Applying
<1>1. CASE LoadItemTable(r)
  <2>1. PICK step \in {"answered", "get", "begin"} : pc' = [pc EXCEPT ![r] = step]
    BY <1>1 DEF LoadItemTable, Answer, AnswerWith, Goto
  <2>2. UNCHANGED <<input, local>> /\ Reads(r)
    BY <1>1 DEF LoadItemTable, Answer, AnswerWith, Goto
  <2>3. QED
    BY <2>1, <2>2, ReadTokens
<1>2. CASE GetItem(r)
  BY <1>2, ReadTokens DEF GetItem, Answer, AnswerWith
<1>3. CASE CheckItem(r)
  <2> DEFINE loc == [local[r] EXCEPT !.olds = <<Cell(work, Act(r))>>]
  <2>1. Cell(work, Act(r)) \in Stored /\ local[r] \in Locals
    BY <1>3, AtAct DEF CheckItem, ItemSteps
  <2>2. <<Cell(work, Act(r))>> \in Seq(Stored)
    BY <2>1
  <2>3. loc \in Locals /\ loc.now <= clock /\ local' = [local EXCEPT ![r] = loc]
    <3>1. loc \in Locals
      BY <2>1, <2>2 DEF Locals
    <3>2. loc.now = local[r].now
      BY <2>1 DEF Locals
    <3>3. local' = [local EXCEPT ![r] = loc]
      BY <1>3 DEF CheckItem
    <3>4. QED
      BY <3>1, <3>2, <3>3 DEF TokenInv
  <2>4. QED
    BY <1>3, <2>3, MoveTokens DEF CheckItem, TxReads, InTx, Goto
<1>4. CASE CheckFails(r)
  BY <1>4, RollbackTokens DEF CheckFails
<1>5. CASE WriteItem(r)
  <2>1. work'.tokens = work.tokens
    <3>1. work \in Databases
      BY DEF TypeInv, TypeOK
    <3>2. QED
      BY <1>5, <3>1 DEF WriteItem, SetCell, Databases
  <2>2. QED
    BY <1>5, <2>1, KeepTokens DEF WriteItem, InTx, Goto
<1>6. QED
  BY <1>1, <1>2, <1>3, <1>4, <1>5 DEF ItemStep

LEMMA TableTokens ==
    ASSUME TypeInv, TxInv, TokenInv, NEW r \in Requests, TableStep(r)
    PROVE  TokenInv'
<1> USE DEF Steps, StatementSteps, TxSteps, Applying
<1>1. CASE InsertRow(r) \/ CreateData(r) \/ DeleteRow(r) \/ DropData(r)
  <2>1. CASE \E answer : Rollback(r) /\ AnswerWith(r, answer)
    BY <2>1, RollbackTokens
  <2>2. CASE /\ InTx(r) /\ UNCHANGED local
             /\ \E step \in {"createData", "dropData", "commit"} : Goto(r, step)
    <3>1. work'.tokens = work.tokens
      <4>1. work \in Databases
        BY DEF TypeInv, TypeOK
      <4>2. CASE InsertRow(r)
        BY <2>2, <4>1, <4>2, RequestsAssumption DEF InsertRow, InTx, Rollback, SetRow, Databases
      <4>3. CASE CreateData(r)
        BY <2>2, <4>1, <4>3, RequestsAssumption DEF CreateData, InTx, Rollback, Databases
      <4>4. CASE DeleteRow(r)
        BY <2>2, <4>1, <4>4, RequestsAssumption DEF DeleteRow, InTx, Rollback, SetRow, Databases
      <4>5. CASE DropData(r)
        BY <2>2, <4>1, <4>5, RequestsAssumption DEF DropData, InTx, Rollback, Databases
      <4>6. QED
        BY <1>1, <4>2, <4>3, <4>4, <4>5
    <3>2. QED
      BY <2>2, <3>1, KeepTokens DEF InTx, Goto
  <2>3. QED
    BY <1>1, <2>1, <2>2 DEF InsertRow, CreateData, DeleteRow, DropData, Answer
<1>2. CASE LoadCreated(r)
  BY <1>2, ReadTokens DEF LoadCreated, Answer, AnswerWith
<1>3. CASE LoadDescribed(r)
  BY <1>3, ReadTokens DEF LoadDescribed, Answer, AnswerWith, Goto
<1>4. CASE CountItems(r)
  BY <1>4, ReadTokens DEF CountItems, Answer, AnswerWith
<1>5. CASE ListTables(r)
  BY <1>5, ReadTokens DEF ListTables, Answer, AnswerWith
<1>6. CASE ResolveARN(r)
  BY <1>6, ReadTokens DEF ResolveARN, Answer, AnswerWith, Goto
<1>7. CASE Reload(r)
  <2>1. CASE UNCHANGED local /\ \E code : Answer(r, code)
    BY <1>7, <2>1, ReadTokens DEF Reload, Answer, AnswerWith
  <2>2. CASE local' = [local EXCEPT ![r].row = disk.catalog[Table(r)]] /\ Goto(r, "retag")
    <3> DEFINE loc == [local[r] EXCEPT !.row = disk.catalog[Table(r)]]
    <3>1. disk.catalog[Table(r)] \in Rows \union {NoRow}
      BY <1>7, AtTable DEF Reload, TableSteps, Databases
    <3>2. loc \in Locals /\ loc.now <= clock /\ local' = [local EXCEPT ![r] = loc]
      <4>1. local[r] \in Locals
        BY DEF TypeInv, TypeOK
      <4>2. loc \in Locals
        BY <3>1, <4>1 DEF Locals
      <4>3. loc.now = local[r].now
        BY <4>1 DEF Locals
      <4>4. local' = [local EXCEPT ![r] = loc]
        BY <2>2
      <4>5. QED
        BY <4>2, <4>3, <4>4 DEF TokenInv
    <3>3. QED
      BY <1>7, <2>2, <3>2, MoveTokens DEF Reload, Reads, db, Goto
  <2>3. QED
    BY <1>7, <2>1, <2>2 DEF Reload
<1>8. CASE UpdateTags(r)
  <2>1. conn = NoReq /\ work' = disk' /\ UNCHANGED <<input, clock, local>>
    BY <1>8 DEF UpdateTags, Granted, Answer, AnswerWith
  <2>2. QED
    BY <1>8, <2>1, EndTokens DEF UpdateTags, Answer, AnswerWith
<1>9. QED
  BY <1>1, <1>2, <1>3, <1>4, <1>5, <1>6, <1>7, <1>8 DEF TableStep

LEMMA ParseTokens ==
    ASSUME TypeInv, TokenInv, NEW r \in Requests, ParseTxItem(r)
    PROVE  TokenInv'
<1> USE DEF Steps, StatementSteps, Applying
<1>1. local[r] \in Locals /\ local[r].now <= clock /\ clock \in Nat
  BY StoreAssumption DEF TypeInv, TypeOK, TokenInv
<1>2. PICK step \in {"answered", "load", "begin"} : pc' = [pc EXCEPT ![r] = step]
  BY DEF ParseTxItem, Answer, AnswerWith, Goto
<1>3. UNCHANGED <<input, clock, disk, work>>
  BY DEF ParseTxItem, Answer, AnswerWith, Goto, Reads, db
<1>4. CASE UNCHANGED local
  BY <1>2, <1>3, <1>4, KeepTokens
<1>5. CASE local' = [local EXCEPT ![r].idx = local[r].idx + 1]
  <2> DEFINE loc == [local[r] EXCEPT !.idx = local[r].idx + 1]
  <2>1. loc \in Locals /\ loc.now <= clock /\ local' = [local EXCEPT ![r] = loc]
    <3>1. loc \in Locals
      BY <1>1, SMTT(60) DEF Locals
    <3>2. loc.now = local[r].now
      BY <1>1 DEF Locals
    <3>3. local' = [local EXCEPT ![r] = loc]
      BY <1>5
    <3>4. QED
      BY <1>1, <3>1, <3>2, <3>3
  <2>2. QED
    BY <1>2, <1>3, <2>1, MoveTokens
<1>6. CASE local' = [local EXCEPT ![r].idx = 1, ![r].now = clock]
  <2> DEFINE loc == [local[r] EXCEPT !.idx = 1, !.now = clock]
  <2>1. loc \in Locals /\ loc.now <= clock /\ local' = [local EXCEPT ![r] = loc]
    <3>1. loc \in Locals
      BY <1>1 DEF Locals
    <3>2. loc.now = clock
      BY <1>1 DEF Locals
    <3>3. local' = [local EXCEPT ![r] = loc]
      BY <1>6
    <3>4. QED
      BY <1>1, <3>1, <3>2, <3>3
  <2>2. QED
    BY <1>2, <1>3, <2>1, MoveTokens
<1>7. QED
  BY <1>4, <1>5, <1>6 DEF ParseTxItem

(* The purge takes no token that is alive, for its time has passed.        *)
LEMMA PurgeSparesLive ==
    ASSUME TypeInv, TokenInv, NEW r \in Requests, NEW k \in Tokens, Live(k)
    PROVE  Purge(work.tokens, local[r].now)[k] = disk.tokens[k]
<1>1. work.tokens[k] = disk.tokens[k] /\ disk.tokens[k] # NoStamp
  BY DEF TokenInv, Live
<1>2. disk.tokens[k].at \in Nat /\ clock \in Nat /\ local[r].now \in Nat
  BY <1>1, StoreAssumption DEF TypeInv, TypeOK, Databases, Stamps, Locals
<1>3. local[r].now <= clock /\ clock <= disk.tokens[k].at + clientTokenTTLSeconds
  BY DEF TokenInv, Live
<1>4. ~Expired(work.tokens[k], local[r].now)
  BY <1>1, <1>2, <1>3, TokensAssumption DEF Expired
<1>5. QED
  BY <1>1, <1>4 DEF Purge

LEMMA LookUpTokens ==
    ASSUME TypeInv, TxInv, TokenInv, NEW r \in Requests, LookUpToken(r)
    PROVE  TokenInv'
<1> DEFINE tokens == Purge(work.tokens, local[r].now)
           stamp == IF Token(r) = NoToken THEN NoStamp ELSE tokens[Token(r)]
<1>1. CASE Rollback(r) /\ \E code : Answer(r, code)
  BY <1>1, RollbackTokens DEF Answer
<1>2. CASE /\ InTx(r) /\ work' = [work EXCEPT !.tokens = tokens] /\ UNCHANGED local
           /\ Goto(r, "commit") \/ (stamp = NoStamp /\ Goto(r, "checkAll"))
  <2>1. work'.tokens = tokens /\ UNCHANGED <<disk, clock, input, local>>
    <3>1. work \in Databases
      BY DEF TypeInv, TypeOK
    <3>2. QED
      BY <1>2, <3>1 DEF InTx, Goto, Databases
  <2>2. ASSUME NEW k \in Tokens, Live(k)' PROVE work'.tokens[k] = disk'.tokens[k]
    BY <2>1, <2>2, PurgeSparesLive DEF Live
  <2>3. ASSUME NEW q \in Requests, pc'[q] \in Applying, input'[q].token # NoToken
        PROVE  work'.tokens[input'[q].token] = NoStamp
    <3>1. CASE q = r
      <4>1. stamp = NoStamp
        BY <1>2, <2>3, <3>1 DEF Goto, TypeInv, TypeOK, Applying
      <4>2. QED
        BY <2>1, <2>3, <3>1, <4>1 DEF Token
    <3>2. CASE q # r
      <4>1. pc[q] \in TxSteps /\ pc[r] \in TxSteps
        BY <1>2, <2>3, <3>2 DEF LookUpToken, Goto, TypeInv, TypeOK, Applying, TxSteps
      <4>2. QED
        BY <3>2, <4>1 DEF TxInv, OneTransaction
    <3>3. QED
      BY <3>1, <3>2
  <2>4. QED
    BY <2>1, <2>2, <2>3 DEF TokenInv
<1>3. QED
  BY <1>1, <1>2 DEF LookUpToken

LEMMA CheckTokens ==
    ASSUME TypeInv, TxInv, TokenInv, NEW r \in Requests, CheckTxItem(r)
    PROVE  TokenInv'
<1>1. CASE Rollback(r) /\ \E answer : AnswerWith(r, answer)
  BY <1>1, RollbackTokens
<1>2. CASE /\ TxReads(r) /\ \E step \in {"apply", "checkAll"} : Goto(r, step)
           /\ \E idx \in Nat, reasons \in Seq(Reasons) :
                 local' = [local EXCEPT ![r].idx = idx,
                                        ![r].olds = Append(@, Cell(work, Act(r))),
                                        ![r].reasons = reasons]
  <2>1. PICK idx \in Nat, reasons \in Seq(Reasons) :
           local' = [local EXCEPT ![r].idx = idx,
                                  ![r].olds = Append(@, Cell(work, Act(r))),
                                  ![r].reasons = reasons]
    BY <1>2
  <2> DEFINE loc == [local[r] EXCEPT !.idx = idx,
                                     !.olds = Append(@, Cell(work, Act(r))),
                                     !.reasons = reasons]
  <2>2. pc[r] = "checkAll"
    BY DEF CheckTxItem
  <2>3. Cell(work, Act(r)) \in Stored /\ local[r] \in Locals /\ local[r].olds \in Seq(Stored)
    BY <2>2, AtAct, AtTx DEF ItemSteps
  <2>4. Append(local[r].olds, Cell(work, Act(r))) \in Seq(Stored)
    BY <2>3
  <2>5. loc \in Locals /\ loc.now = local[r].now /\ local' = [local EXCEPT ![r] = loc]
    <3>1. loc \in Locals
      BY <2>1, <2>3, <2>4 DEF Locals
    <3>2. loc.now = local[r].now
      BY <2>3 DEF Locals
    <3>3. local' = [local EXCEPT ![r] = loc]
      BY <2>1
    <3>4. QED
      BY <3>1, <3>2, <3>3
  <2>6. loc.now <= clock
    BY <2>5 DEF TokenInv
  <2>7. PICK step \in {"apply", "checkAll"} : pc' = [pc EXCEPT ![r] = step]
    BY <1>2 DEF Goto
  <2>8. UNCHANGED <<disk, work, clock, input>>
    BY <1>2 DEF TxReads, InTx, Goto
  <2>9. QED
    BY <2>2, <2>5, <2>6, <2>7, <2>8, MoveTokens DEF Steps, TxSteps, Applying
<1>3. QED
  <2>1. local[r].idx \in Nat /\ local[r].reasons \in Seq(Reasons)
    BY AtAct, AtTx DEF CheckTxItem, ItemSteps
  <2>2. ASSUME NEW old PROVE Append(local[r].reasons, Reason(Act(r), old)) \in Seq(Reasons)
    <3>1. Reason(Act(r), old) \in Reasons
      BY DEF Reason, Reasons
    <3>2. QED
      BY <2>1, <3>1
  <2>3. CASE TxReads(r)
    <3> DEFINE last == local[r].idx = ActCount(r)
               idx == IF last THEN 1 ELSE local[r].idx + 1
               reasons == Append(local[r].reasons, Reason(Act(r), Cell(work, Act(r))))
    <3>1. ~Rollback(r)
      BY <2>3, RequestsAssumption DEF Rollback, TxReads, InTx
    <3>2. /\ local' = [local EXCEPT ![r].idx = IF last THEN 1 ELSE @ + 1,
                                    ![r].olds = Append(@, Cell(work, Act(r))),
                                    ![r].reasons = reasons]
          /\ Goto(r, IF last THEN "apply" ELSE "checkAll")
      BY <3>1 DEF CheckTxItem
    <3>3. /\ local' = [local EXCEPT ![r].idx = idx,
                                    ![r].olds = Append(@, Cell(work, Act(r))),
                                    ![r].reasons = reasons]
          /\ \E step \in {"apply", "checkAll"} : Goto(r, step)
      BY <3>2
    <3>4. idx \in Nat /\ reasons \in Seq(Reasons)
      BY <2>1, <2>2
    <3>5. QED
      BY <1>2, <2>3, <3>3, <3>4
  <2>4. QED
    BY <1>1, <2>3 DEF CheckTxItem, Answer

LEMMA ApplyTokens ==
    ASSUME TypeInv, TxInv, TokenInv, NEW r \in Requests, ApplyTxItem(r)
    PROVE  TokenInv'
<1>1. CASE Rollback(r) /\ \E answer : AnswerWith(r, answer)
  BY <1>1, RollbackTokens
<1>2. CASE /\ UNCHANGED <<disk, clock>>
           /\ \E step \in {"apply", "stamp", "commit"} : Goto(r, step)
           /\ \E item : work' \in {work, SetCell(work, Act(r), item)}
           /\ \E total, idx : local' = [local EXCEPT ![r].total = total, ![r].idx = idx]
  <2>1. PICK step \in {"apply", "stamp", "commit"} : pc' = [pc EXCEPT ![r] = step]
    BY <1>2 DEF Goto
  <2>2. step \in Steps
    BY DEF Steps, TxSteps
  <2>3. TypeInv'
    BY ApplyTxItemTyped
  <2>4. PICK total, idx : local' = [local EXCEPT ![r].total = total, ![r].idx = idx]
    BY <1>2
  <2> DEFINE loc == [local[r] EXCEPT !.total = total, !.idx = idx]
  <2>5. local' = [local EXCEPT ![r] = loc] /\ loc \in Locals
    <3>1. local' = [local EXCEPT ![r] = loc] /\ loc = local'[r]
      BY <2>4 DEF TypeInv, TypeOK
    <3>2. local'[r] \in Locals
      BY <2>3 DEF TypeInv, TypeOK
    <3>3. QED
      BY <3>1, <3>2
  <2>6. loc.now <= clock
    BY DEF TypeInv, TypeOK, Locals, TokenInv
  <2>7. work'.tokens = work.tokens
    <3>1. work \in Databases
      BY DEF TypeInv, TypeOK
    <3>2. QED
      BY <1>2, <3>1 DEF SetCell, Databases
  <2>8. pc[r] \in Applying /\ UNCHANGED <<disk, clock, input>>
    BY <1>2 DEF ApplyTxItem, Applying, Goto
  <2>9. QED
    BY <2>1, <2>2, <2>5, <2>6, <2>7, <2>8, MoveTokens
<1>3. QED
  BY <1>1, <1>2 DEF ApplyTxItem

(* A stamp replaces no token that is alive: there was none to be seen.     *)
LEMMA StampTokens ==
    ASSUME TypeInv, TxInv, TokenInv, NEW r \in Requests, StampToken(r)
    PROVE  TokenInv'
<1> DEFINE stamp == [request |-> input[r], at |-> clock]
<1>1. pc[r] = "stamp" /\ InTx(r) /\ Goto(r, "commit") /\ UNCHANGED local
  BY DEF StampToken
<1>2. Token(r) \in Tokens /\ Token(r) # NoToken
  BY <1>1, TokensAssumption DEF TypeInv, ControlOK, Control, Token
<1>3. work.tokens[Token(r)] = NoStamp
  BY <1>1, <1>2 DEF TokenInv, Applying, Token
<1>4. work'.tokens = [work.tokens EXCEPT ![Token(r)] = stamp]
  <2>1. work \in Databases
    BY DEF TypeInv, TypeOK
  <2>2. QED
    BY <2>1 DEF StampToken, Databases
<1>5. UNCHANGED <<disk, clock, input, local>>
  BY <1>1 DEF InTx, Goto
<1>6. ASSUME NEW k \in Tokens, Live(k)' PROVE work'.tokens[k] = disk'.tokens[k]
  <2>1. Live(k) /\ work.tokens[k] = disk.tokens[k]
    BY <1>5, <1>6 DEF Live, TokenInv
  <2>2. k # Token(r)
    BY <1>3, <2>1 DEF Live
  <2>3. QED
    BY <1>4, <1>5, <2>1, <2>2
<1>7. ASSUME NEW q \in Requests PROVE pc'[q] \notin Applying
  BY <1>1 DEF Goto, Applying, TypeInv, TypeOK, TxInv, OneTransaction, TxSteps
<1>8. QED
  BY <1>5, <1>6, <1>7 DEF TokenInv

LEMMA NextTokens == TypeInv /\ TxInv /\ TokenInv /\ [Next]_vars => TokenInv'
<1> SUFFICES ASSUME TypeInv, TxInv, TokenInv, [Next]_vars PROVE TokenInv'
  OBVIOUS
<1>1. CASE UNCHANGED vars
  BY <1>1 DEF vars, TokenInv, Live
<1>2. ASSUME NEW r \in Requests, TransactStep(r) PROVE TokenInv'
  BY <1>2, ParseTokens, LookUpTokens, CheckTokens, ApplyTokens, StampTokens
     DEF TransactStep
<1>3. ASSUME NEW r \in Requests, Step(r) PROVE TokenInv'
  BY <1>2, <1>3, LifeTokens, ItemTokens, TableTokens DEF Step
<1>4. QED
  BY <1>1, <1>3, DoTokens, ReturnTokens, HandleTokens DEF Next

LEMMA InitTokens == Init => TokenInv
BY DEF Init, TokenInv, Applying, EmptyLocal

-----------------------------------------------------------------------------
(* Only a commit, which TokenInv covers, and the tags' update change the   *)
(* committed database.                                                     *)
LEMMA DiskChanges ==
    ASSUME [Next]_vars
    PROVE  disk' = disk \/ \E r \in Requests : Commit(r) \/ UpdateTags(r)
<1>1. ASSUME NEW r \in Requests, ItemStep(r) PROVE disk' = disk
  BY <1>1 DEF ItemStep, LoadItemTable, GetItem, CheckItem, CheckFails, WriteItem,
              Reads, TxReads, InTx, Rollback, db
<1>2. ASSUME NEW r \in Requests, TransactStep(r) PROVE disk' = disk
  BY <1>2 DEF TransactStep, ParseTxItem, LookUpToken, CheckTxItem, ApplyTxItem,
              StampToken, Reads, TxReads, InTx, Rollback, db
<1>3. ASSUME NEW r \in Requests, TableStep(r) PROVE disk' = disk \/ UpdateTags(r)
  BY <1>3 DEF TableStep, InsertRow, CreateData, LoadCreated, DeleteRow, DropData,
              LoadDescribed, CountItems, ListTables, ResolveARN, Reload,
              Reads, InTx, Rollback, db
<1>4. ASSUME NEW r \in Requests, Step(r)
      PROVE  disk' = disk \/ Commit(r) \/ UpdateTags(r)
  BY <1>1, <1>2, <1>3, <1>4 DEF Step, Begin, StatementFails, TxFails, Finish, Rollback, db
<1>5. QED
  BY <1>4 DEF Next, Do, Return, Cancel, Tick, CloseFlag, CloseSql, Crash, Reopen, db, vars

LEMMA LiveTokensStay ==
    ASSUME TypeInv, TokenInv, [Next]_vars, NEW k \in Tokens, Live(k)
    PROVE  disk'.tokens[k] = disk.tokens[k]
<1>1. ASSUME NEW r \in Requests, Commit(r) PROVE disk'.tokens[k] = disk.tokens[k]
  BY <1>1 DEF Commit, TokenInv
<1>2. ASSUME NEW r \in Requests, UpdateTags(r) PROVE disk'.tokens = disk.tokens
  <2>1. disk \in Databases
    BY DEF TypeInv, TypeOK
  <2>2. QED
    BY <1>2, <2>1 DEF UpdateTags, Databases
<1>3. QED
  BY <1>1, <1>2, DiskChanges

(* However long transactions wait between reading the clock and purging,   *)
(* whichever fail or are cancelled, and whoever uses the same token, no    *)
(* step drops or replaces a token row inside its window                    *)
(* (ops_transact.go: the cutoff, the purge, the lookup and the stamp).     *)
THEOREM TokenRetainedHolds == Spec => TokenRetained
<1>1. Init => TypeInv /\ TxInv /\ TokenInv
  BY InitTyped, InitTx, InitTokens
<1>2. TypeInv /\ TxInv /\ TokenInv /\ [Next]_vars => TypeInv' /\ TxInv' /\ TokenInv'
  BY NextTyped, NextKeepsTx, NextTokens
<1>3. TypeInv /\ TokenInv /\ [Next]_vars
        => [\A k \in Tokens :
              /\ disk.tokens[k] # NoStamp
              /\ clock <= disk.tokens[k].at + clientTokenTTLSeconds
              => disk'.tokens[k] = disk.tokens[k]]_vars
  BY LiveTokensStay DEF Live
<1>4. QED
  BY <1>1, <1>2, <1>3, PTL DEF Spec, TokenRetained

=============================================================================
