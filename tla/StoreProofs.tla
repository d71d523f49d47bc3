----------------------------- MODULE StoreProofs -----------------------------
(***************************************************************************)
(* What a transaction has done so far, as a function of the committed      *)
(* database it started from; and what follows for the committed database:  *)
(* it stays well formed, sizes stay bounded, protected tables stay, and no *)
(* write is computed from an item that has changed since.                  *)
(***************************************************************************)
EXTENDS DynarProofs, WellFoundedInduction

(* What the parser of a request has established by the time its handler is *)
(* at a step.                                                              *)
Apart(acts, n) == \A i, j \in 1..n : SameTarget(acts[i], acts[j]) => i = j

Parsed(step, in, loc) ==
    /\ step \in {"get"} => in.op = "GetItem"
    /\ step \in {"insertRow", "createData", "created"} => in.op = "CreateTable"
    /\ step \in {"deleteRow", "dropData"} => in.op = "DeleteTable"
    /\ step \in {"describe", "count"} => in.op = "DescribeTable"
    /\ step = "list" => in.op = "ListTables"
    /\ step \in {"resolve", "reload"} =>
          in.op \in {"ListTagsOfResource", "TagResource", "UntagResource"}
    /\ step = "retag" => in.op \in {"TagResource", "UntagResource"}
    /\ /\ step \in {"begin", "check", "write", "commit"}
       /\ in.op \in SingleWrites
       /\ in.acts[1].kind = "Put"
       => Storable(in.acts[1].value)
    /\ step = "load" /\ in.op = "TransactWriteItems" => Apart(in.acts, loc.idx - 1)
    /\ /\ step \in {"begin", "token", "checkAll", "apply", "stamp", "commit"}
       /\ in.op = "TransactWriteItems"
       => Apart(in.acts, Len(in.acts))
    /\ step \in {"load", "begin", "token"} => loc.reasons = <<>> /\ loc.total = 0
    /\ step = "checkAll" => loc.total = 0 /\ Len(loc.reasons) = loc.idx - 1
    /\ step = "apply" => Len(loc.reasons) = Len(in.acts)
    /\ step \in {"check", "write"} => loc.idx = 1
    /\ step = "commit" /\ in.op \in SingleWrites => loc.idx = 1

ParsedInv == \A r \in Requests : Parsed(pc[r], input[r], local[r])

-----------------------------------------------------------------------------
(* An item that may be stored, or none.                                    *)
Admissible(item) == item = NoItem \/ Storable(item)

(* No two acts write to one row: the targets are apart, and no two of      *)
(* their tables' names are one name to SQLite.                             *)
RowsApart(acts) ==
    \A i, j \in 1..Len(acts) :
        /\ DataTable[acts[i].table] = DataTable[acts[j].table]
        /\ acts[i].key = acts[j].key
        => i = j

(* The checks of a single-item write have passed on what is committed.     *)
Checked(r) ==
    LET old == Cell(disk, Act(r)) IN
    /\ Exists(disk, Act(r))
    /\ local[r].olds[1] = old
    /\ Holds[Act(r).cond][old] = "yes"
    /\ Act(r).kind = "Update" => Storable(NewItem(Act(r), old))

(* The first n items of a transaction have been read.                      *)
ReadUpTo(r, n) ==
    \A i \in 1..n :
        LET act == input[r].acts[i] IN
        /\ Exists(disk, act)
        /\ local[r].olds[i] = Cell(disk, act)
        /\ Holds[act.cond][local[r].olds[i]] # "error"
        /\ local[r].reasons[i] = Reason(act, local[r].olds[i])

(* All of them have been read, and no condition failed.                    *)
Tested(r) ==
    /\ ReadUpTo(r, ActCount(r))
    /\ \A i \in 1..ActCount(r) : local[r].reasons[i] = "None"

Counts(r) ==
    [i \in 1..ActCount(r) |-> CountedSize(input[r].acts[i], local[r].olds[i])]

(* The first n items of a transaction are applied: each passed its limits, *)
(* and work differs from disk in their rows only.                          *)
WrittenUpTo(r, n) ==
    LET acts == input[r].acts
        olds == local[r].olds
    IN
    /\ local[r].total = SumUpTo(Counts(r), n)
    /\ \A i \in 1..n :
          /\ acts[i].kind \in {"Put", "Update"} => Storable(NewItem(acts[i], olds[i]))
          /\ SumUpTo(Counts(r), i) <= maxTransactTotalBytes
    /\ \A t \in SqlNames, k \in Keys :
          \/ work.data[t][k] = disk.data[t][k]
          \/ /\ t \in disk.backing
             /\ Admissible(work.data[t][k])
             /\ \E i \in 1..n : DataTable[acts[i].table] = t /\ acts[i].key = k
    /\ RowsApart(acts) =>
          \A i \in 1..n : Cell(work, acts[i]) = NewItem(acts[i], olds[i])

(* A transaction's token is free, and the expired ones are gone.           *)
TokenFree(r) ==
    Token(r) # NoToken => Purge(disk.tokens, local[r].now)[Token(r)] = NoStamp

Purged(r) ==
    /\ work.catalog = disk.catalog
    /\ work.backing = disk.backing
    /\ work.tokens = Purge(disk.tokens, local[r].now)
    /\ TokenFree(r)

(* What a request is about to commit.                                      *)
Created(r) ==
    /\ disk.catalog[Table(r)] = NoRow
    /\ DataTable[Table(r)] \notin disk.backing
    /\ work = [SetRow(disk, Table(r), input[r].row)
                  EXCEPT !.backing = @ \union {DataTable[Table(r)]}]

Deleted(r) ==
    /\ disk.catalog[Table(r)] # NoRow
    /\ Deletable(disk.catalog[Table(r)])
    /\ work = [SetRow(disk, Table(r), NoRow)
                  EXCEPT !.backing = @ \ {DataTable[Table(r)]},
                         !.data[DataTable[Table(r)]] = [k \in Keys |-> NoItem]]

Replaced(r) ==
    /\ Checked(r)
    /\ work = SetCell(disk, Act(r), NewItem(Act(r), Cell(disk, Act(r))))

Replayed(r) ==
    /\ Token(r) # NoToken
    /\ work = [disk EXCEPT !.tokens = Purge(disk.tokens, local[r].now)]
    /\ work.tokens[Token(r)] # NoStamp
    /\ SameRequest(work.tokens[Token(r)], r)

Stamped(r) ==
    LET kept == Purge(disk.tokens, local[r].now) IN
    IF Token(r) = NoToken THEN work.tokens = kept
    ELSE \E at \in 0..clock :
            work.tokens = [kept EXCEPT ![Token(r)] = [request |-> input[r], at |-> at]]

Transacted(r) ==
    /\ work.catalog = disk.catalog
    /\ work.backing = disk.backing
    /\ TokenFree(r)
    /\ Stamped(r)
    /\ Tested(r)
    /\ WrittenUpTo(r, ActCount(r))

Complete(r) ==
    CASE Op(r) \in SingleWrites         -> Replaced(r)
      [] Op(r) = "TransactWriteItems"   -> Replayed(r) \/ Transacted(r)
      [] Op(r) = "CreateTable"          -> Created(r)
      [] OTHER                          -> Deleted(r)

Progress(r) ==
    /\ pc[r] \in {"check", "token", "insertRow", "deleteRow"} => work = disk
    /\ pc[r] = "write" => work = disk /\ Checked(r)
    /\ pc[r] = "checkAll" =>
          Purged(r) /\ work.data = disk.data /\ ReadUpTo(r, local[r].idx - 1)
    /\ pc[r] = "apply" => Purged(r) /\ Tested(r) /\ WrittenUpTo(r, local[r].idx - 1)
    /\ pc[r] = "stamp" => Purged(r) /\ Tested(r) /\ WrittenUpTo(r, ActCount(r))
    /\ pc[r] = "createData" =>
          /\ disk.catalog[Table(r)] = NoRow
          /\ work = SetRow(disk, Table(r), input[r].row)
    /\ pc[r] = "dropData" =>
          /\ disk.catalog[Table(r)] # NoRow
          /\ Deletable(disk.catalog[Table(r)])
          /\ work = SetRow(disk, Table(r), NoRow)
    /\ pc[r] = "commit" => Complete(r)

ProgressInv == \A r \in Requests : Progress(r)

-----------------------------------------------------------------------------
(* What the steps of a handler do to the variables of the requests         *)

(* Requests other than r keep their place and their variables.             *)
Others(r) ==
    \A q \in Requests \ {r} :
        pc'[q] = pc[q] /\ input'[q] = input[q] /\ local'[q] = local[q]

LEMMA MovesAlone ==
    ASSUME TypeInv, NEW r \in Requests,
           (\E step : Goto(r, step)) \/ (\E answer : AnswerWith(r, answer)),
           local' = local \/ \E loc : local' = [local EXCEPT ![r] = loc]
    PROVE  Others(r)
BY DEF Others, Goto, AnswerWith, TypeInv, TypeOK

(* r's step answers, or goes on to another step of its handler; only the   *)
(* loops over the items of a transaction, the read of an item and the      *)
(* second load of the tag operations change a local variable.              *)
LEMMA ItemAlone ==
    ASSUME TypeInv, NEW r \in Requests, ItemStep(r)
    PROVE  Others(r)
<1>1. CASE LoadItemTable(r) \/ GetItem(r) \/ CheckFails(r) \/ WriteItem(r)
  BY <1>1, MovesAlone DEF LoadItemTable, GetItem, CheckFails, WriteItem, Rollback, Answer
<1>2. CASE CheckItem(r)
  BY <1>2, MovesAlone DEF CheckItem
<1>3. QED
  BY <1>1, <1>2 DEF ItemStep

LEMMA TransactAlone ==
    ASSUME TypeInv, NEW r \in Requests, TransactStep(r)
    PROVE  Others(r)
<1>1. CASE ParseTxItem(r)
  BY <1>1, MovesAlone DEF ParseTxItem, Answer
<1>2. CASE LookUpToken(r) \/ StampToken(r)
  BY <1>2, MovesAlone DEF LookUpToken, StampToken, Rollback, Answer
<1>3. CASE CheckTxItem(r)
  BY <1>3, MovesAlone DEF CheckTxItem, Rollback, Answer
<1>4. CASE ApplyTxItem(r)
  BY <1>4, MovesAlone DEF ApplyTxItem, Rollback
<1>5. QED
  BY <1>1, <1>2, <1>3, <1>4 DEF TransactStep

LEMMA TableAlone ==
    ASSUME TypeInv, NEW r \in Requests, TableStep(r)
    PROVE  Others(r)
<1>1. CASE InsertRow(r) \/ CreateData(r) \/ DeleteRow(r) \/ DropData(r)
  BY <1>1, MovesAlone DEF InsertRow, CreateData, DeleteRow, DropData, Rollback, Answer
<1>2. CASE LoadCreated(r) \/ LoadDescribed(r) \/ CountItems(r) \/ ListTables(r)
             \/ ResolveARN(r) \/ UpdateTags(r)
  BY <1>2, MovesAlone DEF LoadCreated, LoadDescribed, CountItems, ListTables,
                          ResolveARN, UpdateTags, Answer
<1>3. CASE Reload(r)
  BY <1>3, MovesAlone DEF Reload, Answer
<1>4. QED
  BY <1>1, <1>2, <1>3 DEF TableStep

LEMMA StepAlone ==
    ASSUME TypeInv, NEW r \in Requests, Step(r)
    PROVE  Others(r)
<1>1. CASE Begin(r) \/ Commit(r) \/ StatementFails(r) \/ TxFails(r)
  BY <1>1, MovesAlone DEF Begin, Commit, StatementFails, TxFails, Rollback, Answer
<1>2. CASE Finish(r)
  BY <1>2 DEF Finish, Others, TypeInv, TypeOK
<1>3. QED
  BY <1>1, <1>2, ItemAlone, TransactAlone, TableAlone DEF Step

LEMMA CallAlone ==
    ASSUME TypeInv, NEW r \in Requests,
           (\E in \in Inputs : Do(r, in)) \/ Return(r) \/ Cancel(r)
    PROVE  Others(r)
BY DEF Do, Return, Cancel, task, Others, TypeInv, TypeOK

-----------------------------------------------------------------------------
(* What the steps that change local variables leave in them                *)

SameInput(r) == input'[r] = input[r]

LEMMA CheckItemEffect ==
    ASSUME TypeInv, NEW r \in Requests, CheckItem(r)
    PROVE  /\ pc[r] = "check" /\ pc'[r] = "write" /\ SameInput(r)
           /\ local'[r].olds = <<Cell(work, Act(r))>>
           /\ local'[r].idx = local[r].idx
<1>1. local[r] \in Locals /\ pc \in [Requests -> Steps] /\ local \in [Requests -> Locals]
  BY DEF TypeInv, TypeOK
<1>2. local'[r] = [local[r] EXCEPT !.olds = <<Cell(work, Act(r))>>]
  BY <1>1 DEF CheckItem
<1>3. local'[r].olds = <<Cell(work, Act(r))>> /\ local'[r].idx = local[r].idx
  BY <1>1, <1>2 DEF Locals
<1>4. QED
  BY <1>1, <1>3 DEF CheckItem, Goto, SameInput

LEMMA ParseEffect ==
    ASSUME TypeInv, NEW r \in Requests, ParseTxItem(r)
    PROVE  /\ pc[r] = "load" /\ Op(r) = "TransactWriteItems" /\ SameInput(r)
           /\ \/ pc'[r] = "answered"
              \/ /\ ~RepeatsTarget(r)
                 /\ local'[r].reasons = local[r].reasons
                 /\ local'[r].total = local[r].total
                 /\ \/ pc'[r] = "load" /\ local'[r].idx = local[r].idx + 1
                    \/ /\ pc'[r] = "begin" /\ local'[r].idx = 1
                       /\ local[r].idx = ActCount(r)
<1> USE DEF SameInput
<1>1. local[r] \in Locals /\ pc \in [Requests -> Steps] /\ local \in [Requests -> Locals]
  BY DEF TypeInv, TypeOK
<1>2. pc[r] = "load" /\ Op(r) = "TransactWriteItems"
  BY DEF ParseTxItem
<1>3. CASE \E code : Answer(r, code)
  BY <1>1, <1>2, <1>3 DEF Answer, AnswerWith
<1>4. CASE /\ ~RepeatsTarget(r)
           /\ local' = [local EXCEPT ![r].idx = local[r].idx + 1]
           /\ Goto(r, "load")
  <2>1. local'[r] = [local[r] EXCEPT !.idx = local[r].idx + 1]
    BY <1>1, <1>4
  <2>2. /\ local'[r].reasons = local[r].reasons /\ local'[r].total = local[r].total
        /\ local'[r].idx = local[r].idx + 1
    BY <1>1, <2>1 DEF Locals
  <2>3. QED
    BY <1>1, <1>2, <1>4, <2>2 DEF Goto
<1>5. CASE /\ ~RepeatsTarget(r) /\ local[r].idx = ActCount(r)
           /\ local' = [local EXCEPT ![r].idx = 1, ![r].now = clock]
           /\ Goto(r, "begin")
  <2>1. local'[r] = [local[r] EXCEPT !.idx = 1, !.now = clock]
    BY <1>1, <1>5
  <2>2. /\ local'[r].reasons = local[r].reasons /\ local'[r].total = local[r].total
        /\ local'[r].idx = 1
    BY <1>1, <2>1 DEF Locals
  <2>3. QED
    BY <1>1, <1>2, <1>5, <2>2 DEF Goto
<1>6. QED
  BY <1>3, <1>4, <1>5 DEF ParseTxItem

(* An item of a transaction is read and its condition noted, or the        *)
(* transaction is over.                                                    *)
ChecksOn(r) ==
    LET old == Cell(work, Act(r)) IN
    /\ conn = r
    /\ UNCHANGED <<disk, work, clock>>
    /\ Exists(work, Act(r)) /\ Holds[Act(r).cond][old] # "error"
    /\ local'[r].olds = Append(local[r].olds, old)
    /\ local'[r].reasons = Append(local[r].reasons, Reason(Act(r), old))
    /\ local'[r].total = local[r].total
    /\ local'[r].now = local[r].now
    /\ IF local[r].idx = ActCount(r)
       THEN pc'[r] = "apply" /\ local'[r].idx = 1 /\ ~Failed(local'[r].reasons)
       ELSE pc'[r] = "checkAll" /\ local'[r].idx = local[r].idx + 1

LEMMA CheckTxEffect ==
    ASSUME TypeInv, NEW r \in Requests, CheckTxItem(r)
    PROVE  /\ pc[r] = "checkAll" /\ SameInput(r)
           /\ (Rollback(r) /\ \E answer : AnswerWith(r, answer)) \/ ChecksOn(r)
<1> DEFINE old == Cell(work, Act(r))
           reasons == Append(local[r].reasons, Reason(Act(r), old))
           last == local[r].idx = ActCount(r)
<1>1. local[r] \in Locals /\ pc \in [Requests -> Steps] /\ local \in [Requests -> Locals]
  BY DEF TypeInv, TypeOK
<1>2. pc[r] = "checkAll"
  BY DEF CheckTxItem
<1>3. CASE Rollback(r) /\ \E answer : AnswerWith(r, answer)
  BY <1>1, <1>2, <1>3 DEF AnswerWith, SameInput
<1>4. CASE /\ Exists(work, Act(r)) /\ Holds[Act(r).cond][old] # "error"
           /\ ~(last /\ Failed(reasons))
           /\ TxReads(r)
           /\ local' = [local EXCEPT ![r].idx = IF last THEN 1 ELSE @ + 1,
                                     ![r].olds = Append(@, old),
                                     ![r].reasons = reasons]
           /\ Goto(r, IF last THEN "apply" ELSE "checkAll")
  <2>1. local'[r] = [local[r] EXCEPT !.idx = IF last THEN 1 ELSE @ + 1,
                                     !.olds = Append(@, old),
                                     !.reasons = reasons]
    BY <1>1, <1>4
  <2>2. /\ local'[r].olds = Append(local[r].olds, old)
        /\ local'[r].reasons = reasons
        /\ local'[r].idx = IF last THEN 1 ELSE local[r].idx + 1
        /\ local'[r].total = local[r].total
        /\ local'[r].now = local[r].now
    BY <1>1, <2>1 DEF Locals
  <2>3. pc'[r] = (IF last THEN "apply" ELSE "checkAll") /\ SameInput(r)
    BY <1>1, <1>4 DEF Goto, SameInput
  <2>4. conn = r /\ UNCHANGED <<disk, work, clock>>
    BY <1>4 DEF TxReads, InTx
  <2> HIDE DEF old, reasons
  <2>5. IF last
        THEN pc'[r] = "apply" /\ local'[r].idx = 1 /\ ~Failed(local'[r].reasons)
        ELSE pc'[r] = "checkAll" /\ local'[r].idx = local[r].idx + 1
    BY <1>4, <2>2, <2>3
  <2>6. QED
    BY <1>2, <1>4, <2>2, <2>3, <2>4, <2>5 DEF ChecksOn, old, reasons
<1>5. QED
  BY <1>3, <1>4 DEF CheckTxItem, Answer

(* An item of a transaction passes its limits and is applied, or the       *)
(* transaction is over.                                                    *)
AppliesOn(r) ==
    LET act   == Act(r)
        i     == local[r].idx
        old   == local[r].olds[i]
        new   == NewItem(act, old)
        total == local[r].total + CountedSize(act, old)
    IN
    /\ conn = r
    /\ UNCHANGED <<disk, clock>>
    /\ act.kind \in {"Put", "Update"} => Storable(new)
    /\ total <= maxTransactTotalBytes
    /\ work' = IF Writes(act) THEN SetCell(work, act, new) ELSE work
    /\ local'[r].total = total
    /\ local'[r].olds = local[r].olds
    /\ local'[r].reasons = local[r].reasons
    /\ local'[r].now = local[r].now
    /\ \/ i < ActCount(r) /\ pc'[r] = "apply" /\ local'[r].idx = i + 1
       \/ ~(i < ActCount(r)) /\ Token(r) # NoToken /\ pc'[r] = "stamp"
       \/ ~(i < ActCount(r)) /\ Token(r) = NoToken /\ pc'[r] = "commit"

LEMMA ApplyEffect ==
    ASSUME TypeInv, NEW r \in Requests, ApplyTxItem(r)
    PROVE  /\ pc[r] = "apply" /\ SameInput(r)
           /\ (Rollback(r) /\ \E answer : AnswerWith(r, answer)) \/ AppliesOn(r)
<1> DEFINE act   == Act(r)
           i     == local[r].idx
           old   == local[r].olds[i]
           new   == NewItem(act, old)
           total == local[r].total + CountedSize(act, old)
           next  == IF i < ActCount(r) THEN i + 1 ELSE i
           valid == /\ act.kind \in {"Put", "Update"} => Storable(new)
                    /\ total <= maxTransactTotalBytes
           step  == CASE i < ActCount(r) -> "apply"
                      [] i = ActCount(r) /\ Token(r) # NoToken -> "stamp"
                      [] OTHER -> "commit"
<1>1. local[r] \in Locals /\ pc \in [Requests -> Steps] /\ local \in [Requests -> Locals]
  BY DEF TypeInv, TypeOK
<1>2. pc[r] = "apply" /\ i \in 1..ActCount(r) /\ ActCount(r) \in Nat
  BY AtAct DEF ApplyTxItem, ItemSteps
<1>3. CASE Rollback(r) /\ \E answer : AnswerWith(r, answer)
  BY <1>1, <1>2, <1>3 DEF AnswerWith, SameInput
<1>4. CASE /\ valid /\ conn = r /\ UNCHANGED <<disk, clock>>
           /\ work' = IF Writes(act) THEN SetCell(work, act, new) ELSE work
           /\ local' = [local EXCEPT ![r].total = total, ![r].idx = next]
           /\ Goto(r, step)
  <2>1. local'[r] = [local[r] EXCEPT !.total = total, !.idx = next]
    BY <1>1, <1>4
  <2> HIDE DEF total, next
  <2>2. /\ local'[r].total = total /\ local'[r].idx = next
        /\ local'[r].olds = local[r].olds /\ local'[r].reasons = local[r].reasons
        /\ local'[r].now = local[r].now
    BY <1>1, <2>1 DEF Locals
  <2>3. pc'[r] = step /\ SameInput(r)
    BY <1>1, <1>4 DEF Goto, SameInput
  <2>4. \/ i < ActCount(r) /\ pc'[r] = "apply" /\ local'[r].idx = i + 1
        \/ ~(i < ActCount(r)) /\ Token(r) # NoToken /\ pc'[r] = "stamp"
        \/ ~(i < ActCount(r)) /\ Token(r) = NoToken /\ pc'[r] = "commit"
    BY <1>2, <2>2, <2>3 DEF next
  <2>5. QED
    BY <1>2, <1>4, <2>2, <2>3, <2>4 DEF AppliesOn, total
<1>5. QED
  BY <1>3, <1>4 DEF ApplyTxItem

-----------------------------------------------------------------------------
(* Parsed, from step to step                                               *)

LEMMA ParsedFromOne ==
    ASSUME ParsedInv, NEW r \in Requests, Others(r), Parsed(pc'[r], input'[r], local'[r])
    PROVE  ParsedInv'
BY DEF ParsedInv, Others

LEMMA AnswerParsed ==
    ASSUME TypeInv, ParsedInv, NEW r \in Requests, Others(r),
           \E answer : AnswerWith(r, answer)
    PROVE  ParsedInv'
<1>1. pc'[r] = "answered"
  BY DEF AnswerWith, TypeInv, TypeOK
<1>2. QED
  BY <1>1, ParsedFromOne DEF Parsed

(* A step to another step of the handler that keeps the local variables.   *)
LEMMA GotoParsed ==
    ASSUME TypeInv, ParsedInv, NEW r \in Requests, Others(r), NEW step,
           Goto(r, step), UNCHANGED local,
           Parsed(pc[r], input[r], local[r]) => Parsed(step, input[r], local[r])
    PROVE  ParsedInv'
<1>1. pc'[r] = step /\ input'[r] = input[r] /\ local'[r] = local[r]
  BY DEF Goto, TypeInv, TypeOK
<1>2. QED
  BY <1>1, ParsedFromOne DEF ParsedInv

LEMMA CallParsed ==
    ASSUME TypeInv, ParsedInv, NEW r \in Requests,
           (\E in \in Inputs : Do(r, in)) \/ Return(r) \/ Cancel(r)
    PROVE  ParsedInv'
<1>1. Others(r)
  BY CallAlone
<1>2. ASSUME NEW in \in Inputs, Do(r, in) PROVE ParsedInv'
  <2>1. pc[r] = "idle" /\ local'[r] = local[r] /\ input'[r] = in
    BY <1>2 DEF Do, TypeInv, TypeOK
  <2>2. local[r] = EmptyLocal
    BY <2>1 DEF TypeInv, ControlOK, Control
  <2>3. pc'[r] \in {FirstStep(in), "done"}
    BY <1>2 DEF Do, TypeInv, TypeOK
  <2>4. /\ local'[r].idx = 1 /\ local'[r].reasons = <<>> /\ local'[r].total = 0
    BY <2>1, <2>2 DEF EmptyLocal
  <2>6. in.op \in ItemOpNames \union TableOpNames
    BY InputTyped, InputsAssumption DEF Inputs
  <2>7. CASE pc'[r] = "done"
    BY <1>1, <2>7, ParsedFromOne DEF Parsed
  <2>8. CASE pc'[r] = FirstStep(in)
    <3>1. Parsed(pc'[r], in, local'[r])
      <4>1. CASE in.op \in ItemOpNames
        <5>1. pc'[r] = "load"
          BY <2>8, <4>1 DEF FirstStep, ItemOpNames
        <5>2. Apart(in.acts, 0)
          BY DEF Apart
        <5>3. local'[r].idx - 1 = 0
          BY <2>4
        <5>4. QED
          BY <2>4, <5>1, <5>2, <5>3 DEF Parsed
      <4>2. CASE in.op \in TableOpNames
        <5>1. in.op \notin ItemOpNames
          BY <4>2 DEF ItemOpNames, TableOpNames
        <5>2. \/ pc'[r] = "begin" /\ in.op \in {"CreateTable", "DeleteTable"}
              \/ pc'[r] = "describe" /\ in.op = "DescribeTable"
              \/ pc'[r] = "list" /\ in.op = "ListTables"
              \/ /\ pc'[r] = "resolve"
                 /\ in.op \in {"ListTagsOfResource", "TagResource", "UntagResource"}
          BY <2>8, <4>2, <5>1 DEF FirstStep, TableOpNames
        <5>3. QED
          BY <2>4, <5>2 DEF Parsed, SingleWrites
      <4>3. QED
        BY <2>6, <4>1, <4>2
    <3>2. QED
      BY <1>1, <2>1, <3>1, ParsedFromOne
  <2>9. QED
    BY <2>3, <2>7, <2>8
<1>3. CASE Return(r)
  BY <1>1, <1>3, ParsedFromOne DEF Return, Parsed, TypeInv, TypeOK
<1>4. CASE Cancel(r)
  BY <1>4 DEF Cancel, task, ParsedInv
<1>5. QED
  BY <1>2, <1>3, <1>4

LEMMA LifeParsed ==
    ASSUME TypeInv, ParsedInv, NEW r \in Requests, Others(r),
           Begin(r) \/ Commit(r) \/ StatementFails(r) \/ TxFails(r) \/ Finish(r)
    PROVE  ParsedInv'
<1>1. CASE Begin(r)
  <2>1. local[r].idx = 1 /\ Op(r) = input[r].op
    BY <1>1 DEF Begin, TypeInv, ControlOK, Control, Op
  <2>2. Op(r) \in SingleWrites \union {"TransactWriteItems", "CreateTable", "DeleteTable"}
    <3>1. input[r] \in Inputs
      BY <1>1 DEF Begin, TypeInv, ControlOK, Control
    <3>2. Op(r) \in ItemOpNames \union TableOpNames
      BY <2>1, <3>1, InputTyped, InputsAssumption DEF Inputs
    <3>3. QED
      BY <1>1, <3>2 DEF Begin, TypeInv, ControlOK, Control, Op, ItemOpNames,
                        TableOpNames, SingleWrites
  <2>3. ASSUME Parsed("begin", input[r], local[r])
        PROVE  Parsed(FirstTxStep(Op(r)), input[r], local[r])
    BY <2>1, <2>2, <2>3 DEF Parsed, FirstTxStep, SingleWrites
  <2>4. QED
    BY <1>1, <2>3, GotoParsed DEF Begin
<1>2. CASE Commit(r)
  <2>1. CASE \E answer : AnswerWith(r, answer)
    BY <2>1, AnswerParsed
  <2>2. CASE Op(r) = "CreateTable" /\ Goto(r, "created") /\ UNCHANGED local
    BY <2>2, GotoParsed DEF Parsed, Op
  <2>3. QED
    BY <1>2, <2>1, <2>2 DEF Commit, Answer
<1>3. CASE StatementFails(r) \/ TxFails(r)
  BY <1>3, AnswerParsed DEF StatementFails, TxFails, Answer
<1>4. CASE Finish(r)
  BY <1>4, ParsedFromOne DEF Finish, Parsed, TypeInv, TypeOK
<1>5. QED
  BY <1>1, <1>2, <1>3, <1>4

LEMMA ItemParsed ==
    ASSUME TypeInv, ParsedInv, NEW r \in Requests, Others(r), ItemStep(r)
    PROVE  ParsedInv'
<1>1. CASE \E answer : AnswerWith(r, answer)
  BY <1>1, AnswerParsed
<1>2. CASE LoadItemTable(r) /\ UNCHANGED local /\ Accepts(disk.catalog[Act(r).table], Act(r))
           /\ Goto(r, IF Op(r) = "GetItem" THEN "get" ELSE "begin")
  <2>1. Act(r) = input[r].acts[1] /\ Op(r) \in SingleWrites \union {"GetItem"}
    <3>1. Op(r) \in SingleWrites \union {"GetItem"} /\ pc[r] \in ItemSteps
      BY <1>2 DEF LoadItemTable, ItemSteps
    <3>2. Len(input[r].acts) = 1
      BY <3>1, AtAct, InputsAssumption DEF Op, SingleWrites
    <3>3. QED
      BY <3>1, <3>2, AtAct DEF Act, ActCount
  <2>2. Act(r).kind = "Put" => Storable(Act(r).value)
    BY <1>2 DEF Accepts
  <2>3. pc[r] = "load"
    BY <1>2 DEF LoadItemTable
  <2>4. CASE Op(r) = "GetItem"
    BY <1>2, <2>4, GotoParsed DEF Parsed, Op
  <2>5. CASE Op(r) # "GetItem"
    BY <1>2, <2>1, <2>2, <2>3, <2>5, GotoParsed DEF Parsed, Op, SingleWrites
  <2>6. QED
    BY <2>4, <2>5
<1>3. CASE CheckItem(r)
  BY <1>3, CheckItemEffect, ParsedFromOne DEF Parsed, ParsedInv, SameInput
<1>4. CASE WriteItem(r)
  <2>1. pc[r] = "write" /\ input[r].op \in SingleWrites
    BY <1>4 DEF WriteItem, TypeInv, ControlOK, Control
  <2>2. QED
    BY <1>4, <2>1, GotoParsed DEF WriteItem, Parsed, SingleWrites
<1>5. QED
  BY <1>1, <1>2, <1>3, <1>4 DEF ItemStep, LoadItemTable, GetItem, CheckFails, Answer

LEMMA TransactParsed ==
    ASSUME TypeInv, ParsedInv, NEW r \in Requests, Others(r), TransactStep(r)
    PROVE  ParsedInv'
<1>1. CASE \E answer : AnswerWith(r, answer)
  BY <1>1, AnswerParsed
<1>2. CASE ParseTxItem(r) /\ pc'[r] # "answered"
  <2> DEFINE acts == input[r].acts
             i == local[r].idx
  <2>1. /\ pc[r] = "load" /\ input[r].op = "TransactWriteItems" /\ input'[r] = input[r]
        /\ ~RepeatsTarget(r)
        /\ local'[r].reasons = local[r].reasons /\ local'[r].total = local[r].total
        /\ \/ pc'[r] = "load" /\ local'[r].idx = i + 1
           \/ pc'[r] = "begin" /\ local'[r].idx = 1 /\ i = Len(acts)
    BY <1>2, ParseEffect DEF SameInput, Op, ActCount
  <2>2. i \in 1..Len(acts) /\ Len(acts) \in Nat
    BY <2>1, AtAct DEF ItemSteps, ActCount
  <2>3. Parsed("load", input[r], local[r])
    BY <2>1 DEF ParsedInv
  <2>4. Apart(acts, i)
    <3>1. Apart(acts, i - 1)
      BY <2>1, <2>3 DEF Parsed
    <3>2. \A j \in 1..(i - 1) : ~SameTarget(acts[j], acts[i])
      BY <2>1 DEF RepeatsTarget, TransactItems, Act
    <3>3. QED
      BY <2>2, <3>1, <3>2, SMTT(60) DEF Apart, SameTarget
  <2>5. CASE pc'[r] = "load" /\ local'[r].idx = i + 1
    <3>1. local'[r].idx - 1 = i
      BY <2>2, <2>5
    <3>2. Parsed("load", input[r], local'[r])
      BY <2>1, <2>3, <2>4, <3>1 DEF Parsed
    <3>3. QED
      BY <2>1, <2>5, <3>2, ParsedFromOne
  <2>6. CASE pc'[r] = "begin" /\ local'[r].idx = 1 /\ i = Len(acts)
    <3>1. Parsed("begin", input[r], local'[r])
      BY <2>1, <2>3, <2>4, <2>6 DEF Parsed, SingleWrites
    <3>2. QED
      BY <2>1, <2>6, <3>1, ParsedFromOne
  <2>7. QED
    BY <2>1, <2>5, <2>6
<1>3. CASE LookUpToken(r) /\ UNCHANGED local /\ (Goto(r, "checkAll") \/ Goto(r, "commit"))
  <2>1. pc[r] = "token" /\ input[r].op = "TransactWriteItems" /\ local[r].idx = 1
    BY <1>3 DEF LookUpToken, TypeInv, ControlOK, Control
  <2>2. QED
    BY <1>3, <2>1, GotoParsed DEF Parsed, SingleWrites
<1>4. CASE CheckTxItem(r) /\ ChecksOn(r)
  <2>1. pc[r] = "checkAll" /\ input'[r] = input[r] /\ ChecksOn(r)
    BY <1>4, CheckTxEffect DEF SameInput
  <2>2. input[r].op = "TransactWriteItems" /\ local[r].reasons \in Seq(Reasons)
    BY <2>1, AtTx
  <2>3. local[r].idx \in 1..Len(input[r].acts) /\ Len(input[r].acts) \in Nat
    BY <2>1, AtAct DEF ItemSteps, ActCount
  <2>4. Parsed("checkAll", input[r], local[r])
    BY <2>1 DEF ParsedInv
  <2>5. Len(local[r].reasons) = local[r].idx - 1 /\ Apart(input[r].acts, Len(input[r].acts))
    BY <2>2, <2>4 DEF Parsed
  <2>6. Len(local'[r].reasons) = local[r].idx
    BY <2>1, <2>2, <2>3, <2>5 DEF ChecksOn
  <2>7. CASE local[r].idx = ActCount(r)
    BY <2>1, <2>2, <2>5, <2>6, <2>7, ParsedFromOne DEF ChecksOn, Parsed, ActCount, SingleWrites
  <2>8. CASE local[r].idx # ActCount(r)
    <3>1. Parsed("checkAll", input[r], local'[r])
      BY <2>1, <2>2, <2>3, <2>4, <2>5, <2>6, <2>8 DEF ChecksOn, Parsed
    <3>2. QED
      BY <2>1, <2>8, <3>1, ParsedFromOne DEF ChecksOn
  <2>9. QED
    BY <2>7, <2>8
<1>5. CASE ApplyTxItem(r) /\ AppliesOn(r)
  <2>1. pc[r] = "apply" /\ input'[r] = input[r] /\ AppliesOn(r)
    BY <1>5, ApplyEffect DEF SameInput
  <2>2. input[r].op = "TransactWriteItems"
    BY <2>1, AtTx
  <2>3. Parsed("apply", input[r], local[r])
    BY <2>1 DEF ParsedInv
  <2>4. pc'[r] \in {"apply", "stamp", "commit"} /\ local'[r].reasons = local[r].reasons
    BY <2>1 DEF AppliesOn
  <2>5. Parsed(pc'[r], input[r], local'[r])
    BY <2>2, <2>3, <2>4 DEF Parsed, SingleWrites
  <2>6. QED
    BY <2>1, <2>5, ParsedFromOne
<1>6. CASE StampToken(r)
  <2>1. pc[r] = "stamp" /\ input[r].op = "TransactWriteItems"
    BY <1>6 DEF StampToken, TypeInv, ControlOK, Control
  <2>2. QED
    BY <1>6, <2>1, GotoParsed DEF StampToken, Parsed, SingleWrites
<1>7. QED
  <2>1. CASE ParseTxItem(r)
    BY <1>1, <1>2, <2>1 DEF ParseTxItem, Answer, Goto, TypeInv, TypeOK
  <2>2. CASE LookUpToken(r)
    BY <1>1, <1>3, <2>2 DEF LookUpToken, Answer
  <2>3. CASE CheckTxItem(r)
    BY <1>1, <1>4, <2>3, CheckTxEffect
  <2>4. CASE ApplyTxItem(r)
    BY <1>1, <1>5, <2>4, ApplyEffect
  <2>5. QED
    BY <1>6, <2>1, <2>2, <2>3, <2>4 DEF TransactStep

LEMMA TableParsed ==
    ASSUME TypeInv, ParsedInv, NEW r \in Requests, Others(r), TableStep(r)
    PROVE  ParsedInv'
<1>1. CASE \E answer : AnswerWith(r, answer)
  BY <1>1, AnswerParsed
<1>2. CASE InsertRow(r) /\ Goto(r, "createData") /\ UNCHANGED local
  <2>1. pc[r] = "insertRow"
    BY <1>2 DEF InsertRow
  <2>2. QED
    BY <1>2, <2>1, GotoParsed DEF Parsed
<1>3. CASE CreateData(r) /\ Goto(r, "commit") /\ UNCHANGED local
  <2>1. pc[r] = "createData"
    BY <1>3 DEF CreateData
  <2>2. QED
    BY <1>3, <2>1, GotoParsed DEF Parsed, SingleWrites
<1>4. CASE DeleteRow(r) /\ Goto(r, "dropData") /\ UNCHANGED local
  <2>1. pc[r] = "deleteRow"
    BY <1>4 DEF DeleteRow
  <2>2. QED
    BY <1>4, <2>1, GotoParsed DEF Parsed
<1>5. CASE DropData(r) /\ Goto(r, "commit") /\ UNCHANGED local
  <2>1. pc[r] = "dropData"
    BY <1>5 DEF DropData
  <2>2. QED
    BY <1>5, <2>1, GotoParsed DEF Parsed, SingleWrites
<1>6. CASE LoadDescribed(r) /\ Goto(r, "count") /\ UNCHANGED local
  <2>1. pc[r] = "describe"
    BY <1>6 DEF LoadDescribed
  <2>2. QED
    BY <1>6, <2>1, GotoParsed DEF Parsed
<1>7. CASE ResolveARN(r) /\ Goto(r, "reload") /\ UNCHANGED local
  <2>1. pc[r] = "resolve"
    BY <1>7 DEF ResolveARN
  <2>2. QED
    BY <1>7, <2>1, GotoParsed DEF Parsed
<1>8. CASE Reload(r) /\ Op(r) # "ListTagsOfResource" /\ Goto(r, "retag")
  <2>1. pc[r] = "reload" /\ pc'[r] = "retag" /\ input'[r] = input[r]
    BY <1>8 DEF Reload, Goto, TypeInv, TypeOK
  <2>2. Op(r) \in {"TagResource", "UntagResource"}
    BY <1>8, <2>1 DEF ParsedInv, Parsed, Op
  <2>3. QED
    BY <2>1, <2>2, ParsedFromOne DEF Parsed, Op
<1>9. QED
  <2>1. CASE InsertRow(r) \/ CreateData(r) \/ DeleteRow(r) \/ DropData(r)
    BY <1>1, <1>2, <1>3, <1>4, <1>5, <2>1
       DEF InsertRow, CreateData, DeleteRow, DropData, Answer
  <2>2. CASE LoadDescribed(r) \/ ResolveARN(r) \/ Reload(r)
    BY <1>1, <1>6, <1>7, <1>8, <2>2 DEF LoadDescribed, ResolveARN, Reload, Answer
  <2>3. CASE LoadCreated(r) \/ CountItems(r) \/ ListTables(r) \/ UpdateTags(r)
    BY <1>1, <2>3 DEF LoadCreated, CountItems, ListTables, UpdateTags, Answer
  <2>4. QED
    BY <2>1, <2>2, <2>3 DEF TableStep

LEMMA NextParsed == TypeInv /\ ParsedInv /\ [Next]_vars => ParsedInv'
<1> SUFFICES ASSUME TypeInv, ParsedInv, [Next]_vars PROVE ParsedInv'
  OBVIOUS
<1>1. CASE UNCHANGED vars
  BY <1>1 DEF vars, ParsedInv
<1>2. ASSUME NEW r \in Requests, Step(r) PROVE ParsedInv'
  BY <1>2, StepAlone, LifeParsed, ItemParsed, TransactParsed, TableParsed DEF Step
<1>3. CASE Tick \/ CloseFlag \/ CloseSql \/ Reopen
  BY <1>3 DEF Tick, CloseFlag, CloseSql, Reopen, task, ParsedInv
<1>4. CASE Crash
  BY <1>4 DEF Crash, ParsedInv, Parsed
<1>5. QED
  BY <1>1, <1>2, <1>3, <1>4, CallParsed DEF Next

LEMMA InitParsed == Init => ParsedInv
BY DEF Init, ParsedInv, Parsed

-----------------------------------------------------------------------------
(* Sums.  A set of numbers that is not empty has a least one: that is the  *)
(* induction behind them.                                                  *)
LEMMA Least ==
    ASSUME NEW S \in SUBSET Nat, S # {}
    PROVE  \E i \in S : \A j \in S : i <= j
<1> DEFINE R == OpToRel(<, Nat)
<1>1. \A x, y \in Nat : <<x, y>> \in R <=> x < y
  BY DEF OpToRel
<1>2. IsWellFoundedOn(R, Nat)
  BY NatLessThanWellFounded
<1> HIDE DEF R
<1>3. PICK x \in S : \A y \in S : ~ (<<y, x>> \in R)
  BY <1>2, WFMin
<1>4. ASSUME NEW j \in S PROVE x <= j
  <2>1. x \in Nat /\ j \in Nat
    OBVIOUS
  <2>2. ~(j < x)
    BY <1>1, <1>3, <2>1
  <2>3. QED
    BY <2>1, <2>2
<1>5. QED
  BY <1>4

(* The partial sums of f up to n: the function that SumUpTo evaluates.     *)
IsSum(g, f, n) == g = [i \in 0..n |-> IF i = 0 THEN 0 ELSE g[i - 1] + f[i]]

LEMMA SumExists ==
    ASSUME NEW N \in Nat, NEW f \in [1..N -> Nat], NEW n \in 0..N
    PROVE  \E g \in [0..n -> Nat] : IsSum(g, f, n)
<1> DEFINE S == {m \in 0..N : ~\E g \in [0..m -> Nat] : IsSum(g, f, m)}
<1>1. SUFFICES ASSUME S # {} PROVE FALSE
  <2>1. S = {} => n \notin S
    OBVIOUS
  <2>2. QED
    BY <2>1
<1>2. PICK m \in S : \A j \in S : m <= j
  <2>1. S \in SUBSET Nat
    OBVIOUS
  <2> HIDE DEF S
  <2>2. QED
    BY <1>1, <2>1, Least
<1>3. CASE m = 0
  <2> DEFINE g == [i \in 0..0 |-> 0]
  <2>1. g = [i \in 0..0 |-> IF i = 0 THEN 0 ELSE g[i - 1] + f[i]]
    OBVIOUS
  <2>2. g \in [0..0 -> Nat] /\ IsSum(g, f, 0)
    BY <2>1 DEF IsSum
  <2>3. 0 \in S
    BY <1>2, <1>3
  <2>4. ~\E k \in [0..0 -> Nat] : IsSum(k, f, 0)
    BY <2>3
  <2> HIDE DEF g
  <2>5. QED
    BY <2>2, <2>4
<1>4. CASE m # 0
  <2>1. m \in 0..N
    OBVIOUS
  <2>2. m - 1 \in 0..N
    BY <1>4, <2>1
  <2>3. m - 1 \notin S
    <3> HIDE DEF S
    <3>1. QED
      BY <1>2, <2>1, <2>2
  <2>4. PICK h \in [0..(m - 1) -> Nat] : IsSum(h, f, m - 1)
    BY <2>2, <2>3
  <2> DEFINE g == [i \in 0..m |-> IF i = m THEN h[m - 1] + f[m] ELSE h[i]]
  <2>5. g \in [0..m -> Nat]
    BY <1>4, <2>1, <2>2
  <2>6. ASSUME NEW i \in 0..m PROVE g[i] = IF i = 0 THEN 0 ELSE g[i - 1] + f[i]
    <3>1. CASE i = m
      BY <1>4, <3>1
    <3>2. CASE i # m
      <4>1. i \in 0..(m - 1) /\ g[i] = h[i]
        BY <2>1, <2>2, <3>2
      <4>2. h[i] = IF i = 0 THEN 0 ELSE h[i - 1] + f[i]
        BY <2>4, <4>1 DEF IsSum
      <4>3. i # 0 => g[i - 1] = h[i - 1]
        BY <2>1, <2>2, <4>1
      <4>4. QED
        BY <4>1, <4>2, <4>3
    <3>3. QED
      BY <3>1, <3>2
  <2>7. IsSum(g, f, m)
    BY <2>6 DEF IsSum
  <2>8. QED
    BY <2>5, <2>7
<1>5. QED
  BY <1>3, <1>4

LEMMA SumUnique ==
    ASSUME NEW n \in Nat, NEW f, NEW g, NEW h, IsSum(g, f, n), IsSum(h, f, n)
    PROVE  g = h
<1> DEFINE S == {i \in 0..n : g[i] # h[i]}
<1>1. /\ \A i \in 0..n : g[i] = IF i = 0 THEN 0 ELSE g[i - 1] + f[i]
      /\ \A i \in 0..n : h[i] = IF i = 0 THEN 0 ELSE h[i - 1] + f[i]
  BY DEF IsSum
<1>2. S = {}
  <2> SUFFICES ASSUME S # {} PROVE FALSE
    OBVIOUS
  <2>1. S \in SUBSET Nat
    OBVIOUS
  <2>2. PICK m \in S : \A j \in S : m <= j
    <3> HIDE DEF S
    <3>1. QED
      BY <2>1, Least
  <2>3. m \in 0..n /\ g[m] # h[m]
    OBVIOUS
  <2>4. m # 0 => g[m - 1] = h[m - 1]
    BY <2>2, <2>3
  <2>5. QED
    BY <1>1, <2>3, <2>4
<1>3. \A i \in 0..n : g[i] = h[i]
  BY <1>2
<1>4. g = [i \in 0..n |-> g[i]] /\ h = [i \in 0..n |-> h[i]]
  BY DEF IsSum
<1>5. QED
  BY <1>3, <1>4

LEMMA SumIs ==
    ASSUME NEW n \in Nat, NEW f, NEW g, IsSum(g, f, n)
    PROVE  SumUpTo(f, n) = g[n]
<1> DEFINE sum == CHOOSE s : s = [i \in 0..n |-> IF i = 0 THEN 0 ELSE s[i - 1] + f[i]]
<1>1. SumUpTo(f, n) = sum[n]
  BY DEF SumUpTo
<1>2. sum = [i \in 0..n |-> IF i = 0 THEN 0 ELSE sum[i - 1] + f[i]]
  BY DEF IsSum
<1>3. IsSum(sum, f, n)
  BY <1>2 DEF IsSum
<1> HIDE DEF sum
<1>4. QED
  BY <1>1, <1>3, SumUnique

LEMMA SumStart ==
    ASSUME NEW N \in Nat, NEW f \in [1..N -> Nat]
    PROVE  SumUpTo(f, 0) = 0
<1>1. PICK g \in [0..0 -> Nat] : IsSum(g, f, 0)
  <2>1. 0 \in 0..N
    OBVIOUS
  <2>2. QED
    BY <2>1, SumExists
<1>2. g[0] = 0
  BY <1>1 DEF IsSum
<1>3. QED
  BY <1>1, <1>2, SumIs

LEMMA SumStep ==
    ASSUME NEW N \in Nat, NEW f \in [1..N -> Nat], NEW n \in 1..N
    PROVE  /\ SumUpTo(f, n) = SumUpTo(f, n - 1) + f[n]
           /\ SumUpTo(f, n) \in Nat
<1>1. n \in 0..N /\ n - 1 \in 0..N /\ n - 1 \in Nat /\ n \in Nat
  OBVIOUS
<1>2. PICK g \in [0..n -> Nat] : IsSum(g, f, n)
  BY <1>1, SumExists
<1>3. PICK h \in [0..(n - 1) -> Nat] : IsSum(h, f, n - 1)
  BY <1>1, SumExists
<1> DEFINE cut == [i \in 0..(n - 1) |-> g[i]]
<1>4. IsSum(cut, f, n - 1)
  <2>1. ASSUME NEW i \in 0..(n - 1)
        PROVE  cut[i] = IF i = 0 THEN 0 ELSE cut[i - 1] + f[i]
    <3>1. i \in 0..n
      OBVIOUS
    <3>2. g[i] = IF i = 0 THEN 0 ELSE g[i - 1] + f[i]
      BY <1>2, <3>1 DEF IsSum
    <3>3. i # 0 => i - 1 \in 0..(n - 1)
      OBVIOUS
    <3>4. QED
      BY <3>2, <3>3
  <2>2. QED
    BY <2>1 DEF IsSum
<1>5. g[n] = g[n - 1] + f[n]
  BY <1>1, <1>2 DEF IsSum
<1>6. SumUpTo(f, n) = g[n] /\ SumUpTo(f, n - 1) = cut[n - 1]
  BY <1>1, <1>2, <1>4, SumIs
<1>7. QED
  BY <1>1, <1>2, <1>5, <1>6

-----------------------------------------------------------------------------
(* Progress, from step to step                                             *)

(* A step that leaves the open transaction alone.                          *)
Same(r) == input'[r] = input[r] /\ local'[r] = local[r]

LEMMA CompleteKept ==
    ASSUME NEW r \in Requests, Same(r), UNCHANGED <<disk, work>>,
           clock \in Nat, clock' \in Nat, clock <= clock', Complete(r)
    PROVE  Complete(r)'
<1> USE DEF Same
<1>1. Act(r)' = Act(r) /\ Op(r)' = Op(r) /\ Token(r)' = Token(r) /\ Table(r)' = Table(r)
      /\ ActCount(r)' = ActCount(r)
  BY DEF Act, Op, Token, Table, ActCount
<1>2. Counts(r)' = Counts(r)
  BY <1>1 DEF Counts
<1>3. Replaced(r) => Replaced(r)'
  BY <1>1 DEF Replaced, Checked
<1>4. Replayed(r) => Replayed(r)'
  BY <1>1 DEF Replayed, SameRequest
<1>5. Tested(r) => Tested(r)'
  BY <1>1 DEF Tested, ReadUpTo
<1>6. WrittenUpTo(r, ActCount(r)) => WrittenUpTo(r, ActCount(r))'
  BY <1>1, <1>2 DEF WrittenUpTo
<1>7. ASSUME Stamped(r) PROVE Stamped(r)'
  <2> DEFINE kept == Purge(disk.tokens, local[r].now)
  <2>1. kept' = kept
    OBVIOUS
  <2>2. CASE Token(r) = NoToken
    BY <1>1, <1>7, <2>2 DEF Stamped
  <2>3. CASE Token(r) # NoToken
    <3>1. PICK at \in 0..clock :
            work.tokens = [kept EXCEPT ![Token(r)] = [request |-> input[r], at |-> at]]
      BY <1>7, <2>3 DEF Stamped
    <3>2. at \in 0..clock'
      OBVIOUS
    <3> HIDE DEF kept
    <3>3. work'.tokens = [kept' EXCEPT ![Token(r)'] = [request |-> input'[r], at |-> at]]
      BY <1>1, <2>1, <3>1
    <3>4. QED
      BY <1>1, <2>3, <3>2, <3>3 DEF Stamped, kept
  <2>4. QED
    BY <2>2, <2>3
<1>8. Transacted(r) => Transacted(r)'
  BY <1>1, <1>5, <1>6, <1>7 DEF Transacted, TokenFree
<1>9. (Created(r) => Created(r)') /\ (Deleted(r) => Deleted(r)')
  BY <1>1 DEF Created, Deleted
<1>10. QED
  BY <1>1, <1>3, <1>4, <1>8, <1>9 DEF Complete

LEMMA ProgressKept ==
    ASSUME NEW r \in Requests, Same(r), pc'[r] = pc[r], UNCHANGED <<disk, work>>,
           clock \in Nat, clock' \in Nat, clock <= clock', Progress(r)
    PROVE  Progress(r)'
<1> USE DEF Same
<1>1. Act(r)' = Act(r) /\ Token(r)' = Token(r) /\ Table(r)' = Table(r)
      /\ ActCount(r)' = ActCount(r)
  BY DEF Act, Token, Table, ActCount
<1>2. Counts(r)' = Counts(r)
  BY <1>1 DEF Counts
<1>3. Checked(r)' <=> Checked(r)
  BY <1>1 DEF Checked
<1>4. Purged(r)' <=> Purged(r)
  BY <1>1 DEF Purged, TokenFree
<1>5. Tested(r)' <=> Tested(r)
  BY <1>1 DEF Tested, ReadUpTo
<1>6. ReadUpTo(r, local[r].idx - 1)' <=> ReadUpTo(r, local[r].idx - 1)
  BY <1>1 DEF ReadUpTo
<1>7. /\ WrittenUpTo(r, ActCount(r))' <=> WrittenUpTo(r, ActCount(r))
      /\ WrittenUpTo(r, local[r].idx - 1)' <=> WrittenUpTo(r, local[r].idx - 1)
  BY <1>1, <1>2 DEF WrittenUpTo
<1>8. pc[r] = "commit" => Complete(r)'
  BY CompleteKept DEF Progress
<1>9. QED
  BY <1>1, <1>3, <1>4, <1>5, <1>6, <1>7, <1>8 DEF Progress

(* Outside of transactions there is nothing to say; so only the request    *)
(* that holds the connection matters.                                      *)
LEMMA ProgressOfHolder ==
    ASSUME TxInv', NEW r \in Requests, conn' = r, Progress(r)'
    PROVE  ProgressInv'
<1>1. ASSUME NEW q \in Requests, q # r PROVE pc'[q] \notin TxSteps
  BY <1>1 DEF TxInv, OneTransaction
<1>2. ASSUME NEW q \in Requests, pc'[q] \notin TxSteps PROVE Progress(q)'
  BY <1>2 DEF Progress, TxSteps
<1>3. QED
  BY <1>1, <1>2 DEF ProgressInv

LEMMA ProgressOfNobody ==
    ASSUME TxInv', conn' \notin Requests
    PROVE  ProgressInv'
BY DEF TxInv, OneTransaction, ProgressInv, Progress, TxSteps

LEMMA ProgressOutside ==
    ASSUME TypeInv, TypeInv', TxInv, TxInv', ProgressInv,
           UNCHANGED <<disk, work, conn>>, clock <= clock',
           \A r \in Requests : pc'[r] \in TxSteps => pc'[r] = pc[r] /\ Same(r)
    PROVE  ProgressInv'
<1>1. clock \in Nat /\ clock' \in Nat
  BY StoreAssumption DEF TypeInv, TypeOK
<1>2. CASE conn \in Requests
  <2>1. pc'[conn] \in TxSteps
    BY <1>2 DEF TxInv, OneTransaction
  <2>2. Progress(conn)'
    BY <1>1, <1>2, <2>1, ProgressKept DEF ProgressInv
  <2>3. QED
    BY <1>2, <2>2, ProgressOfHolder
<1>3. QED
  BY <1>2, ProgressOfNobody

LEMMA OutsideProgress ==
    ASSUME TypeInv, TypeInv', TxInv, TxInv', ProgressInv, NEW r \in Requests,
           Others(r), pc'[r] \notin TxSteps, UNCHANGED <<disk, work, conn, clock>>
    PROVE  ProgressInv'
<1>1. ASSUME NEW q \in Requests, pc'[q] \in TxSteps
      PROVE  pc'[q] = pc[q] /\ Same(q)
  BY <1>1 DEF Others, Same
<1>2. clock <= clock'
  BY StoreAssumption DEF TypeInv, TypeOK
<1>3. QED
  BY <1>1, <1>2, ProgressOutside

LEMMA LifeProgress ==
    ASSUME TypeInv, TypeInv', TxInv, TxInv', ProgressInv, NEW r \in Requests, Others(r),
           Begin(r) \/ Commit(r) \/ StatementFails(r) \/ TxFails(r) \/ Finish(r)
    PROVE  ProgressInv'
<1>1. CASE Begin(r)
  <2>1. pc'[r] \in {"check", "token", "insertRow", "deleteRow"}
    BY <1>1 DEF Begin, Goto, FirstTxStep, TypeInv, TypeOK
  <2>2. work' = disk' /\ conn' = r
    BY <1>1 DEF Begin, Granted, TxInv, OneTransaction
  <2>3. Progress(r)'
    BY <2>1, <2>2 DEF Progress
  <2>4. QED
    BY <2>2, <2>3, ProgressOfHolder
<1>2. CASE Commit(r) \/ TxFails(r)
  BY <1>2, RequestsAssumption, ProgressOfNobody DEF Commit, TxFails, Rollback
<1>3. CASE StatementFails(r) \/ Finish(r)
  <2>1. pc'[r] \notin TxSteps
    BY <1>3 DEF StatementFails, Finish, Answer, AnswerWith, TypeInv, TypeOK, TxSteps
  <2>2. QED
    BY <1>3, <2>1, OutsideProgress DEF StatementFails, Finish, db
<1>4. QED
  BY <1>1, <1>2, <1>3

LEMMA CallProgress ==
    ASSUME TypeInv, TypeInv', TxInv, TxInv', ProgressInv, NEW r \in Requests,
           (\E in \in Inputs : Do(r, in)) \/ Return(r) \/ Cancel(r)
    PROVE  ProgressInv'
<1>1. Others(r) /\ UNCHANGED <<disk, work, conn, clock>>
  BY CallAlone DEF Do, Return, Cancel, db
<1>2. CASE (\E in \in Inputs : Do(r, in)) \/ Return(r)
  <2>1. pc'[r] \notin TxSteps
    BY <1>2 DEF Do, FirstStep, Return, TypeInv, TypeOK, TxSteps
  <2>2. QED
    BY <1>1, <2>1, OutsideProgress
<1>3. CASE Cancel(r)
  <2>1. \A q \in Requests : pc'[q] = pc[q] /\ Same(q)
    BY <1>3 DEF Cancel, task, Same
  <2>2. clock <= clock'
    BY <1>1, StoreAssumption DEF TypeInv, TypeOK
  <2>3. QED
    BY <1>1, <2>1, <2>2, ProgressOutside
<1>4. QED
  BY <1>2, <1>3

LEMMA HandleProgress ==
    ASSUME TypeInv, TypeInv', TxInv, TxInv', ProgressInv,
           Tick \/ CloseFlag \/ CloseSql \/ Crash \/ Reopen
    PROVE  ProgressInv'
<1>1. CASE Crash
  BY <1>1, RequestsAssumption, ProgressOfNobody DEF Crash
<1>2. CASE Tick \/ CloseFlag \/ CloseSql \/ Reopen
  <2>1. /\ UNCHANGED <<disk, work, conn>>
        /\ \A q \in Requests : pc'[q] = pc[q] /\ Same(q)
    BY <1>2 DEF Tick, CloseFlag, CloseSql, Reopen, db, task, Same
  <2>2. clock <= clock'
    BY <1>2, StoreAssumption DEF Tick, CloseFlag, CloseSql, Reopen, TypeInv, TypeOK
  <2>3. QED
    BY <2>1, <2>2, ProgressOutside
<1>3. QED
  BY <1>1, <1>2

-----------------------------------------------------------------------------
(* The transaction of a single write                                       *)

LEMMA CheckProgress ==
    ASSUME TypeInv, TxInv', ProgressInv, NEW r \in Requests, CheckItem(r)
    PROVE  ProgressInv'
<1> DEFINE act == Act(r)
           old == Cell(disk, act)
<1>1. /\ pc[r] = "check" /\ pc'[r] = "write" /\ input'[r] = input[r]
      /\ local'[r].olds = <<Cell(work, act)>> /\ local'[r].idx = local[r].idx
  BY CheckItemEffect DEF SameInput
<1>2. work = disk
  BY <1>1 DEF ProgressInv, Progress
<1>3. conn' = r /\ UNCHANGED <<disk, work>>
  BY DEF CheckItem, TxReads, InTx
<1>4. Act(r)' = act
  BY <1>1 DEF Act
<1>5. act \in Acts /\ old \in Stored
  BY <1>1, AtAct DEF ItemSteps
<1>6. Holds[act.cond][old] \in {"yes", "no", "error"}
  BY <1>5, ItemsAssumption DEF Acts, Outcomes
<1>7. /\ Exists(disk, act)
      /\ Holds[act.cond][old] = "yes"
      /\ act.kind = "Update" => Storable(NewItem(act, old))
  <2>1. CheckRefusal(act) = NoReply
    BY DEF CheckItem
  <2>2. \A code \in Codes \ {"none"} :
           /\ Reply(code) # NoReply
           /\ [Reply(code) EXCEPT !.item = old] # NoReply
    BY DEF Reply, NoReply
  <2>3. QED
    BY <1>2, <1>6, <2>1, <2>2 DEF CheckRefusal, Codes
<1>8. Checked(r)'
  BY <1>1, <1>2, <1>3, <1>4, <1>7 DEF Checked, Exists, Cell
<1>9. Progress(r)'
  BY <1>1, <1>2, <1>3, <1>8 DEF Progress
<1>10. QED
  BY <1>3, <1>9, ProgressOfHolder

LEMMA WriteProgress ==
    ASSUME TypeInv, TxInv', ProgressInv, ParsedInv, NEW r \in Requests, WriteItem(r)
    PROVE  ProgressInv'
<1>1. pc[r] = "write" /\ pc'[r] = "commit" /\ Same(r) /\ conn' = r /\ disk' = disk
  BY DEF WriteItem, InTx, Goto, Same, TypeInv, TypeOK
<1>2. work = disk /\ Checked(r)
  BY <1>1 DEF ProgressInv, Progress
<1>3. Act(r)' = Act(r) /\ Op(r)' = Op(r)
  BY <1>1 DEF Same, Act, Op
<1>4. Checked(r)'
  BY <1>1, <1>2, <1>3 DEF Same, Checked
<1>5. work' = SetCell(disk, Act(r), NewItem(Act(r), Cell(disk, Act(r))))
  BY <1>2 DEF WriteItem, Checked
<1>6. Replaced(r)'
  BY <1>1, <1>3, <1>4, <1>5 DEF Replaced
<1>7. Op(r) \in SingleWrites
  BY <1>1 DEF TypeInv, ControlOK, Control, Op
<1>8. Complete(r)'
  BY <1>3, <1>6, <1>7 DEF Complete, SingleWrites
<1>9. Progress(r)'
  BY <1>1, <1>8 DEF Progress
<1>10. QED
  BY <1>1, <1>9, ProgressOfHolder

LEMMA ItemProgress ==
    ASSUME TypeInv, TypeInv', TxInv, TxInv', ParsedInv, ProgressInv, NEW r \in Requests,
           Others(r), ItemStep(r)
    PROVE  ProgressInv'
<1>1. CASE LoadItemTable(r) \/ GetItem(r)
  <2>1. pc'[r] \in {"answered", "get", "begin"} /\ Reads(r)
    BY <1>1 DEF LoadItemTable, GetItem, Goto, Answer, AnswerWith, TypeInv, TypeOK
  <2>2. QED
    BY <2>1, OutsideProgress DEF Reads, db, TxSteps
<1>2. CASE CheckFails(r)
  BY <1>2, RequestsAssumption, ProgressOfNobody DEF CheckFails, Rollback
<1>3. QED
  BY <1>1, <1>2, CheckProgress, WriteProgress DEF ItemStep

-----------------------------------------------------------------------------
(* The transactions of CreateTable and DeleteTable                         *)

LEMMA CreateProgress ==
    ASSUME TypeInv, TxInv', ParsedInv, ProgressInv, NEW r \in Requests,
           InsertRow(r) \/ CreateData(r), conn' = r
    PROVE  ProgressInv'
<1>1. CASE InsertRow(r)
  <2>1. /\ pc[r] = "insertRow" /\ pc'[r] = "createData" /\ Same(r) /\ disk' = disk
        /\ work.catalog[Table(r)] = NoRow
        /\ work' = SetRow(work, Table(r), input[r].row)
    BY <1>1, RequestsAssumption
       DEF InsertRow, Rollback, InTx, Goto, Same, TypeInv, TypeOK
  <2>2. work = disk /\ Table(r)' = Table(r)
    BY <2>1 DEF ProgressInv, Progress, Same, Table
  <2>3. Progress(r)'
    BY <2>1, <2>2 DEF Progress, Same
  <2>4. QED
    BY <2>3, ProgressOfHolder
<1>2. CASE CreateData(r)
  <2> DEFINE table == DataTable[Table(r)]
  <2>1. /\ pc[r] = "createData" /\ pc'[r] = "commit" /\ Same(r) /\ disk' = disk
        /\ table \notin work.backing
        /\ work' = [work EXCEPT !.backing = @ \union {table}]
    BY <1>2, RequestsAssumption
       DEF CreateData, Rollback, InTx, Goto, Same, TypeInv, TypeOK
  <2>2. /\ disk.catalog[Table(r)] = NoRow
        /\ work = SetRow(disk, Table(r), input[r].row)
        /\ Op(r) = "CreateTable"
    BY <2>1 DEF ProgressInv, Progress, ParsedInv, Parsed, Op
  <2>3. Table(r)' = Table(r) /\ Op(r)' = Op(r)
    BY <2>1 DEF Same, Table, Op
  <2>4. work.backing = disk.backing
    BY <2>2 DEF SetRow, TypeInv, TypeOK, Databases
  <2>5. Created(r)'
    BY <2>1, <2>2, <2>3, <2>4 DEF Created, Same
  <2>6. Complete(r)'
    BY <2>2, <2>3, <2>5 DEF Complete, SingleWrites
  <2>7. Progress(r)'
    BY <2>1, <2>6 DEF Progress
  <2>8. QED
    BY <2>7, ProgressOfHolder
<1>3. QED
  BY <1>1, <1>2

LEMMA DeleteProgress ==
    ASSUME TypeInv, TxInv', ParsedInv, ProgressInv, NEW r \in Requests,
           DeleteRow(r) \/ DropData(r), conn' = r
    PROVE  ProgressInv'
<1>1. CASE DeleteRow(r)
  <2>1. /\ pc[r] = "deleteRow" /\ pc'[r] = "dropData" /\ Same(r) /\ disk' = disk
        /\ work.catalog[Table(r)] # NoRow /\ Deletable(work.catalog[Table(r)])
        /\ work' = SetRow(work, Table(r), NoRow)
    BY <1>1, RequestsAssumption
       DEF DeleteRow, Rollback, InTx, Goto, Same, TypeInv, TypeOK
  <2>2. work = disk /\ Table(r)' = Table(r)
    BY <2>1 DEF ProgressInv, Progress, Same, Table
  <2>3. Progress(r)'
    BY <2>1, <2>2 DEF Progress, Same
  <2>4. QED
    BY <2>3, ProgressOfHolder
<1>2. CASE DropData(r)
  <2> DEFINE table == DataTable[Table(r)]
  <2>1. /\ pc[r] = "dropData" /\ pc'[r] = "commit" /\ Same(r) /\ disk' = disk
        /\ work' = [work EXCEPT !.backing = @ \ {table},
                                !.data[table] = [k \in Keys |-> NoItem]]
    BY <1>2, RequestsAssumption
       DEF DropData, Rollback, InTx, Goto, Same, TypeInv, TypeOK
  <2>2. /\ disk.catalog[Table(r)] # NoRow
        /\ Deletable(disk.catalog[Table(r)])
        /\ work = SetRow(disk, Table(r), NoRow)
        /\ Op(r) = "DeleteTable"
    BY <2>1 DEF ProgressInv, Progress, ParsedInv, Parsed, Op
  <2>3. Table(r)' = Table(r) /\ Op(r)' = Op(r)
    BY <2>1 DEF Same, Table, Op
  <2>4. Deleted(r)'
    BY <2>1, <2>2, <2>3 DEF Deleted
  <2>5. Complete(r)'
    BY <2>2, <2>3, <2>4 DEF Complete, SingleWrites
  <2>6. Progress(r)'
    BY <2>1, <2>5 DEF Progress
  <2>7. QED
    BY <2>6, ProgressOfHolder
<1>3. QED
  BY <1>1, <1>2

LEMMA TableProgress ==
    ASSUME TypeInv, TypeInv', TxInv, TxInv', ParsedInv, ProgressInv, NEW r \in Requests,
           Others(r), TableStep(r)
    PROVE  ProgressInv'
<1>1. CASE InsertRow(r) \/ CreateData(r) \/ DeleteRow(r) \/ DropData(r)
  <2>1. conn' = r \/ conn' = NoReq
    BY <1>1 DEF InsertRow, CreateData, DeleteRow, DropData, InTx, Rollback
  <2>2. QED
    BY <1>1, <2>1, CreateProgress, DeleteProgress, ProgressOfNobody, RequestsAssumption
<1>2. CASE LoadCreated(r) \/ LoadDescribed(r) \/ CountItems(r) \/ ListTables(r)
             \/ ResolveARN(r) \/ Reload(r)
  <2>1. pc'[r] \in {"answered", "count", "reload", "retag"}
    BY <1>2 DEF LoadCreated, LoadDescribed, CountItems, ListTables, ResolveARN, Reload,
                Goto, Answer, AnswerWith, TypeInv, TypeOK
  <2>2. Reads(r)
    BY <1>2 DEF LoadCreated, LoadDescribed, CountItems, ListTables, ResolveARN, Reload
  <2>3. QED
    BY <2>1, <2>2, OutsideProgress DEF Reads, db, TxSteps
<1>3. CASE UpdateTags(r)
  BY <1>3, RequestsAssumption, ProgressOfNobody DEF UpdateTags, Granted
<1>4. QED
  BY <1>1, <1>2, <1>3 DEF TableStep

-----------------------------------------------------------------------------
(* TransactWriteItems                                                      *)

LEMMA LookUpProgress ==
    ASSUME TypeInv, TxInv', ProgressInv, NEW r \in Requests, LookUpToken(r), conn' = r
    PROVE  ProgressInv'
<1> DEFINE kept == Purge(disk.tokens, local[r].now)
<1>1. pc[r] = "token" /\ work = disk
  BY DEF LookUpToken, ProgressInv, Progress
<1>2. /\ disk' = disk /\ Same(r)
      /\ work' = [disk EXCEPT !.tokens = kept]
      /\ \/ /\ pc'[r] = "checkAll"
            /\ Token(r) # NoToken => kept[Token(r)] = NoStamp
         \/ /\ pc'[r] = "commit"
            /\ Token(r) # NoToken /\ kept[Token(r)] # NoStamp
            /\ SameRequest(kept[Token(r)], r)
  BY <1>1, RequestsAssumption
     DEF LookUpToken, Rollback, InTx, Goto, Same, TypeInv, TypeOK
<1>3. Token(r)' = Token(r) /\ Op(r)' = Op(r)
  BY <1>2 DEF Same, Token, Op
<1>4. Op(r) = "TransactWriteItems" /\ local[r].idx = 1
  BY <1>1 DEF TypeInv, ControlOK, Control, Op
<1>5. /\ work'.catalog = disk.catalog /\ work'.backing = disk.backing
      /\ work'.data = disk.data /\ work'.tokens = kept
  BY <1>2 DEF TypeInv, TypeOK, Databases
<1>6. CASE pc'[r] = "checkAll" /\ (Token(r) # NoToken => kept[Token(r)] = NoStamp)
  <2>1. Purged(r)'
    BY <1>2, <1>3, <1>5, <1>6 DEF Purged, TokenFree, Same
  <2>2. ReadUpTo(r, local[r].idx - 1)'
    <3>1. local'[r].idx - 1 = 0
      BY <1>2, <1>4 DEF Same
    <3>2. ReadUpTo(r, 0)'
      BY DEF ReadUpTo
    <3>3. QED
      BY <3>1, <3>2
  <2>3. Progress(r)'
    BY <1>2, <1>5, <1>6, <2>1, <2>2 DEF Progress
  <2>4. QED
    BY <2>3, ProgressOfHolder
<1>7. CASE /\ pc'[r] = "commit"
           /\ Token(r) # NoToken /\ kept[Token(r)] # NoStamp
           /\ SameRequest(kept[Token(r)], r)
  <2>1. Replayed(r)'
    BY <1>2, <1>3, <1>5, <1>7 DEF Replayed, SameRequest, Same
  <2>2. Complete(r)'
    BY <1>3, <1>4, <2>1 DEF Complete, SingleWrites
  <2>3. Progress(r)'
    BY <1>7, <2>2 DEF Progress
  <2>4. QED
    BY <2>3, ProgressOfHolder
<1>8. QED
  BY <1>2, <1>6, <1>7

(* Reading one more item.                                                  *)
LEMMA ReadOn ==
    ASSUME TypeInv, ParsedInv, ProgressInv, NEW r \in Requests, pc[r] = "checkAll",
           SameInput(r), ChecksOn(r), NEW i, i = local[r].idx
    PROVE  /\ ReadUpTo(r, i)'
           /\ Len(local'[r].reasons) = i
           /\ Len(local'[r].olds) = i
<1> DEFINE acts == input[r].acts
           olds == local[r].olds
           reasons == local[r].reasons
<1>1. /\ i \in 1..Len(acts) /\ Len(acts) \in Nat
      /\ Act(r) = acts[i] /\ ActCount(r) = Len(acts)
  BY AtAct DEF ItemSteps, Act, ActCount
<1>2. olds \in Seq(Stored) /\ reasons \in Seq(Reasons)
  BY AtTx
<1>3. Len(olds) = i - 1
  BY DEF TypeInv, ControlOK, Control
<1>4. Len(reasons) = i - 1
  BY DEF ParsedInv, Parsed
<1>5. /\ work.data = disk.data /\ work.backing = disk.backing /\ disk' = disk
      /\ ReadUpTo(r, i - 1)
  BY DEF ProgressInv, Progress, Purged, ChecksOn
<1>6. Cell(work, acts[i]) = Cell(disk, acts[i]) /\ Cell(disk, acts[i]) \in Stored
  BY <1>1, <1>5, AtAct DEF ItemSteps, Cell
<1>7. /\ local'[r].olds = Append(olds, Cell(disk, acts[i]))
      /\ local'[r].reasons = Append(reasons, Reason(acts[i], Cell(disk, acts[i])))
      /\ Exists(disk, acts[i])
      /\ Holds[acts[i].cond][Cell(disk, acts[i])] # "error"
  BY <1>1, <1>5, <1>6 DEF ChecksOn, Exists
<1>8. Reason(acts[i], Cell(disk, acts[i])) \in Reasons
  BY DEF Reason, Reasons
<1> HIDE DEF acts, olds, reasons
<1>9. /\ Len(local'[r].olds) = i /\ local'[r].olds[i] = Cell(disk, acts[i])
      /\ \A j \in 1..(i - 1) : local'[r].olds[j] = olds[j]
  BY <1>1, <1>2, <1>3, <1>6, <1>7
<1>10. /\ Len(local'[r].reasons) = i
       /\ local'[r].reasons[i] = Reason(acts[i], Cell(disk, acts[i]))
       /\ \A j \in 1..(i - 1) : local'[r].reasons[j] = reasons[j]
  BY <1>1, <1>2, <1>4, <1>7, <1>8
<1>11. ASSUME NEW j \in 1..i
       PROVE  /\ Exists(disk, acts[j])
              /\ local'[r].olds[j] = Cell(disk, acts[j])
              /\ Holds[acts[j].cond][local'[r].olds[j]] # "error"
              /\ local'[r].reasons[j] = Reason(acts[j], local'[r].olds[j])
  <2>1. CASE j = i
    BY <1>7, <1>9, <1>10, <2>1
  <2>2. CASE j # i
    <3>1. j \in 1..(i - 1)
      BY <1>1, <2>2
    <3>2. /\ Exists(disk, acts[j])
          /\ olds[j] = Cell(disk, acts[j])
          /\ Holds[acts[j].cond][olds[j]] # "error"
          /\ reasons[j] = Reason(acts[j], olds[j])
      BY <1>5, <3>1 DEF ReadUpTo, acts, olds, reasons
    <3>3. QED
      BY <1>9, <1>10, <3>1, <3>2
  <2>3. QED
    BY <2>1, <2>2
<1>12. ReadUpTo(r, i)'
  <2>1. input'[r].acts = acts
    BY DEF SameInput, acts
  <2>2. QED
    BY <1>5, <1>11, <2>1 DEF ReadUpTo, Exists, Cell
<1>13. QED
  BY <1>9, <1>10, <1>12

LEMMA CountsTyped ==
    ASSUME NEW in \in ItemInputs, NEW olds \in Seq(Stored), Len(olds) = Len(in.acts)
    PROVE  [j \in 1..Len(in.acts) |-> CountedSize(in.acts[j], olds[j])]
              \in [1..Len(in.acts) -> Nat]
<1>1. ASSUME NEW j \in 1..Len(in.acts) PROVE CountedSize(in.acts[j], olds[j]) \in Nat
  BY NewItemTyped
<1>2. QED
  BY <1>1

(* The part of Purged that a step of the transaction after the purge keeps.*)
LEMMA PurgedKept ==
    ASSUME NEW r \in Requests, SameInput(r), Purged(r), disk' = disk,
           local'[r].now = local[r].now,
           work'.catalog = work.catalog, work'.backing = work.backing,
           work'.tokens = work.tokens
    PROVE  Purged(r)'
BY DEF Purged, TokenFree, Token, SameInput

LEMMA ReadAllProgress ==
    ASSUME TypeInv, TypeInv', TxInv', ParsedInv, ProgressInv, NEW r \in Requests,
           CheckTxItem(r), conn' = r
    PROVE  ProgressInv'
<1>1. pc[r] = "checkAll" /\ SameInput(r) /\ ChecksOn(r)
  BY CheckTxEffect, RequestsAssumption DEF Rollback
<1>2. PICK i : i = local[r].idx
  OBVIOUS
<1>3. /\ ReadUpTo(r, i)'
      /\ Len(local'[r].reasons) = i /\ Len(local'[r].olds) = i
  BY <1>1, <1>2, ReadOn
<1>4. Purged(r) /\ work.data = disk.data /\ UNCHANGED <<disk, work>>
  BY <1>1 DEF ProgressInv, Progress, ChecksOn
<1>5. Purged(r)'
  BY <1>1, <1>4, PurgedKept DEF ChecksOn
<1>6. ActCount(r)' = ActCount(r) /\ ActCount(r) \in Nat /\ i \in 1..ActCount(r)
  BY <1>1, <1>2, AtAct DEF SameInput, ActCount, ItemSteps
<1>7. CASE i # ActCount(r)
  <2>1. pc'[r] = "checkAll" /\ local'[r].idx - 1 = i
    BY <1>1, <1>2, <1>6, <1>7, SMTT(60) DEF ChecksOn
  <2>2. Progress(r)'
    BY <1>3, <1>4, <1>5, <2>1 DEF Progress
  <2>3. QED
    BY <2>2, ProgressOfHolder
<1>8. CASE i = ActCount(r)
  <2>1. pc'[r] = "apply" /\ local'[r].idx - 1 = 0 /\ ~Failed(local'[r].reasons)
    BY <1>1, <1>2, <1>8 DEF ChecksOn
  <2>2. local'[r] \in Locals /\ input'[r] \in ItemInputs
    <3>1. input[r] \in ItemInputs
      BY <1>1, AtTx
    <3>2. QED
      BY <1>1, <3>1 DEF TypeInv, TypeOK, SameInput
  <2>3. Tested(r)'
    <3>1. DOMAIN local'[r].reasons = 1..ActCount(r)
      BY <1>3, <1>8, <2>2 DEF Locals
    <3>2. \A j \in 1..ActCount(r) : local'[r].reasons[j] = "None"
      BY <2>1, <3>1 DEF Failed
    <3>3. QED
      BY <1>3, <1>6, <1>8, <3>2 DEF Tested
  <2>4. WrittenUpTo(r, 0)'
    <3>1. local'[r].total = 0
      BY <1>1 DEF ChecksOn, ParsedInv, Parsed
    <3>2. Len(local'[r].olds) = Len(input'[r].acts) /\ local'[r].olds \in Seq(Stored)
      BY <1>3, <1>6, <1>8, <2>2 DEF ActCount, Locals
    <3>3. Counts(r)' \in [1..Len(input'[r].acts) -> Nat] /\ Len(input'[r].acts) \in Nat
      BY <1>6, <2>2, <3>2, CountsTyped DEF Counts, ActCount
    <3>4. SumUpTo(Counts(r)', 0) = 0
      BY <3>3, SumStart
    <3>5. QED
      BY <1>4, <3>1, <3>4 DEF WrittenUpTo
  <2>5. WrittenUpTo(r, local[r].idx - 1)'
    BY <2>1, <2>4
  <2>6. Progress(r)'
    BY <1>5, <2>1, <2>3, <2>5 DEF Progress
  <2>7. QED
    BY <2>6, ProgressOfHolder
<1>9. QED
  BY <1>7, <1>8

(* Where a write shows, and where it does not.                             *)
LEMMA SetCellData ==
    ASSUME NEW database \in Databases, NEW act \in Acts, NEW item
    PROVE  LET set == SetCell(database, act, item) IN
           /\ set.catalog = database.catalog /\ set.backing = database.backing
           /\ set.tokens = database.tokens
           /\ \A t \in SqlNames, k \in Keys :
                 set.data[t][k] = IF t = DataTable[act.table] /\ k = act.key
                                  THEN item ELSE database.data[t][k]
<1>1. /\ DataTable[act.table] \in SqlNames /\ act.key \in Keys
      /\ database.data \in [SqlNames -> [Keys -> Stored]]
  BY NamesAssumption DEF Databases, Acts
<1>2. SetCell(database, act, item) =
        [database EXCEPT !.data = [database.data EXCEPT
            ![DataTable[act.table]] = [database.data[DataTable[act.table]] EXCEPT
                ![act.key] = item]]]
  BY DEF SetCell
<1>3. QED
  BY <1>1, <1>2 DEF Databases

(* Applying one more item.                                                 *)
LEMMA ApplyOn ==
    ASSUME TypeInv, ParsedInv, ProgressInv, NEW r \in Requests, pc[r] = "apply",
           SameInput(r), AppliesOn(r), NEW i, i = local[r].idx
    PROVE  Purged(r)' /\ Tested(r)' /\ WrittenUpTo(r, i)'
<1> DEFINE acts == input[r].acts
           olds == local[r].olds
           N    == Len(acts)
           act  == acts[i]
           new  == NewItem(act, olds[i])
           sum(j) == SumUpTo(Counts(r), j)
<1>1. /\ i \in 1..N /\ N \in Nat /\ Act(r) = act /\ ActCount(r) = N
      /\ input[r] \in ItemInputs
  BY AtAct DEF ItemSteps, Act, ActCount
<1>2. olds \in Seq(Stored) /\ Len(olds) = N
  BY AtTx DEF TypeInv, ControlOK, Control
<1>3. \A j \in 1..N : acts[j] \in Acts /\ olds[j] \in Stored
  BY <1>1, <1>2, ActTyped
<1>4. Purged(r) /\ Tested(r) /\ WrittenUpTo(r, i - 1)
  BY DEF ProgressInv, Progress
<1>5. \A j \in 1..N : Exists(disk, acts[j]) /\ olds[j] = Cell(disk, acts[j])
  BY <1>1, <1>4 DEF Tested, ReadUpTo
<1>6. /\ disk' = disk /\ input'[r] = input[r]
      /\ local'[r].olds = olds /\ local'[r].reasons = local[r].reasons
      /\ local'[r].now = local[r].now
      /\ act.kind \in {"Put", "Update"} => Storable(new)
      /\ local'[r].total = local[r].total + CountedSize(act, olds[i])
      /\ local'[r].total <= maxTransactTotalBytes
      /\ work' = IF Writes(act) THEN SetCell(work, act, new) ELSE work
  BY <1>1 DEF AppliesOn, SameInput
<1>7. Counts(r) \in [1..N -> Nat] /\ Counts(r)' = Counts(r)
  <2>1. Counts(r) \in [1..N -> Nat]
    BY <1>1, <1>2, CountsTyped DEF Counts, ActCount
  <2>2. Counts(r)' = Counts(r)
    BY <1>6 DEF Counts, ActCount
  <2>3. QED
    BY <2>1, <2>2
<1>8. work \in Databases /\ disk \in Databases
  BY DEF TypeInv, TypeOK
<1> HIDE DEF acts, olds, N, act, new, sum
<1>9. /\ work'.catalog = work.catalog /\ work'.backing = work.backing
      /\ work'.tokens = work.tokens
      /\ \A t \in SqlNames, k \in Keys :
            work'.data[t][k] = IF Writes(act) /\ t = DataTable[act.table] /\ k = act.key
                               THEN new ELSE work.data[t][k]
  BY <1>1, <1>3, <1>6, <1>8, SetCellData DEF act
<1>10. Purged(r)'
  BY <1>4, <1>6, <1>9, PurgedKept
<1>11. Tested(r)'
  BY <1>4, <1>6 DEF Tested, ReadUpTo, ActCount, olds
<1>12. /\ local'[r].total = sum(i)
       /\ \A j \in 1..i : /\ acts[j].kind \in {"Put", "Update"}
                                => Storable(NewItem(acts[j], olds[j]))
                          /\ sum(j) <= maxTransactTotalBytes
  <2>1. local[r].total = sum(i - 1)
    BY <1>4 DEF WrittenUpTo, sum
  <2>2. sum(i) = sum(i - 1) + CountedSize(act, olds[i])
    <3>1. Counts(r)[i] = CountedSize(act, olds[i])
      BY <1>1 DEF Counts, act, acts, olds
    <3>2. QED
      BY <1>1, <1>7, <3>1, SumStep DEF sum
  <2>3. local'[r].total = sum(i)
    BY <1>6, <2>1, <2>2
  <2>4. ASSUME NEW j \in 1..i
        PROVE  /\ acts[j].kind \in {"Put", "Update"} => Storable(NewItem(acts[j], olds[j]))
               /\ sum(j) <= maxTransactTotalBytes
    <3>1. CASE j = i
      BY <1>6, <2>3, <3>1 DEF act, new
    <3>2. CASE j # i
      <4>1. j \in 1..(i - 1)
        BY <1>1, <3>2
      <4>2. QED
        BY <1>4, <4>1 DEF WrittenUpTo, acts, olds, sum
    <3>3. QED
      BY <3>1, <3>2
  <2>5. QED
    BY <2>3, <2>4
<1>13. ASSUME NEW t \in SqlNames, NEW k \in Keys, work'.data[t][k] # disk.data[t][k]
       PROVE  /\ t \in disk.backing
              /\ Admissible(work'.data[t][k])
              /\ \E j \in 1..i : DataTable[acts[j].table] = t /\ acts[j].key = k
  <2>1. CASE Writes(act) /\ t = DataTable[act.table] /\ k = act.key
    <3>1. work'.data[t][k] = new
      BY <1>9, <2>1
    <3>2. Admissible(new)
      BY <1>6, <2>1 DEF Admissible, Writes, new, NewItem
    <3>3. t \in disk.backing
      BY <1>1, <1>5, <2>1 DEF Exists, act
    <3>4. i \in 1..i /\ DataTable[acts[i].table] = t /\ acts[i].key = k
      BY <1>1, <2>1 DEF act
    <3>5. QED
      BY <3>1, <3>2, <3>3, <3>4
  <2>2. CASE ~(Writes(act) /\ t = DataTable[act.table] /\ k = act.key)
    <3>1. work'.data[t][k] = work.data[t][k]
      BY <1>9, <2>2
    <3>2. /\ t \in disk.backing
          /\ Admissible(work.data[t][k])
          /\ \E j \in 1..(i - 1) : DataTable[acts[j].table] = t /\ acts[j].key = k
      BY <1>4, <1>13, <3>1 DEF WrittenUpTo, acts
    <3>3. QED
      BY <1>1, <3>1, <3>2
  <2>3. QED
    BY <2>1, <2>2
<1>14. ASSUME RowsApart(acts), NEW j \in 1..i
       PROVE  Cell(work', acts[j]) = NewItem(acts[j], olds[j])
  <2> DEFINE t == DataTable[acts[j].table]
             k == acts[j].key
  <2>1. j \in 1..N /\ acts[j] \in Acts /\ t \in SqlNames /\ k \in Keys
    BY <1>1, <1>3, NamesAssumption DEF Acts
  <2>2. \A l \in 1..N : DataTable[acts[l].table] = t /\ acts[l].key = k => l = j
    BY <1>14, <2>1 DEF RowsApart, N
  <2>3. CASE j = i
    <3>1. CASE Writes(act)
      BY <1>9, <2>1, <2>3, <3>1 DEF Cell, act, new
    <3>2. CASE ~Writes(act)
      <4>1. work'.data[t][k] = work.data[t][k]
        BY <1>9, <2>1, <3>2
      <4>2. work.data[t][k] = disk.data[t][k]
        <5>1. ~\E l \in 1..(i - 1) : DataTable[acts[l].table] = t /\ acts[l].key = k
          BY <1>1, <2>2, <2>3
        <5>2. QED
          BY <1>4, <2>1, <5>1, ZenonT(60) DEF WrittenUpTo, acts
      <4>3. NewItem(acts[j], olds[j]) = olds[j]
        BY <2>3, <3>2 DEF Writes, NewItem, act
      <4>4. olds[j] = disk.data[t][k]
        BY <1>5, <2>1 DEF Cell
      <4>5. QED
        BY <4>1, <4>2, <4>3, <4>4 DEF Cell
    <3>3. QED
      BY <3>1, <3>2
  <2>4. CASE j # i
    <3>1. j \in 1..(i - 1)
      BY <1>1, <2>4
    <3>2. Cell(work, acts[j]) = NewItem(acts[j], olds[j])
      BY <1>4, <1>14, <3>1 DEF WrittenUpTo, acts, olds
    <3>3. ~(t = DataTable[act.table] /\ k = act.key)
      BY <1>1, <2>2, <2>4 DEF act
    <3>4. QED
      BY <1>9, <2>1, <3>2, <3>3 DEF Cell
  <2>5. QED
    BY <2>3, <2>4
<1>15. WrittenUpTo(r, i)'
  <2>1. input'[r].acts = acts /\ local'[r].olds = olds
    BY <1>6 DEF acts
  <2>2. \A j \in 1..i : SumUpTo(Counts(r)', j) = sum(j)
    BY <1>7 DEF sum
  <2>3. local'[r].total = SumUpTo(Counts(r)', i)
    BY <1>7, <1>12 DEF sum
  <2>4. RowsApart(acts) => \A j \in 1..i : Cell(work', acts[j]) = NewItem(acts[j], olds[j])
    BY <1>14
  <2>5. QED
    BY <1>6, <1>12, <1>13, <2>1, <2>2, <2>3, <2>4 DEF WrittenUpTo
<1>16. QED
  BY <1>10, <1>11, <1>15

LEMMA ApplyProgress ==
    ASSUME TypeInv, TxInv', ParsedInv, ProgressInv, NEW r \in Requests,
           ApplyTxItem(r), conn' = r
    PROVE  ProgressInv'
<1>1. pc[r] = "apply" /\ SameInput(r) /\ AppliesOn(r)
  BY ApplyEffect, RequestsAssumption DEF Rollback
<1>2. PICK i : i = local[r].idx
  OBVIOUS
<1>3. Purged(r)' /\ Tested(r)' /\ WrittenUpTo(r, i)'
  BY <1>1, <1>2, ApplyOn
<1>4. /\ ActCount(r)' = ActCount(r) /\ ActCount(r) \in Nat /\ i \in 1..ActCount(r)
      /\ Op(r)' = "TransactWriteItems" /\ Token(r)' = Token(r)
  BY <1>1, <1>2, AtAct, AtTx DEF SameInput, ActCount, ItemSteps, Op, Token
<1>5. CASE i < ActCount(r)
  <2>1. pc'[r] = "apply" /\ local'[r].idx - 1 = i
    BY <1>1, <1>2, <1>4, <1>5 DEF AppliesOn
  <2>2. WrittenUpTo(r, local[r].idx - 1)'
    BY <1>3, <2>1
  <2>3. Progress(r)'
    BY <1>3, <2>1, <2>2 DEF Progress
  <2>4. QED
    BY <2>3, ProgressOfHolder
<1>6. CASE ~(i < ActCount(r))
  <2>1. i = ActCount(r)' /\ pc'[r] \in {"stamp", "commit"}
        /\ (pc'[r] = "commit" => Token(r) = NoToken)
    BY <1>1, <1>2, <1>4, <1>6 DEF AppliesOn
  <2>2. WrittenUpTo(r, ActCount(r))'
    BY <1>3, <2>1
  <2>3. ASSUME pc'[r] = "commit" PROVE Complete(r)'
    <3>1. Stamped(r)'
      BY <1>3, <1>4, <2>1, <2>3 DEF Stamped, Purged
    <3>2. Transacted(r)'
      BY <1>3, <2>2, <3>1 DEF Transacted, Purged
    <3>3. QED
      BY <1>4, <3>2 DEF Complete, SingleWrites
  <2>4. Progress(r)'
    BY <1>3, <2>1, <2>2, <2>3 DEF Progress
  <2>5. QED
    BY <2>4, ProgressOfHolder
<1>7. QED
  BY <1>5, <1>6

LEMMA StampProgress ==
    ASSUME TypeInv, TypeInv', TxInv', ProgressInv, NEW r \in Requests, StampToken(r)
    PROVE  ProgressInv'
<1> DEFINE kept == Purge(disk.tokens, local[r].now)
           row  == [request |-> input[r], at |-> clock]
<1>1. /\ pc[r] = "stamp" /\ pc'[r] = "commit" /\ Same(r) /\ disk' = disk /\ conn' = r
      /\ clock' = clock
      /\ work' = [work EXCEPT !.tokens = [work.tokens EXCEPT ![Token(r)] = row]]
  BY DEF StampToken, InTx, Goto, Same, TypeInv, TypeOK
<1>2. Purged(r) /\ Tested(r) /\ WrittenUpTo(r, ActCount(r))
  BY <1>1 DEF ProgressInv, Progress
<1>3. /\ Token(r)' = Token(r) /\ Op(r)' = Op(r) /\ ActCount(r)' = ActCount(r)
      /\ Op(r) = "TransactWriteItems" /\ Token(r) \in Tokens /\ clock \in Nat
  BY <1>1, StoreAssumption
     DEF Same, Token, Op, ActCount, TypeInv, TypeOK, ControlOK, Control
<1>4. /\ work'.catalog = work.catalog /\ work'.backing = work.backing
      /\ work'.data = work.data
      /\ work'.tokens = [work.tokens EXCEPT ![Token(r)] = row]
  BY <1>1 DEF TypeInv, TypeOK, Databases
<1>5. Stamped(r)'
  <2>1. Token(r) # NoToken
    BY <1>3, TokensAssumption
  <2>2. work'.tokens = [kept EXCEPT ![Token(r)] = row]
    BY <1>2, <1>4 DEF Purged
  <2>3. clock \in 0..clock'
    BY <1>1, <1>3
  <2> HIDE DEF kept
  <2>4. kept' = kept /\ input'[r] = input[r]
    BY <1>1 DEF kept, Same
  <2>5. work'.tokens = [kept' EXCEPT ![Token(r)'] = [request |-> input'[r], at |-> clock]]
    BY <1>3, <2>2, <2>4
  <2>6. QED
    BY <1>3, <2>1, <2>3, <2>5 DEF Stamped, kept
<1>6. Tested(r)'
  BY <1>1, <1>2 DEF Tested, ReadUpTo, ActCount, Same
<1>7. WrittenUpTo(r, ActCount(r))'
  <2>1. Counts(r)' = Counts(r)
    BY <1>1 DEF Counts, ActCount, Same
  <2>2. /\ input'[r] = input[r] /\ local'[r] = local[r] /\ disk' = disk
        /\ work'.data = work.data /\ ActCount(r)' = ActCount(r)
    BY <1>1, <1>3, <1>4 DEF Same
  <2>3. WrittenUpTo(r, ActCount(r))
    BY <1>2
  <2> DEFINE acts == input[r].acts
             olds == local[r].olds
             n    == ActCount(r)
  <2>4. /\ local[r].total = SumUpTo(Counts(r), n)
        /\ \A i \in 1..n :
              /\ acts[i].kind \in {"Put", "Update"} => Storable(NewItem(acts[i], olds[i]))
              /\ SumUpTo(Counts(r), i) <= maxTransactTotalBytes
    BY <2>3 DEF WrittenUpTo
  <2>5. \A t \in SqlNames, k \in Keys :
           \/ work'.data[t][k] = disk.data[t][k]
           \/ /\ t \in disk.backing
              /\ Admissible(work'.data[t][k])
              /\ \E i \in 1..n : DataTable[acts[i].table] = t /\ acts[i].key = k
    BY <2>2, <2>3 DEF WrittenUpTo
  <2>6. RowsApart(acts) =>
           \A i \in 1..n : Cell(work', acts[i]) = NewItem(acts[i], olds[i])
    BY <2>2, <2>3 DEF WrittenUpTo, Cell
  <2> QED
    BY <2>1, <2>2, <2>4, <2>5, <2>6 DEF WrittenUpTo
<1>8. TokenFree(r)'
  BY <1>1, <1>2, <1>3 DEF Purged, TokenFree, Same
<1>9. Transacted(r)'
  BY <1>1, <1>2, <1>4, <1>5, <1>6, <1>7, <1>8 DEF Transacted, Purged
<1>10. Complete(r)'
  BY <1>3, <1>9 DEF Complete, SingleWrites
<1>11. Progress(r)'
  BY <1>1, <1>10 DEF Progress
<1>12. QED
  BY <1>1, <1>11, ProgressOfHolder

LEMMA TransactProgress ==
    ASSUME TypeInv, TypeInv', TxInv, TxInv', ParsedInv, ProgressInv, NEW r \in Requests,
           Others(r), TransactStep(r)
    PROVE  ProgressInv'
<1>1. CASE ParseTxItem(r)
  <2>1. pc'[r] \in {"answered", "load", "begin"} /\ Reads(r)
    BY <1>1 DEF ParseTxItem, Goto, Answer, AnswerWith, TypeInv, TypeOK
  <2>2. QED
    BY <2>1, OutsideProgress DEF Reads, db, TxSteps
<1>2. CASE LookUpToken(r) \/ CheckTxItem(r) \/ ApplyTxItem(r)
  <2>1. conn' = r \/ conn' = NoReq
    BY <1>2 DEF LookUpToken, CheckTxItem, ApplyTxItem, TxReads, InTx, Rollback
  <2>2. QED
    BY <1>2, <2>1, LookUpProgress, ReadAllProgress, ApplyProgress, ProgressOfNobody,
       RequestsAssumption
<1>3. QED
  BY <1>1, <1>2, StampProgress DEF TransactStep

LEMMA NextProgress ==
    TypeInv /\ TypeInv' /\ TxInv /\ TxInv' /\ ParsedInv /\ ProgressInv /\ [Next]_vars
        => ProgressInv'
<1> SUFFICES ASSUME TypeInv, TypeInv', TxInv, TxInv', ParsedInv, ProgressInv, [Next]_vars
             PROVE  ProgressInv'
  OBVIOUS
<1>1. CASE UNCHANGED vars
  <2>1. \A q \in Requests : pc'[q] = pc[q] /\ Same(q)
    BY <1>1 DEF vars, Same
  <2>2. clock <= clock'
    BY <1>1, StoreAssumption DEF vars, TypeInv, TypeOK
  <2>3. QED
    BY <1>1, <2>1, <2>2, ProgressOutside DEF vars
<1>2. ASSUME NEW r \in Requests, Step(r) PROVE ProgressInv'
  BY <1>2, StepAlone, LifeProgress, ItemProgress, TransactProgress, TableProgress DEF Step
<1>3. QED
  BY <1>1, <1>2, CallProgress, HandleProgress DEF Next

LEMMA InitProgress == Init => ProgressInv
BY DEF Init, ProgressInv, Progress

-----------------------------------------------------------------------------
(* The committed database                                                  *)

StoreInv == TypeInv /\ TxInv /\ TokenInv /\ ParsedInv /\ ProgressInv

LEMMA InitStore == Init => StoreInv
BY InitTyped, InitTx, InitTokens, InitParsed, InitProgress DEF StoreInv

LEMMA NextStore == StoreInv /\ [Next]_vars => StoreInv'
BY NextTyped, NextKeepsTx, NextTokens, NextParsed, NextProgress DEF StoreInv

(* A catalog with one row replaced.                                        *)
LEMMA SetRowCatalog ==
    ASSUME NEW database \in Databases, NEW name \in Names, NEW row
    PROVE  LET set == SetRow(database, name, row) IN
           /\ set.backing = database.backing /\ set.data = database.data
           /\ set.tokens = database.tokens
           /\ DOMAIN set = DOMAIN database
           /\ \A n \in Names : set.catalog[n] = IF n = name THEN row ELSE database.catalog[n]
BY DEF SetRow, Databases

(* Where a commit finds its handler.                                       *)
LEMMA AtCommit ==
    ASSUME StoreInv, NEW r \in Requests, Commit(r)
    PROVE  /\ Complete(r) /\ disk' = work
           /\ disk \in Databases /\ work \in Databases
           /\ input[r] \in Inputs /\ Op(r) = input[r].op
           /\ Op(r) \in SingleWrites \union {"TransactWriteItems", "CreateTable", "DeleteTable"}
           /\ Op(r) \in {"CreateTable", "DeleteTable"} =>
                 Table(r) \in Names /\ input[r].row \in Rows /\ input[r].row # NoRow
           /\ Op(r) \notin {"CreateTable", "DeleteTable"} => input[r] \in ItemInputs
           /\ Op(r) \in SingleWrites =>
                 /\ Len(input[r].acts) = 1 /\ Act(r) \in Acts
                 /\ Act(r) = input[r].acts[1]
<1>1. pc[r] = "commit" /\ disk' = work
  BY DEF Commit
<1>2. Complete(r)
  BY <1>1 DEF StoreInv, ProgressInv, Progress
<1>3. disk \in Databases /\ work \in Databases
  BY DEF StoreInv, TypeInv, TypeOK
<1>4. input[r] \in Inputs /\ Op(r) = input[r].op
  BY <1>1 DEF StoreInv, TypeInv, ControlOK, Control, Op
<1>5. Op(r) \in SingleWrites \union {"TransactWriteItems", "CreateTable", "DeleteTable"}
  BY DEF Commit, SingleWrites
<1>6. Op(r) \in {"CreateTable", "DeleteTable"} =>
         Table(r) \in Names /\ input[r].row \in Rows /\ input[r].row # NoRow
  BY <1>4, InputTyped, NamesAssumption DEF ItemOpNames, Table
<1>7. Op(r) \notin {"CreateTable", "DeleteTable"} => input[r] \in ItemInputs
  BY <1>4, <1>5, InputTyped DEF ItemOpNames, SingleWrites
<1>8. ASSUME Op(r) \in SingleWrites
      PROVE  /\ Len(input[r].acts) = 1 /\ Act(r) \in Acts
             /\ Act(r) = input[r].acts[1]
  <2>1. input[r] \in ItemInputs
    BY <1>7, <1>8 DEF SingleWrites
  <2>2. Len(input[r].acts) = 1
    BY <1>4, <1>8, <2>1, InputsAssumption DEF SingleWrites
  <2>3. local[r].idx = 1
    BY <1>1, <1>4, <1>8 DEF StoreInv, ParsedInv, Parsed
  <2>4. QED
    BY <2>1, <2>2, <2>3, ActTyped DEF Act
<1>9. QED
  BY <1>1, <1>2, <1>3, <1>4, <1>5, <1>6, <1>7, <1>8


LEMMA UpdateTagsDisk ==
    ASSUME TypeInv, NEW r \in Requests, UpdateTags(r)
    PROVE  /\ disk'.backing = disk.backing /\ disk'.data = disk.data
           /\ disk'.tokens = disk.tokens
           /\ \A n \in Names : disk.catalog[n] = NoRow => disk'.catalog[n] = NoRow
           /\ \A n \in Names : disk.catalog[n] # NoRow =>
                 /\ disk'.catalog[n] # NoRow
                 /\ disk'.catalog[n].protected = disk.catalog[n].protected
                 /\ disk'.catalog[n].type = disk.catalog[n].type
<1>1. disk \in Databases /\ Table(r) \in Names
  BY AtTable DEF UpdateTags, TableSteps
<1>2. CASE disk.catalog[Table(r)] = NoRow
  BY <1>2 DEF UpdateTags
<1>3. CASE disk.catalog[Table(r)] # NoRow
  <2> DEFINE old == disk.catalog[Table(r)]
             new == [old EXCEPT !.tags = NewTags(r)]
  <2>1. disk' = SetRow(disk, Table(r), new)
    BY <1>1, <1>3 DEF UpdateTags, SetRow
  <2>2. old \in Rows
    BY <1>1, <1>3 DEF Databases
  <2>3. new \in [type : KeyTypes, protected : BOOLEAN, tags : {NewTags(r)}]
        /\ new.type = old.type /\ new.protected = old.protected
    BY <2>2 DEF Rows
  <2>4. new # NoRow
    <3>1. local[r].row \in Rows /\ input[r].tags \in SUBSET TagKeys
      BY AtTable DEF UpdateTags, TableSteps, TypeInv, ControlOK, Control
    <3>2. NewTags(r) \in SUBSET TagKeys
      BY <3>1 DEF NewTags, Rows
    <3>3. QED
      BY <2>3, <3>2, NamesAssumption DEF Rows
  <2>5. QED
    BY <1>1, <1>3, <2>1, <2>3, <2>4, SetRowCatalog
<1>4. QED
  BY <1>2, <1>3

LEMMA CommitBacked ==
    ASSUME StoreInv, NEW r \in Requests, Commit(r), Backed(disk)
    PROVE  Backed(disk')
<1>1. Complete(r) /\ disk' = work /\ disk \in Databases
  BY AtCommit
<1>2. CASE /\ disk'.catalog = disk.catalog /\ disk'.backing = disk.backing
           /\ \A t \in SqlNames \ disk.backing, k \in Keys :
                 disk'.data[t][k] = disk.data[t][k]
  BY <1>2 DEF Backed
<1>3. CASE Op(r) \in SingleWrites
  <2>1. Replaced(r) /\ Act(r) \in Acts
    BY <1>1, <1>3, AtCommit DEF Complete, SingleWrites
  <2>2. QED
    BY <1>1, <1>2, <2>1, SetCellData, NamesAssumption DEF Replaced, Checked, Exists
<1>4. CASE Op(r) = "TransactWriteItems"
  <2>1. Replayed(r) \/ Transacted(r)
    BY <1>1, <1>4 DEF Complete, SingleWrites
  <2>2. CASE Replayed(r)
    BY <1>1, <1>2, <2>2 DEF Replayed, Databases
  <2>3. CASE Transacted(r)
    BY <1>1, <1>2, <2>3 DEF Transacted, WrittenUpTo
  <2>4. QED
    BY <2>1, <2>2, <2>3
<1>5. CASE Op(r) = "CreateTable"
  <2> DEFINE name == Table(r)
             row == input[r].row
  <2>1. Created(r) /\ name \in Names /\ row # NoRow
    BY <1>1, <1>5, AtCommit DEF Complete, SingleWrites
  <2>2. /\ \A n \in Names : disk'.catalog[n] = IF n = name THEN row ELSE disk.catalog[n]
        /\ disk'.backing = disk.backing \union {DataTable[name]}
        /\ disk'.data = disk.data
    BY <1>1, <2>1, SetRowCatalog DEF Created, Databases
  <2>3. disk.catalog[name] = NoRow /\ DataTable[name] \notin disk.backing
    BY <2>1 DEF Created
  <2> HIDE DEF name, row
  <2>4. disk'.backing = {DataTable[n] : n \in {m \in Names : disk'.catalog[m] # NoRow}}
    BY <2>1, <2>2, <2>3 DEF Backed
  <2>5. ASSUME NEW n \in Names, NEW m \in Names,
               disk'.catalog[n] # NoRow, disk'.catalog[m] # NoRow,
               DataTable[n] = DataTable[m]
        PROVE  n = m
    BY <2>1, <2>2, <2>3, <2>5 DEF Backed
  <2>6. QED
    BY <2>2, <2>4, <2>5 DEF Backed
<1>6. CASE Op(r) = "DeleteTable"
  <2> DEFINE name == Table(r)
  <2>1. Deleted(r) /\ name \in Names
    BY <1>1, <1>6, AtCommit DEF Complete, SingleWrites
  <2>2. DataTable[name] \in SqlNames
    BY <2>1, NamesAssumption
  <2>3. /\ \A n \in Names : disk'.catalog[n] = IF n = name THEN NoRow ELSE disk.catalog[n]
        /\ disk'.backing = disk.backing \ {DataTable[name]}
        /\ \A t \in SqlNames, k \in Keys :
              disk'.data[t][k] = IF t = DataTable[name] THEN NoItem ELSE disk.data[t][k]
    BY <1>1, <2>1, <2>2, SetRowCatalog DEF Deleted, Databases
  <2>4. disk.catalog[name] # NoRow
    BY <2>1 DEF Deleted
  <2> HIDE DEF name
  <2>5. disk'.backing = {DataTable[n] : n \in {m \in Names : disk'.catalog[m] # NoRow}}
    BY <2>1, <2>3, <2>4 DEF Backed
  <2>6. QED
    BY <2>1, <2>3, <2>5 DEF Backed
<1>7. QED
  BY <1>3, <1>4, <1>5, <1>6, AtCommit

LEMMA CommitBounded ==
    ASSUME StoreInv, NEW r \in Requests, Commit(r), Bounded(disk)
    PROVE  Bounded(disk')
<1>1. Complete(r) /\ disk' = work /\ disk \in Databases
  BY AtCommit
<1>2. CASE \A t \in SqlNames, k \in Keys :
             \/ disk'.data[t][k] = disk.data[t][k]
             \/ Admissible(disk'.data[t][k])
  BY <1>2 DEF Bounded, Admissible, Storable
<1>3. CASE Op(r) \in SingleWrites
  <2> DEFINE act == Act(r)
             old == Cell(disk, act)
  <2>1. /\ Replaced(r) /\ act \in Acts /\ act = input[r].acts[1]
    BY <1>1, <1>3, AtCommit DEF Complete, SingleWrites
  <2>2. act.kind = "Put" => Storable(act.value)
    <3>1. pc[r] = "commit" /\ input[r].op \in SingleWrites
      BY <1>3, AtCommit DEF Commit
    <3>2. QED
      BY <2>1, <3>1 DEF StoreInv, ParsedInv, Parsed
  <2>3. Admissible(NewItem(act, old)) \/ NewItem(act, old) = old
    BY <2>1, <2>2 DEF Replaced, Checked, NewItem, Admissible
  <2>4. disk' = SetCell(disk, act, NewItem(act, old))
    BY <1>1, <2>1 DEF Replaced
  <2>5. old = disk.data[DataTable[act.table]][act.key]
    BY DEF Cell
  <2> HIDE DEF act, old
  <2>6. \A t \in SqlNames, k \in Keys :
           disk'.data[t][k] = IF t = DataTable[act.table] /\ k = act.key
                              THEN NewItem(act, old) ELSE disk.data[t][k]
    BY <1>1, <2>1, <2>4, SetCellData
  <2>7. QED
    BY <1>2, <2>3, <2>5, <2>6
<1>4. CASE Op(r) = "TransactWriteItems"
  <2>1. Replayed(r) \/ Transacted(r)
    BY <1>1, <1>4 DEF Complete, SingleWrites
  <2>2. CASE Replayed(r)
    BY <1>1, <1>2, <2>2 DEF Replayed, Databases
  <2>3. CASE Transacted(r)
    BY <1>1, <1>2, <2>3 DEF Transacted, WrittenUpTo
  <2>4. QED
    BY <2>1, <2>2, <2>3
<1>5. CASE Op(r) = "CreateTable"
  <2>1. Created(r) /\ Table(r) \in Names
    BY <1>1, <1>5, AtCommit DEF Complete, SingleWrites
  <2>2. disk'.data = disk.data
    BY <1>1, <2>1, SetRowCatalog DEF Created, Databases
  <2>3. QED
    BY <1>2, <2>2
<1>6. CASE Op(r) = "DeleteTable"
  <2>1. Deleted(r) /\ Table(r) \in Names /\ DataTable[Table(r)] \in SqlNames
    BY <1>1, <1>6, AtCommit, NamesAssumption DEF Complete, SingleWrites
  <2>2. \A t \in SqlNames, k \in Keys :
           disk'.data[t][k] = IF t = DataTable[Table(r)] THEN NoItem ELSE disk.data[t][k]
    BY <1>1, <2>1, SetRowCatalog DEF Deleted, Databases
  <2>3. QED
    BY <1>2, <2>2 DEF Admissible
<1>7. QED
  BY <1>3, <1>4, <1>5, <1>6, AtCommit

LEMMA NextDisk ==
    ASSUME StoreInv, [Next]_vars
    PROVE  /\ Backed(disk) => Backed(disk')
           /\ Bounded(disk) => Bounded(disk')
<1>1. ASSUME NEW r \in Requests, UpdateTags(r)
      PROVE  (Backed(disk) => Backed(disk')) /\ (Bounded(disk) => Bounded(disk'))
  <2>1. disk'.backing = disk.backing /\ disk'.data = disk.data
        /\ \A n \in Names : disk'.catalog[n] = NoRow <=> disk.catalog[n] = NoRow
    BY <1>1, UpdateTagsDisk DEF StoreInv
  <2>2. QED
    BY <2>1 DEF Backed, Bounded
<1>2. QED
  BY <1>1, DiskChanges, CommitBacked, CommitBounded

LEMMA Protects ==
    ASSUME StoreInv, Backed(disk), [Next]_vars,
           NEW n \in Names, disk.catalog[n] # NoRow, disk.catalog[n].protected
    PROVE  /\ disk'.catalog[n] # NoRow
           /\ disk'.catalog[n].protected
           /\ DataTable[n] \in disk'.backing
<1>1. DataTable[n] \in disk.backing
  BY DEF Backed
<1>2. ASSUME NEW r \in Requests, Commit(r)
      PROVE  disk'.catalog[n] = disk.catalog[n] /\ DataTable[n] \in disk'.backing
  <2>1. Complete(r) /\ disk' = work /\ disk \in Databases /\ work \in Databases
    BY <1>2, AtCommit
  <2>2. Op(r) \in SingleWrites \union {"TransactWriteItems", "CreateTable", "DeleteTable"}
    BY <1>2, AtCommit
  <2>3. CASE Op(r) \in SingleWrites
    <3>1. Replaced(r) /\ Act(r) \in Acts
      BY <1>2, <2>1, <2>3, AtCommit DEF Complete, SingleWrites
    <3>2. QED
      BY <1>1, <2>1, <3>1, SetCellData DEF Replaced
  <2>4. CASE Op(r) = "TransactWriteItems"
    <3>1. Replayed(r) \/ Transacted(r)
      BY <2>1, <2>4 DEF Complete, SingleWrites
    <3>2. QED
      BY <1>1, <2>1, <3>1 DEF Replayed, Transacted, Databases
  <2>5. CASE Op(r) = "CreateTable"
    <3>1. Created(r) /\ Table(r) \in Names
      BY <1>2, <2>1, <2>5, AtCommit DEF Complete, SingleWrites
    <3>2. /\ disk'.catalog[n] = IF n = Table(r) THEN input[r].row ELSE disk.catalog[n]
          /\ disk'.backing = disk.backing \union {DataTable[Table(r)]}
      BY <2>1, <3>1, SetRowCatalog, SMTT(60) DEF Created, Databases
    <3>3. n # Table(r)
      BY <3>1 DEF Created
    <3>4. QED
      BY <1>1, <3>2, <3>3
  <2>6. CASE Op(r) = "DeleteTable"
    <3>1. Deleted(r) /\ Table(r) \in Names
      BY <1>2, <2>1, <2>6, AtCommit DEF Complete, SingleWrites
    <3>2. /\ disk'.catalog[n] = IF n = Table(r) THEN NoRow ELSE disk.catalog[n]
          /\ disk'.backing = disk.backing \ {DataTable[Table(r)]}
      BY <2>1, <3>1, SetRowCatalog DEF Deleted, Databases
    <3>3. n # Table(r) /\ disk.catalog[Table(r)] # NoRow
      BY <3>1 DEF Deleted, Deletable
    <3>4. DataTable[n] # DataTable[Table(r)]
      BY <3>1, <3>3 DEF Backed
    <3>5. QED
      BY <1>1, <3>2, <3>3, <3>4
  <2>7. QED
    BY <2>2, <2>3, <2>4, <2>5, <2>6
<1>3. ASSUME NEW r \in Requests, UpdateTags(r)
      PROVE  /\ disk'.catalog[n] # NoRow
             /\ disk'.catalog[n].protected
             /\ DataTable[n] \in disk'.backing
  BY <1>1, <1>3, UpdateTagsDisk DEF StoreInv
<1>4. QED
  BY <1>1, <1>2, <1>3, DiskChanges

-----------------------------------------------------------------------------
(* The theorems                                                            *)

LEMMA InitDisk == Init => Backed(disk) /\ Bounded(disk)
BY FilesAssumption DEF Init

(* No sequence of commits, cancellations, closings and crashes leaves a    *)
(* catalog row without its data table, a data table without its row, two   *)
(* rows on one table, or items in a table that does not exist              *)
(* (ops_table.go: the statements of CreateTable and DeleteTable).          *)
THEOREM CatalogBackedHolds == Spec => []CatalogBacked
<1>1. Init => StoreInv /\ CatalogBacked
  BY InitStore, InitDisk DEF CatalogBacked
<1>2. StoreInv /\ CatalogBacked /\ [Next]_vars => StoreInv' /\ CatalogBacked'
  BY NextStore, NextDisk DEF CatalogBacked
<1>3. QED
  BY <1>1, <1>2, PTL DEF Spec

(* However large the items that puts carry and updates compute, alone or   *)
(* in a transaction, none that is stored exceeds the limit (the tests of   *)
(* itemSize in PutItem, UpdateItem and the two phases of a transaction).   *)
THEOREM SizesBoundedHolds == Spec => []SizesBounded
<1>1. Init => StoreInv /\ SizesBounded
  BY InitStore, InitDisk DEF SizesBounded
<1>2. StoreInv /\ SizesBounded /\ [Next]_vars => StoreInv' /\ SizesBounded'
  BY NextStore, NextDisk DEF SizesBounded
<1>3. QED
  BY <1>1, <1>2, PTL DEF Spec

(* A protected table outlives every step, whatever its name shares with    *)
(* the names of other tables (opDeleteTable's test inside its transaction).*)
THEOREM ProtectionHoldsAlways == Spec => ProtectionHolds
<1>1. Init => StoreInv /\ Backed(disk)
  BY InitStore, InitDisk
<1>2. StoreInv /\ Backed(disk) /\ [Next]_vars => StoreInv' /\ Backed(disk)'
  BY NextStore, NextDisk
<1>3. StoreInv /\ Backed(disk) /\ [Next]_vars
        => [\A n \in Names :
              disk.catalog[n] # NoRow /\ disk.catalog[n].protected
              => /\ disk'.catalog[n] # NoRow
                 /\ disk'.catalog[n].protected
                 /\ DataTable[n] \in disk'.backing]_vars
  BY Protects
<1>4. QED
  BY <1>1, <1>2, <1>3, PTL DEF Spec, ProtectionHolds

(* No request names one SQLite table by two names of DynamoDB (SQLite      *)
(* folds case; two such tables never exist together, but a transaction may *)
(* name both, and its loads may see one after the other).                  *)
OneNamePerTable ==
    \A in \in ItemInputs : \A i, j \in DOMAIN in.acts :
        DataTable[in.acts[i].table] = DataTable[in.acts[j].table]
        => in.acts[i].table = in.acts[j].table

LEMMA TargetsApart ==
    ASSUME OneNamePerTable, NEW in \in ItemInputs, Apart(in.acts, Len(in.acts))
    PROVE  RowsApart(in.acts)
<1>1. in.acts \in Seq(Acts)
  BY InputsAssumption
<1>2. QED
  BY <1>1 DEF OneNamePerTable, Apart, RowsApart, SameTarget

LEMMA InvReadsCurrent ==
    ASSUME OneNamePerTable, StoreInv
    PROVE  ReadsCurrent
<1>1. ASSUME NEW r \in Requests, pc[r] = "write"
      PROVE  local[r].olds[1] = Cell(work, Act(r))
  BY <1>1 DEF StoreInv, ProgressInv, Progress, Checked
<1>2. ASSUME NEW r \in Requests, pc[r] = "apply",
             NEW i \in local[r].idx..ActCount(r)
      PROVE  local[r].olds[i] = Cell(work, input[r].acts[i])
  <2> DEFINE acts == input[r].acts
  <2>1. /\ input[r] \in ItemInputs /\ local[r].idx \in 1..Len(acts) /\ Len(acts) \in Nat
        /\ input[r].op = "TransactWriteItems"
    BY <1>2, AtAct, AtTx DEF StoreInv, ItemSteps, ActCount
  <2>2. i \in 1..Len(acts) /\ i \notin 1..(local[r].idx - 1)
    BY <2>1 DEF ActCount
  <2>3. Tested(r) /\ WrittenUpTo(r, local[r].idx - 1)
    BY <1>2 DEF StoreInv, ProgressInv, Progress
  <2>4. local[r].olds[i] = Cell(disk, acts[i])
    BY <2>2, <2>3 DEF Tested, ReadUpTo, ActCount
  <2>5. RowsApart(acts)
    BY <1>2, <2>1, TargetsApart DEF StoreInv, ParsedInv, Parsed
  <2>6. DataTable[acts[i].table] \in SqlNames /\ acts[i].key \in Keys
    BY <2>1, <2>2, ActTyped, NamesAssumption
  <2>7. ~\E j \in 1..(local[r].idx - 1) :
            DataTable[acts[j].table] = DataTable[acts[i].table] /\ acts[j].key = acts[i].key
    BY <2>1, <2>2, <2>5 DEF RowsApart
  <2>8. Cell(work, acts[i]) = Cell(disk, acts[i])
    BY <2>3, <2>6, <2>7, ZenonT(60) DEF WrittenUpTo, Cell
  <2>9. QED
    BY <2>4, <2>8
<1>3. QED
  BY <1>1, <1>2 DEF ReadsCurrent

(* What a write is computed from is what it replaces, whatever runs        *)
(* between the two (withTx around the read and the write; the repeated-    *)
(* target check of opTransactWriteItems inside one transaction).           *)
THEOREM ReadsCurrentHolds == OneNamePerTable => (Spec => []ReadsCurrent)
<1> SUFFICES ASSUME OneNamePerTable PROVE Spec => []ReadsCurrent
  OBVIOUS
<1>1. Init => StoreInv
  BY InitStore
<1>2. StoreInv /\ [Next]_vars => StoreInv'
  BY NextStore
<1>3. StoreInv => ReadsCurrent
  BY InvReadsCurrent
<1>4. QED
  BY <1>1, <1>2, <1>3, PTL DEF Spec

=============================================================================
