-------------------------- MODULE RefinementProofs --------------------------
(***************************************************************************)
(* The handle implements AtomicStore: every step of every handler is one   *)
(* of its steps, or none, as the client sees it.                           *)
(***************************************************************************)
EXTENDS StoreProofs

(* No two names of DynamoDB are one name to SQLite, which folds case.  Two *)
(* such tables never exist together, but a request that has loaded one may *)
(* find the other in its place.                                            *)
OneTablePerName ==
    \A n, m \in Names : DataTable[n] = DataTable[m] => n = m

-----------------------------------------------------------------------------
(* AtomicStore's data is dynar's                                           *)

LEMMA SameData ==
    /\ \A act, old : Atomic!NewItem(act, old) = NewItem(act, old)
    /\ \A act, old : Atomic!CountedSize(act, old) = CountedSize(act, old)
    /\ \A item : Atomic!Storable(item) <=> Storable(item)
    /\ \A f, n : Atomic!SumUpTo(f, n) = SumUpTo(f, n)
    /\ \A tokens, now : Atomic!Purge(tokens, now) = Purge(tokens, now)
    /\ \A a, b : Atomic!SameTarget(a, b) <=> SameTarget(a, b)
    /\ \A code : Atomic!Reply(code) = Reply(code)
    /\ \A reasons : Atomic!Cancellation(reasons) = Cancellation(reasons)
    /\ Atomic!EmptyTable = [k \in Keys |-> NoItem]
<1>1. \A act, old : Atomic!NewItem(act, old) = NewItem(act, old)
  BY DEF Atomic!NewItem, NewItem
<1>2. \A act, old : Atomic!CountedSize(act, old) = CountedSize(act, old)
  BY <1>1 DEF Atomic!CountedSize, CountedSize
<1>3. \A item : Atomic!Storable(item) <=> Storable(item)
  BY DEF Atomic!Storable, Storable
<1>4. \A f, n : Atomic!SumUpTo(f, n) = SumUpTo(f, n)
  BY DEF Atomic!SumUpTo, SumUpTo
<1>5. \A tokens, now : Atomic!Purge(tokens, now) = Purge(tokens, now)
  BY DEF Atomic!Purge, Atomic!Expired, Purge, Expired
<1>6. \A a, b : Atomic!SameTarget(a, b) <=> SameTarget(a, b)
  BY DEF Atomic!SameTarget, SameTarget
<1>7. \A code : Atomic!Reply(code) = Reply(code)
  BY DEF Atomic!Reply, Reply
<1>8. \A reasons : Atomic!Cancellation(reasons) = Cancellation(reasons)
  BY <1>7 DEF Atomic!Cancellation, Cancellation
<1>9. Atomic!EmptyTable = [k \in Keys |-> NoItem]
  BY DEF Atomic!EmptyTable
<1>10. QED
  BY <1>1, <1>2, <1>3, <1>4, <1>5, <1>6, <1>7, <1>8, <1>9

(* A table that exists is seen with its facts and its items.               *)
LEMMA SeenRow ==
    ASSUME TypeInv, NEW n \in Names
    PROVE  /\ CatalogSeen[n] = NoRow <=> disk.catalog[n] = NoRow
           /\ disk.catalog[n] # NoRow =>
                 /\ CatalogSeen[n] = [type |-> disk.catalog[n].type,
                                      protected |-> disk.catalog[n].protected]
                 /\ CatalogSeen[n].type = disk.catalog[n].type
                 /\ CatalogSeen[n].protected = disk.catalog[n].protected
                 /\ DataSeen[n] = disk.data[DataTable[n]]
           /\ disk.catalog[n] = NoRow => DataSeen[n] = [k \in Keys |-> NoItem]
<1>1. disk.catalog[n] \in Rows \union {NoRow}
  BY DEF TypeInv, TypeOK, Databases
<1>2. CASE disk.catalog[n] = NoRow
  BY <1>2 DEF CatalogSeen, DataSeen
<1>3. CASE disk.catalog[n] # NoRow
  <2>1. [type |-> disk.catalog[n].type, protected |-> disk.catalog[n].protected] \in RowFacts
    BY <1>1, <1>3 DEF Rows, RowFacts
  <2>2. QED
    BY <1>3, <2>1, NamesAssumption DEF CatalogSeen, DataSeen
<1>4. QED
  BY <1>2, <1>3

LEMMA SeenCell ==
    ASSUME TypeInv, Backed(disk), OneTablePerName, NEW act \in Acts, Exists(disk, act)
    PROVE  /\ CatalogSeen[act.table] # NoRow
           /\ Atomic!Old(act) = Cell(disk, act)
           /\ Atomic!Outcome(act) = Holds[act.cond][Cell(disk, act)]
           /\ Atomic!Fits(act) <=>
                 (act.kind \in {"Put", "Update"} => Storable(NewItem(act, Cell(disk, act))))
<1>1. act.table \in Names
  BY DEF Acts
<1>2. disk.catalog[act.table] # NoRow
  BY <1>1 DEF Exists, Backed, OneTablePerName
<1>3. CatalogSeen[act.table] # NoRow /\ Atomic!Old(act) = Cell(disk, act)
  BY <1>1, <1>2, SeenRow DEF Atomic!Old, Cell
<1>4. QED
  BY <1>3, SameData DEF Atomic!Outcome, Atomic!Fits

(* The committed database does not change, and neither does what is seen.  *)
LEMMA SeenSame ==
    ASSUME disk' = disk
    PROVE  CatalogSeen' = CatalogSeen /\ DataSeen' = DataSeen
BY DEF CatalogSeen, DataSeen

LEMMA SeenPhase ==
    ASSUME TypeInv, NEW r \in Requests, NEW step, pc' = [pc EXCEPT ![r] = step]
    PROVE  /\ PhaseSeen' = [PhaseSeen EXCEPT ![r] = Phase(step)]
           /\ PhaseSeen[r] = Phase(pc[r]) /\ PhaseSeen'[r] = Phase(step)
BY DEF PhaseSeen, TypeInv, TypeOK

LEMMA OpenSteps ==
    /\ \A step \in Steps \ {"idle", "created", "answered", "done"} : Phase(step) = "open"
    /\ Phase("idle") = "none" /\ Phase("created") = "created"
    /\ Phase("answered") = "answered" /\ Phase("done") = "answered"
BY DEF Phase

(* A step within a handler that no client sees.                            *)
LEMMA UnseenStep ==
    ASSUME TypeInv, NEW r \in Requests, NEW step, Goto(r, step),
           Phase(step) = Phase(pc[r]), UNCHANGED <<disk, clock>>
    PROVE  UNCHANGED Atomic!vars
<1>1. PhaseSeen' = PhaseSeen
  BY DEF Goto, PhaseSeen, TypeInv, TypeOK
<1>2. QED
  BY <1>1, SeenSame DEF Goto, Atomic!vars

(* A step that answers an open request and leaves the database alone.      *)
LEMMA RefusalSeen ==
    ASSUME TypeInv, NEW r \in Requests, NEW answer, AnswerWith(r, answer),
           Phase(pc[r]) = "open", UNCHANGED <<disk, clock>>
    PROVE  Atomic!Refuse(r, answer) /\ PhaseSeen'[r] # "open" /\ PhaseSeen[r] = "open"
<1>1. /\ PhaseSeen' = [PhaseSeen EXCEPT ![r] = "answered"]
      /\ PhaseSeen[r] = "open" /\ PhaseSeen'[r] = "answered"
  BY SeenPhase, OpenSteps DEF AnswerWith
<1>2. QED
  BY <1>1, SeenSame DEF AnswerWith, Atomic!Refuse, Atomic!Answer, Atomic!database

LEMMA Settles ==
    ASSUME NEW r \in Requests, PhaseSeen[r] = "open", PhaseSeen'[r] # "open",
           Atomic!Settlement(r)
    PROVE  Atomic!Next
BY DEF Atomic!Settle, Atomic!Next

(* The store may always fail.                                              *)
LEMMA FailureSeen ==
    ASSUME TypeInv, NEW r \in Requests, Answer(r, "InternalServerError"),
           Phase(pc[r]) = "open", UNCHANGED <<disk, clock>>
    PROVE  Atomic!Next
<1>1. /\ Atomic!Refuse(r, Reply("InternalServerError"))
      /\ PhaseSeen'[r] # "open" /\ PhaseSeen[r] = "open"
  BY RefusalSeen DEF Answer
<1>2. Atomic!Settlement(r)
  BY <1>1, SameData DEF Atomic!Fails, Atomic!Settlement
<1>3. QED
  BY <1>1, <1>2, Settles

-----------------------------------------------------------------------------
(* The entry and the exit of a request, and the handle                     *)

LEMMA DoSeen ==
    ASSUME TypeInv, NEW r \in Requests, NEW in \in Inputs, Do(r, in)
    PROVE  Atomic!Next
<1>1. /\ pc[r] = "idle" /\ input' = [input EXCEPT ![r] = in]
      /\ UNCHANGED <<disk, clock>>
  BY DEF Do, db
<1>2. /\ \/ pc' = [pc EXCEPT ![r] = FirstStep(in)] /\ UNCHANGED reply
         \/ \E code \in {"DatabaseClosedError", "RequestCanceled"} :
               /\ pc' = [pc EXCEPT ![r] = "done"]
               /\ reply' = [reply EXCEPT ![r] = Reply(code)]
  BY DEF Do
<1>3. Phase(FirstStep(in)) = "open"
  BY DEF FirstStep, Phase
<1>4. PhaseSeen[r] = "none"
  BY <1>1, OpenSteps DEF PhaseSeen
<1>5. \/ PhaseSeen' = [PhaseSeen EXCEPT ![r] = "open"] /\ UNCHANGED reply
      \/ \E code \in {"DatabaseClosedError", "RequestCanceled"} :
            /\ PhaseSeen' = [PhaseSeen EXCEPT ![r] = "answered"]
            /\ reply' = [reply EXCEPT ![r] = Atomic!Reply(code)]
  BY <1>2, <1>3, SeenPhase, OpenSteps, SameData
<1>6. Atomic!Invoke(r, in)
  BY <1>1, <1>4, <1>5, SeenSame DEF Atomic!Invoke, Atomic!database
<1>7. Atomic!Inputs = Inputs
  BY DEF Atomic!Inputs, Inputs
<1>8. QED
  BY <1>6, <1>7 DEF Atomic!Next

LEMMA ReturnSeen ==
    ASSUME TypeInv, NEW r \in Requests, Return(r)
    PROVE  Atomic!Next
<1>1. /\ PhaseSeen' = [PhaseSeen EXCEPT ![r] = "none"]
      /\ PhaseSeen[r] = "answered"
  BY SeenPhase, OpenSteps DEF Return
<1>2. Atomic!Return(r)
  BY <1>1, SeenSame, SameData DEF Return, NoReply, db, Atomic!Return, Atomic!database
<1>3. QED
  BY <1>2 DEF Atomic!Next

LEMMA HandleSeen ==
    ASSUME TypeInv,
           \/ \E r \in Requests : Cancel(r)
           \/ Tick \/ CloseFlag \/ CloseSql \/ Crash \/ Reopen
    PROVE  Atomic!Next \/ UNCHANGED Atomic!vars
<1>1. CASE (\E r \in Requests : Cancel(r)) \/ CloseFlag \/ CloseSql \/ Reopen
  <2>1. UNCHANGED <<disk, clock, pc, input, reply>>
    BY <1>1 DEF Cancel, CloseFlag, CloseSql, Reopen, db, task
  <2>2. QED
    BY <2>1, SeenSame DEF PhaseSeen, Atomic!vars
<1>2. CASE Tick
  <2>1. UNCHANGED <<disk, pc, input, reply>> /\ clock' = clock + 1
    BY <1>2 DEF Tick, db, task
  <2>2. Atomic!Tick
    BY <2>1, SeenSame DEF PhaseSeen, Atomic!Tick
  <2>3. QED
    BY <2>2 DEF Atomic!Next
<1>3. CASE Crash
  <2>1. PhaseSeen' = [r \in Requests |-> "none"]
    BY <1>3, OpenSteps DEF Crash, PhaseSeen
  <2>2. Atomic!Crash
    BY <1>3, <2>1, SeenSame, SameData DEF Crash, NoReply, Atomic!Crash, Atomic!database
  <2>3. QED
    BY <2>2 DEF Atomic!Next
<1>4. QED
  BY <1>1, <1>2, <1>3

LEMMA BeginSeen ==
    ASSUME TypeInv, NEW r \in Requests, Begin(r)
    PROVE  UNCHANGED Atomic!vars
<1>1. Phase(FirstTxStep(Op(r))) = "open" /\ Phase(pc[r]) = "open"
  BY DEF Begin, FirstTxStep, Phase
<1>2. QED
  BY <1>1, UnseenStep DEF Begin

LEMMA FinishSeen ==
    ASSUME TypeInv, NEW r \in Requests, Finish(r)
    PROVE  Atomic!Next \/ UNCHANGED Atomic!vars
<1>1. /\ PhaseSeen' = [PhaseSeen EXCEPT ![r] = "answered"]
      /\ PhaseSeen[r] = "answered"
  BY SeenPhase, OpenSteps, ZenonT(60) DEF Finish
<1>2. UNCHANGED <<disk, clock, input>>
  BY DEF Finish, db
<1>3. CASE reply' = reply
  <2>1. PhaseSeen' = PhaseSeen
    BY <1>1 DEF PhaseSeen
  <2>2. QED
    BY <1>2, <1>3, <2>1, SeenSame DEF Atomic!vars
<1>4. CASE reply[r].code = "ok" /\ reply' = [reply EXCEPT ![r] = Reply("RequestCanceled")]
  <2>1. Atomic!Withdraw(r)
    BY <1>1, <1>2, <1>4, SeenSame, SameData
       DEF Atomic!Withdraw, Atomic!Answer, Atomic!database
  <2>2. QED
    BY <2>1 DEF Atomic!Next
<1>5. QED
  BY <1>3, <1>4 DEF Finish

LEMMA StatementFailsSeen ==
    ASSUME TypeInv, ParsedInv, NEW r \in Requests, StatementFails(r)
    PROVE  Atomic!Next
<1>1. /\ Answer(r, FailureCode(pc[r])) /\ UNCHANGED <<disk, clock>>
      /\ pc[r] \in StatementSteps \union {"begin"}
  BY DEF StatementFails, db
<1>2. CASE pc[r] = "created"
  <2>1. /\ PhaseSeen' = [PhaseSeen EXCEPT ![r] = "answered"]
        /\ PhaseSeen[r] = "created"
    BY <1>1, <1>2, SeenPhase, OpenSteps DEF Answer, AnswerWith
  <2>2. FailureCode(pc[r]) = "InternalServerError"
    BY <1>2 DEF FailureCode
  <2>3. Atomic!DescribeCreated(r)
    BY <1>1, <2>1, <2>2, SeenSame, SameData
       DEF Answer, AnswerWith, Atomic!DescribeCreated, Atomic!Answer, Atomic!database
  <2>4. QED
    BY <2>3 DEF Atomic!Next
<1>3. CASE pc[r] \in {"resolve", "reload"}
  <2>1. FailureCode(pc[r]) \in {"ResourceNotFoundException", "panic"}
        /\ Phase(pc[r]) = "open"
    BY <1>3 DEF FailureCode, Phase
  <2>2. /\ Atomic!Refuse(r, Reply(FailureCode(pc[r])))
        /\ PhaseSeen'[r] # "open" /\ PhaseSeen[r] = "open"
    BY <1>1, <2>1, RefusalSeen DEF Answer
  <2>3. Atomic!Asks(r, {"ListTagsOfResource", "TagResource", "UntagResource"})
    BY <1>3, <2>2 DEF ParsedInv, Parsed, Atomic!Asks
  <2>4. Atomic!Inspect(r)
    BY <2>1, <2>2, <2>3, SameData DEF Atomic!Inspect
  <2>5. QED
    BY <2>2, <2>4, Settles DEF Atomic!Settlement
<1>4. CASE pc[r] \notin {"created", "resolve", "reload"}
  <2>1. FailureCode(pc[r]) = "InternalServerError" /\ Phase(pc[r]) = "open"
    BY <1>1, <1>4 DEF FailureCode, Phase, StatementSteps
  <2>2. QED
    BY <1>1, <2>1, FailureSeen
<1>5. QED
  BY <1>2, <1>3, <1>4

LEMMA TxFailsSeen ==
    ASSUME TypeInv, NEW r \in Requests, TxFails(r)
    PROVE  Atomic!Next
<1>1. Phase(pc[r]) = "open"
  BY DEF TxFails, TxSteps, Phase
<1>2. QED
  BY <1>1, FailureSeen DEF TxFails, Rollback

-----------------------------------------------------------------------------
(* The item operations                                                     *)

(* The act that a request is at is one of those it asked for.              *)
LEMMA AskedAct ==
    ASSUME TypeInv, NEW r \in Requests, pc[r] \in ItemSteps
    PROVE  /\ local[r].idx \in DOMAIN Atomic!Parts(r)
           /\ Atomic!Parts(r)[local[r].idx] = Act(r)
           /\ Act(r) \in Acts /\ Act(r).table \in Names
           /\ input[r].op \in ItemOpNames
           /\ PhaseSeen[r] = "open"
           /\ Phase(pc[r]) = "open"
<1>1. /\ local[r].idx \in 1..Len(input[r].acts) /\ input[r] \in ItemInputs
      /\ Act(r) \in Acts
  BY AtAct DEF ActCount
<1>2. input[r].acts \in Seq(Acts) /\ input[r].op \in ItemOpNames
  BY <1>1, InputsAssumption
<1>3. PhaseSeen[r] = "open" /\ Phase(pc[r]) = "open"
  BY DEF PhaseSeen, Phase, ItemSteps
<1>4. QED
  BY <1>1, <1>2, <1>3 DEF Atomic!Parts, Act, Acts

(* A table that a request names and the catalog does not have.             *)
LEMMA MissingSeen ==
    ASSUME TypeInv, NEW r \in Requests, pc[r] \in ItemSteps,
           disk.catalog[Act(r).table] = NoRow,
           Answer(r, "ResourceNotFoundException"), UNCHANGED <<disk, clock>>
    PROVE  Atomic!Next
<1>1. /\ Atomic!Refuse(r, Reply("ResourceNotFoundException"))
      /\ PhaseSeen'[r] # "open" /\ PhaseSeen[r] = "open"
  BY AskedAct, RefusalSeen DEF Answer
<1>2. ~Atomic!Cataloged(Atomic!Parts(r))
  <2>1. CatalogSeen[Act(r).table] = NoRow
    BY AskedAct, SeenRow
  <2>2. QED
    BY <2>1, AskedAct DEF Atomic!Cataloged
<1>3. Atomic!TableMissing(r)
  BY <1>1, <1>2, AskedAct, SameData
     DEF Atomic!TableMissing, Atomic!Asks, Atomic!ItemOpNames, ItemOpNames
<1>4. QED
  BY <1>1, <1>3, Settles DEF Atomic!Settlement

(* A request that AtomicStore finds invalid.                               *)
LEMMA InvalidSeen ==
    ASSUME TypeInv, NEW r \in Requests, pc[r] \in ItemSteps,
           Answer(r, "ValidationException"), UNCHANGED <<disk, clock>>,
           \/ ~Atomic!Distinct(Atomic!Parts(r))
           \/ /\ CatalogSeen[Act(r).table] # NoRow
              /\ KeyType[Act(r).key] # CatalogSeen[Act(r).table].type
           \/ input[r].op # "TransactWriteItems" /\ ~Atomic!Fits(Act(r))
           \/ Atomic!Outcome(Act(r)) = "error"
    PROVE  Atomic!Next
<1>1. /\ Atomic!Refuse(r, Reply("ValidationException"))
      /\ PhaseSeen'[r] # "open" /\ PhaseSeen[r] = "open"
  BY AskedAct, RefusalSeen DEF Answer
<1>2. Atomic!Asks(r, Atomic!ItemOpNames)
  BY AskedAct DEF Atomic!Asks, Atomic!ItemOpNames, ItemOpNames
<1>3. Atomic!Invalid(r)
  BY <1>1, <1>2, AskedAct, SameData DEF Atomic!Invalid
<1>4. QED
  BY <1>1, <1>3, Settles DEF Atomic!Settlement

LEMMA LoadItemSeen ==
    ASSUME TypeInv, NEW r \in Requests, LoadItemTable(r)
    PROVE  Atomic!Next \/ UNCHANGED Atomic!vars
<1> DEFINE act == Act(r)
           row == disk.catalog[act.table]
<1>1. /\ pc[r] = "load" /\ pc[r] \in ItemSteps /\ UNCHANGED <<disk, clock>>
      /\ Op(r) # "TransactWriteItems"
  BY DEF LoadItemTable, Reads, db, ItemSteps, SingleWrites
<1>2. CASE row = NoRow /\ Answer(r, "ResourceNotFoundException")
  BY <1>1, <1>2, MissingSeen
<1>3. CASE row # NoRow /\ ~Accepts(row, act) /\ Answer(r, "ValidationException")
  <2>1. CASE ~FitsSchema(row, act)
    <3>1. /\ CatalogSeen[act.table] # NoRow
          /\ KeyType[act.key] # CatalogSeen[act.table].type
      BY <1>1, <1>3, <2>1, AskedAct, SeenRow DEF FitsSchema
    <3>2. QED
      BY <1>1, <1>3, <3>1, InvalidSeen
  <2>2. CASE act.kind = "Put" /\ ~Storable(act.value)
    <3>1. ~Atomic!Fits(act)
      BY <2>2, SameData DEF Atomic!Fits, NewItem
    <3>2. QED
      BY <1>1, <1>3, <3>1, InvalidSeen DEF Op
  <2>3. QED
    BY <1>3, <2>1, <2>2 DEF Accepts
<1>4. CASE Goto(r, IF Op(r) = "GetItem" THEN "get" ELSE "begin")
  BY <1>1, <1>4, UnseenStep DEF Phase
<1>5. QED
  BY <1>2, <1>3, <1>4 DEF LoadItemTable

(* The steps of a single-item request have its only act.                   *)
LEMMA OnlyAct ==
    ASSUME TypeInv, ParsedInv, NEW r \in Requests,
           pc[r] \in {"get", "check", "write"}
    PROVE  /\ pc[r] \in ItemSteps
           /\ Atomic!Parts(r)[1] = Act(r)
           /\ DOMAIN Atomic!Parts(r) = {1}
           /\ pc[r] = "get" => input[r].op = "GetItem"
           /\ pc[r] # "get" => input[r].op \in SingleWrites
<1>1. pc[r] \in ItemSteps
  BY DEF ItemSteps
<1>2. /\ pc[r] = "get" => input[r].op = "GetItem"
      /\ pc[r] # "get" => input[r].op \in SingleWrites
  BY DEF ParsedInv, Parsed, TypeInv, ControlOK, Control
<1>3. input[r] \in ItemInputs /\ local[r].idx \in 1..Len(input[r].acts)
  BY <1>1, AtAct DEF ActCount
<1>4. Len(input[r].acts) = 1 /\ input[r].acts \in Seq(Acts)
  BY <1>2, <1>3, InputsAssumption DEF SingleWrites
<1>5. QED
  BY <1>1, <1>2, <1>3, <1>4 DEF Atomic!Parts, Act

LEMMA GetItemSeen ==
    ASSUME TypeInv, ParsedInv, Backed(disk), OneTablePerName,
           NEW r \in Requests, GetItem(r)
    PROVE  Atomic!Next
<1> DEFINE act == Act(r)
<1>1. pc[r] = "get" /\ UNCHANGED <<disk, clock>>
  BY DEF GetItem, Reads, db
<1>2. /\ Atomic!Parts(r)[1] = act /\ DOMAIN Atomic!Parts(r) = {1}
      /\ input[r].op = "GetItem" /\ Phase(pc[r]) = "open" /\ act \in Acts
  BY <1>1, OnlyAct, AskedAct
<1>3. CASE Exists(disk, act) /\ AnswerWith(r, [Reply("ok") EXCEPT !.item = Cell(disk, act)])
  <2>1. Atomic!Old(act) = Cell(disk, act) /\ Atomic!Cataloged(Atomic!Parts(r))
    BY <1>2, <1>3, SeenCell DEF Atomic!Cataloged
  <2>2. /\ Atomic!Refuse(r, [Reply("ok") EXCEPT !.item = Cell(disk, act)])
        /\ PhaseSeen'[r] # "open" /\ PhaseSeen[r] = "open"
    BY <1>1, <1>2, <1>3, RefusalSeen
  <2>3. Atomic!Found(r) = [Reply("ok") EXCEPT !.item = Cell(disk, act)]
    BY <1>2, <2>1, SameData DEF Atomic!Found
  <2>4. Atomic!ReadItem(r)
    BY <1>2, <2>1, <2>2, <2>3 DEF Atomic!ReadItem, Atomic!Asks
  <2>5. QED
    BY <2>2, <2>4, Settles DEF Atomic!Settlement
<1>4. CASE Answer(r, "InternalServerError")
  BY <1>1, <1>2, <1>4, FailureSeen
<1>5. QED
  BY <1>3, <1>4 DEF GetItem

LEMMA CheckFailsSeen ==
    ASSUME TypeInv, ParsedInv, ProgressInv, Backed(disk), OneTablePerName,
           NEW r \in Requests, CheckFails(r)
    PROVE  Atomic!Next
<1> DEFINE act == Act(r)
           old == Cell(disk, act)
<1>1. /\ pc[r] = "check" /\ UNCHANGED <<disk, clock>> /\ work = disk
      /\ AnswerWith(r, CheckRefusal(act)) /\ CheckRefusal(act) # NoReply
  BY DEF CheckFails, Rollback, ProgressInv, Progress
<1>2. /\ Atomic!Parts(r)[1] = act /\ DOMAIN Atomic!Parts(r) = {1}
      /\ input[r].op \in SingleWrites /\ Phase(pc[r]) = "open" /\ act \in Acts
      /\ pc[r] \in ItemSteps
  BY <1>1, OnlyAct, AskedAct
<1>3. CASE ~Exists(disk, act) /\ CheckRefusal(act) = Reply("InternalServerError")
  BY <1>1, <1>2, <1>3, FailureSeen DEF Answer
<1>4. CASE /\ Exists(disk, act) /\ Holds[act.cond][old] = "error"
           /\ CheckRefusal(act) = Reply("ValidationException")
  <2>1. Atomic!Outcome(act) = "error"
    BY <1>2, <1>4, SeenCell
  <2>2. QED
    BY <1>1, <1>2, <1>4, <2>1, InvalidSeen DEF Answer
<1>5. CASE /\ Exists(disk, act) /\ Holds[act.cond][old] = "no"
           /\ CheckRefusal(act) = [Reply("ConditionalCheckFailedException") EXCEPT !.item = old]
  <2>1. /\ Atomic!Outcome(act) = "no" /\ Atomic!Cataloged(Atomic!Parts(r))
        /\ Atomic!Old(act) = old
    BY <1>2, <1>5, SeenCell DEF Atomic!Cataloged
  <2>2. /\ Atomic!Refuse(r, [Reply("ConditionalCheckFailedException") EXCEPT !.item = old])
        /\ PhaseSeen'[r] # "open" /\ PhaseSeen[r] = "open"
    BY <1>1, <1>2, <1>5, RefusalSeen
  <2>3. Atomic!ConditionFails(r)
    BY <1>2, <2>1, <2>2, SameData DEF Atomic!ConditionFails, Atomic!Asks, SingleWrites
  <2>4. QED
    BY <2>2, <2>3, Settles DEF Atomic!Settlement
<1>6. CASE /\ Exists(disk, act) /\ act.kind = "Update" /\ ~Storable(NewItem(act, old))
           /\ CheckRefusal(act) = Reply("ValidationException")
  <2>1. ~Atomic!Fits(act)
    BY <1>2, <1>6, SeenCell
  <2>2. QED
    BY <1>1, <1>2, <1>6, <2>1, InvalidSeen DEF Answer, SingleWrites
<1>7. QED
  BY <1>1, <1>3, <1>4, <1>5, <1>6 DEF CheckRefusal

LEMMA ItemSeen ==
    ASSUME TypeInv, ParsedInv, ProgressInv, Backed(disk), OneTablePerName,
           NEW r \in Requests, ItemStep(r)
    PROVE  Atomic!Next \/ UNCHANGED Atomic!vars
<1>1. CASE CheckItem(r)
  BY <1>1, UnseenStep, SeenSame
     DEF CheckItem, TxReads, InTx, Phase
<1>2. CASE WriteItem(r)
  BY <1>2, UnseenStep DEF WriteItem, InTx, Phase
<1>3. QED
  BY <1>1, <1>2, LoadItemSeen, GetItemSeen, CheckFailsSeen DEF ItemStep

-----------------------------------------------------------------------------
(* TransactWriteItems                                                      *)

LEMMA ParseSeen ==
    ASSUME TypeInv, NEW r \in Requests, ParseTxItem(r)
    PROVE  Atomic!Next \/ UNCHANGED Atomic!vars
<1> DEFINE act == Act(r)
           row == disk.catalog[act.table]
<1>1. /\ pc[r] = "load" /\ pc[r] \in ItemSteps /\ UNCHANGED <<disk, clock>>
  BY DEF ParseTxItem, Reads, db, ItemSteps
<1>2. CASE row = NoRow /\ Answer(r, "ResourceNotFoundException")
  BY <1>1, <1>2, MissingSeen
<1>3. CASE row # NoRow /\ ~FitsSchema(row, act) /\ Answer(r, "ValidationException")
  <2>1. /\ CatalogSeen[act.table] # NoRow
        /\ KeyType[act.key] # CatalogSeen[act.table].type
    BY <1>1, <1>3, AskedAct, SeenRow DEF FitsSchema
  <2>2. QED
    BY <1>1, <1>3, <2>1, InvalidSeen
<1>4. CASE RepeatsTarget(r) /\ Answer(r, "ValidationException")
  <2>1. PICK j \in 1..(local[r].idx - 1) : SameTarget(input[r].acts[j], Act(r))
    BY <1>4 DEF RepeatsTarget, TransactItems
  <2>2. /\ local[r].idx \in 1..Len(input[r].acts) /\ input[r].acts \in Seq(Acts)
        /\ Len(input[r].acts) \in Nat
    BY <1>1, AtAct, ActTyped DEF ActCount
  <2>3. /\ j \in DOMAIN Atomic!Parts(r) /\ j # local[r].idx
        /\ Atomic!Parts(r)[j] = input[r].acts[j]
    BY <2>2 DEF Atomic!Parts
  <2>4. ~Atomic!Distinct(Atomic!Parts(r))
    BY <1>1, <2>1, <2>3, AskedAct, SameData DEF Atomic!Distinct
  <2>5. QED
    BY <1>1, <1>4, <2>4, InvalidSeen
<1>5. CASE Goto(r, "load") \/ Goto(r, "begin")
  BY <1>1, <1>5, UnseenStep DEF Phase
<1>6. QED
  BY <1>2, <1>3, <1>4, <1>5 DEF ParseTxItem

LEMMA LookUpSeen ==
    ASSUME TypeInv, ProgressInv, NEW r \in Requests, LookUpToken(r)
    PROVE  Atomic!Next \/ UNCHANGED Atomic!vars
<1> DEFINE kept == Purge(disk.tokens, local[r].now)
<1>1. /\ pc[r] = "token" /\ UNCHANGED <<disk, clock>> /\ work = disk
      /\ pc[r] \in ItemSteps
  BY DEF LookUpToken, Rollback, InTx, ItemSteps, ProgressInv, Progress
<1>2. CASE Goto(r, "checkAll") \/ Goto(r, "commit")
  BY <1>1, <1>2, UnseenStep DEF Phase
<1>3. CASE /\ Token(r) # NoToken /\ kept[Token(r)] # NoStamp
           /\ ~SameRequest(kept[Token(r)], r)
           /\ Answer(r, "IdempotentParameterMismatchException")
  <2>1. input[r] \in ItemInputs /\ input[r].op = "TransactWriteItems"
    BY <1>1, AtTx
  <2>2. Token(r) \in Tokens
    BY <1>3, <2>1, InputsAssumption DEF Token
  <2>3. /\ disk.tokens[Token(r)] # NoStamp
        /\ disk.tokens[Token(r)].request # input[r]
    BY <1>3, <2>2 DEF Purge, SameRequest
  <2>4. /\ Atomic!Refuse(r, Reply("IdempotentParameterMismatchException"))
        /\ PhaseSeen'[r] # "open" /\ PhaseSeen[r] = "open"
    BY <1>1, <1>3, AskedAct, RefusalSeen DEF Answer
  <2>5. Atomic!TokenMismatch(r)
    BY <1>3, <2>1, <2>3, <2>4, SameData DEF Atomic!TokenMismatch, Atomic!Asks, Token
  <2>6. QED
    BY <2>4, <2>5, Settles DEF Atomic!Settlement
<1>4. QED
  BY <1>1, <1>2, <1>3 DEF LookUpToken

(* A sequence of the reasons of a cancellation, as AtomicStore gives it.   *)
LEMMA SeqIsFunction ==
    ASSUME NEW S, NEW s \in Seq(S), NEW n \in Nat, Len(s) = n
    PROVE  s = [i \in 1..n |-> s[i]]
BY SeqDef

LEMMA CheckTxSeen ==
    ASSUME TypeInv, ParsedInv, ProgressInv, Backed(disk), OneTablePerName,
           NEW r \in Requests, CheckTxItem(r)
    PROVE  Atomic!Next \/ UNCHANGED Atomic!vars
<1> DEFINE acts == input[r].acts
           i    == local[r].idx
           act  == Act(r)
           old  == Cell(disk, act)
           all  == Append(local[r].reasons, Reason(act, old))
<1>1. /\ pc[r] = "checkAll" /\ UNCHANGED <<disk, clock>> /\ pc[r] \in ItemSteps
  BY DEF CheckTxItem, Rollback, TxReads, InTx, ItemSteps
<1>2. /\ work.data = disk.data /\ work.backing = disk.backing
      /\ ReadUpTo(r, i - 1)
  BY <1>1 DEF ProgressInv, Progress, Purged
<1>3. Cell(work, act) = old /\ (Exists(work, act) <=> Exists(disk, act))
  BY <1>2 DEF Cell, Exists
<1>4. /\ act \in Acts /\ act = acts[i] /\ Phase(pc[r]) = "open"
      /\ input[r] \in ItemInputs /\ input[r].op = "TransactWriteItems"
  BY <1>1, AskedAct, AtTx DEF Act
<1>5. CASE Answer(r, "InternalServerError")
  BY <1>1, <1>4, <1>5, FailureSeen
<1>6. CASE Exists(disk, act) /\ Holds[act.cond][old] = "error" /\ Answer(r, "ValidationException")
  <2>1. Atomic!Outcome(act) = "error"
    BY <1>4, <1>6, SeenCell
  <2>2. QED
    BY <1>1, <1>6, <2>1, InvalidSeen
<1>7. CASE /\ Exists(disk, act) /\ Holds[act.cond][old] # "error"
           /\ i = ActCount(r) /\ Failed(all) /\ AnswerWith(r, Cancellation(all))
  <2> DEFINE n == Len(acts)
  <2>1. /\ n \in Nat /\ i = n /\ i \in 1..n /\ acts \in Seq(Acts)
        /\ DOMAIN Atomic!Parts(r) = 1..n /\ Atomic!Parts(r) = acts
    BY <1>1, <1>4, <1>7, AtAct, ActTyped DEF ActCount, Atomic!Parts
  <2>2. local[r].reasons \in Seq(Reasons) /\ Len(local[r].reasons) = n - 1
    BY <1>1, <2>1, AtTx DEF ParsedInv, Parsed
  <2>3. Reason(act, old) \in Reasons
    BY DEF Reason, Reasons
  <2>4. /\ all \in Seq(Reasons) /\ Len(all) = n /\ all[n] = Reason(act, old)
        /\ \A j \in 1..(n - 1) : all[j] = local[r].reasons[j]
    <3> HIDE DEF n, i, act, old, acts
    <3>1. QED
      BY <2>1, <2>2, <2>3
  <2> HIDE DEF all
  <2>5. ASSUME NEW j \in 1..n
        PROVE  /\ CatalogSeen[acts[j].table] # NoRow
               /\ Atomic!Outcome(acts[j]) # "error"
               /\ all[j] = IF Atomic!Outcome(acts[j]) = "no"
                           THEN "ConditionalCheckFailed" ELSE "None"
    <3>1. acts[j] \in Acts
      BY <2>1
    <3>2. /\ Exists(disk, acts[j]) /\ Holds[acts[j].cond][Cell(disk, acts[j])] # "error"
          /\ all[j] = Reason(acts[j], Cell(disk, acts[j]))
      <4>1. CASE j = n
        BY <1>4, <1>7, <2>1, <2>4, <4>1
      <4>2. CASE j # n
        <5>1. j \in 1..(i - 1) /\ j \in 1..(n - 1)
          BY <2>1, <4>2
        <5>2. /\ Exists(disk, acts[j]) /\ local[r].olds[j] = Cell(disk, acts[j])
              /\ Holds[acts[j].cond][local[r].olds[j]] # "error"
              /\ local[r].reasons[j] = Reason(acts[j], local[r].olds[j])
          BY <1>2, <5>1 DEF ReadUpTo
        <5>3. QED
          BY <2>4, <5>1, <5>2
      <4>3. QED
        BY <4>1, <4>2
    <3>3. QED
      BY <3>1, <3>2, SeenCell DEF Reason
  <2>6. all = [j \in 1..n |-> IF Atomic!Outcome(acts[j]) = "no"
                              THEN "ConditionalCheckFailed" ELSE "None"]
    <3>1. all = [j \in 1..n |-> all[j]]
      BY <2>1, <2>4, SeqIsFunction
    <3>2. QED
      BY <2>5, <3>1
  <2>7. \E j \in 1..n : Atomic!Outcome(acts[j]) = "no"
    <3>1. DOMAIN all = 1..n
      BY <2>4
    <3>2. PICK j \in 1..n : all[j] # "None"
      BY <1>7, <3>1 DEF Failed
    <3>3. QED
      BY <2>5, <3>2
  <2>8. /\ Atomic!Refuse(r, Cancellation(all))
        /\ PhaseSeen'[r] # "open" /\ PhaseSeen[r] = "open"
    BY <1>1, <1>4, <1>7, RefusalSeen
  <2>9. Atomic!Cataloged(Atomic!Parts(r))
    BY <2>1, <2>5 DEF Atomic!Cataloged
  <2>10. Atomic!ConditionsFail(r)
    <3> HIDE DEF acts, n
    <3>1. QED
      BY <1>4, <2>1, <2>5, <2>6, <2>7, <2>8, <2>9, SameData
         DEF Atomic!ConditionsFail, Atomic!Asks
  <2>11. QED
    BY <2>8, <2>10, Settles DEF Atomic!Settlement
<1>8. CASE Goto(r, "apply") \/ Goto(r, "checkAll")
  BY <1>1, <1>8, UnseenStep DEF Phase
<1>9. QED
  <2> HIDE DEF i, act, old
  <2>1. Cell(work, Act(r)) = old /\ act = Act(r) /\ i = local[r].idx
    BY <1>3 DEF act, i
  <2>2. QED
    BY <1>3, <1>5, <1>6, <1>7, <1>8, <2>1 DEF CheckTxItem

(* A transaction whose reads have all succeeded: what each of its items    *)
(* found is what AtomicStore finds.                                        *)
LEMMA TestedSeen ==
    ASSUME TypeInv, Backed(disk), OneTablePerName, NEW r \in Requests,
           input[r] \in ItemInputs, Tested(r),
           NEW n \in Nat, n = Len(input[r].acts)
    PROVE  /\ Atomic!Parts(r) = input[r].acts /\ DOMAIN Atomic!Parts(r) = 1..n
           /\ Atomic!Cataloged(Atomic!Parts(r))
           /\ \A j \in 1..n :
                 /\ input[r].acts[j] \in Acts
                 /\ Exists(disk, input[r].acts[j])
                 /\ local[r].olds[j] = Cell(disk, input[r].acts[j])
                 /\ Atomic!Old(input[r].acts[j]) = local[r].olds[j]
                 /\ Atomic!Outcome(input[r].acts[j]) = "yes"
                 /\ Atomic!Fits(input[r].acts[j]) <=>
                       (input[r].acts[j].kind \in {"Put", "Update"} =>
                            Storable(NewItem(input[r].acts[j], local[r].olds[j])))
           /\ \A m : Atomic!Total(Atomic!Parts(r), m) = SumUpTo(Counts(r), m)
<1> DEFINE acts == input[r].acts
           olds == local[r].olds
<1>1. /\ acts \in Seq(Acts) /\ DOMAIN acts = 1..n /\ ActCount(r) = n
      /\ Atomic!Parts(r) = acts
  BY InputsAssumption DEF ActCount, Atomic!Parts
<1>2. ASSUME NEW j \in 1..n
      PROVE  /\ acts[j] \in Acts
             /\ CatalogSeen[acts[j].table] # NoRow
             /\ Exists(disk, acts[j])
             /\ olds[j] = Cell(disk, acts[j])
             /\ Atomic!Old(acts[j]) = olds[j]
             /\ Atomic!Outcome(acts[j]) = "yes"
             /\ Atomic!Fits(acts[j]) <=>
                   (acts[j].kind \in {"Put", "Update"} =>
                        Storable(NewItem(acts[j], olds[j])))
  <2>1. acts[j] \in Acts
    BY <1>1
  <2>2. /\ Exists(disk, acts[j]) /\ olds[j] = Cell(disk, acts[j])
        /\ Holds[acts[j].cond][olds[j]] # "error"
        /\ Reason(acts[j], olds[j]) = "None"
    BY <1>1 DEF Tested, ReadUpTo
  <2>3. Cell(disk, acts[j]) \in Stored /\ acts[j].cond \in Conds
    BY <2>1, NamesAssumption, SMTT(60) DEF Cell, Acts, TypeInv, TypeOK, Databases
  <2>4. Holds[acts[j].cond][olds[j]] \in Outcomes
    BY <2>2, <2>3, ItemsAssumption
  <2>5. Holds[acts[j].cond][olds[j]] = "yes"
    BY <2>2, <2>4 DEF Reason, Outcomes
  <2>6. QED
    BY <2>1, <2>2, <2>5, SeenCell
<1>3. Atomic!Cataloged(Atomic!Parts(r))
  BY <1>1, <1>2 DEF Atomic!Cataloged
<1>4. ASSUME NEW m PROVE Atomic!Total(Atomic!Parts(r), m) = SumUpTo(Counts(r), m)
  <2>1. [j \in DOMAIN Atomic!Parts(r) |->
            Atomic!CountedSize(Atomic!Parts(r)[j], Atomic!Old(Atomic!Parts(r)[j]))]
          = [j \in 1..n |-> CountedSize(acts[j], olds[j])]
    <3> HIDE DEF acts, olds
    <3>1. QED
      BY <1>1, <1>2, SameData
  <2>2. QED
    BY <1>1, <2>1, SameData DEF Atomic!Total, Counts
<1>5. QED
  BY <1>1, <1>2, <1>3, <1>4

LEMMA ApplySeen ==
    ASSUME TypeInv, ParsedInv, ProgressInv, Backed(disk), OneTablePerName,
           NEW r \in Requests, ApplyTxItem(r)
    PROVE  Atomic!Next \/ UNCHANGED Atomic!vars
<1> DEFINE acts == input[r].acts
           olds == local[r].olds
           n    == Len(acts)
           i    == local[r].idx
           act  == Act(r)
           new  == NewItem(act, olds[i])
           total == local[r].total + CountedSize(act, olds[i])
           cancelled_by == [local[r].reasons EXCEPT ![i] = "ValidationError"]
<1>1. /\ pc[r] = "apply" /\ UNCHANGED <<disk, clock>> /\ pc[r] \in ItemSteps
  BY DEF ApplyTxItem, Rollback, ItemSteps
<1>2. Tested(r) /\ WrittenUpTo(r, i - 1)
  BY <1>1 DEF ProgressInv, Progress
<1>3. /\ act = acts[i] /\ Phase(pc[r]) = "open" /\ i \in 1..n /\ n \in Nat
      /\ input[r] \in ItemInputs /\ input[r].op = "TransactWriteItems"
  BY <1>1, AskedAct, AtTx, AtAct DEF Act, ActCount
<1>4. CASE Goto(r, "apply") \/ Goto(r, "stamp") \/ Goto(r, "commit")
  BY <1>1, <1>4, UnseenStep DEF Phase
<1>5. CASE /\ ~(/\ act.kind \in {"Put", "Update"} => Storable(new)
                /\ total <= maxTransactTotalBytes)
           /\ AnswerWith(r, Cancellation(cancelled_by))
  <2>1. /\ Atomic!Parts(r) = acts /\ DOMAIN acts = 1..n
        /\ Atomic!Cataloged(Atomic!Parts(r))
        /\ \A j \in 1..n :
              /\ Atomic!Outcome(acts[j]) = "yes"
              /\ Atomic!Fits(acts[j]) <=>
                    (acts[j].kind \in {"Put", "Update"} => Storable(NewItem(acts[j], olds[j])))
        /\ \A m : Atomic!Total(acts, m) = SumUpTo(Counts(r), m)
    BY <1>2, <1>3, TestedSeen
  <2>2. /\ local[r].total = SumUpTo(Counts(r), i - 1)
        /\ \A j \in 1..(i - 1) :
              /\ acts[j].kind \in {"Put", "Update"} => Storable(NewItem(acts[j], olds[j]))
              /\ SumUpTo(Counts(r), j) <= maxTransactTotalBytes
    BY <1>2 DEF WrittenUpTo
  <2>3. total = SumUpTo(Counts(r), i) /\ SumUpTo(Counts(r), i) \in Nat
    <3>1. olds \in Seq(Stored) /\ Len(olds) = n
      BY <1>1, <1>3, AtTx DEF TypeInv, ControlOK, Control
    <3>2. Counts(r) \in [1..n -> Nat]
      BY <1>3, <3>1, CountsTyped DEF Counts, ActCount
    <3>3. Counts(r)[i] = CountedSize(act, olds[i])
      BY <1>3 DEF Counts, ActCount
    <3>4. /\ SumUpTo(Counts(r), i) = SumUpTo(Counts(r), i - 1) + Counts(r)[i]
          /\ SumUpTo(Counts(r), i) \in Nat
      BY <1>3, <3>2, SumStep
    <3>5. QED
      BY <2>2, <3>3, <3>4
  <2>4. /\ \A j \in 1..(i - 1) : /\ Atomic!Fits(acts[j])
                                 /\ Atomic!Total(acts, j) <= maxTransactTotalBytes
        /\ ~Atomic!Fits(acts[i]) \/ Atomic!Total(acts, i) > maxTransactTotalBytes
    <3>1. \A j \in 1..(i - 1) : j \in 1..n
      BY <1>3
    <3>2. /\ Atomic!Fits(acts[i]) <=>
                (acts[i].kind \in {"Put", "Update"} => Storable(new))
          /\ Atomic!Total(acts, i) = total
      BY <1>3, <2>1, <2>3
    <3>3. total \in Nat /\ maxTransactTotalBytes \in Nat
      <4> HIDE DEF total
      <4>1. QED
        BY <2>3, ItemsAssumption
    <3>4. ~Atomic!Fits(acts[i]) \/ Atomic!Total(acts, i) > maxTransactTotalBytes
      <4> HIDE DEF total, new, acts, i
      <4>1. QED
        BY <1>3, <1>5, <3>2, <3>3
    <3>5. QED
      BY <2>1, <2>2, <3>1, <3>4
  <2>5. cancelled_by = [j \in 1..n |-> IF j = i THEN "ValidationError" ELSE "None"]
    <3>1. local[r].reasons \in Seq(Reasons) /\ Len(local[r].reasons) = n
      BY <1>1, <1>3, AtTx DEF ParsedInv, Parsed
    <3>2. \A j \in 1..n : local[r].reasons[j] = "None"
      BY <1>2 DEF Tested, ActCount
    <3>3. local[r].reasons = [j \in 1..n |-> local[r].reasons[j]]
      BY <1>3, <3>1, SeqIsFunction
    <3>4. QED
      BY <3>2, <3>3
  <2>6. /\ Atomic!Refuse(r, Cancellation(cancelled_by))
        /\ PhaseSeen'[r] # "open" /\ PhaseSeen[r] = "open"
    BY <1>1, <1>3, <1>5, RefusalSeen
  <2>7. Atomic!WriteFails(r)
    <3> HIDE DEF acts, n, i, cancelled_by
    <3>1. QED
      BY <1>3, <2>1, <2>4, <2>5, <2>6, SameData
         DEF Atomic!WriteFails, Atomic!Asks
  <2>8. QED
    BY <2>6, <2>7, Settles DEF Atomic!Settlement
<1>6. QED
  <2>1. CASE ~(/\ act.kind \in {"Put", "Update"} => Storable(new)
               /\ total <= maxTransactTotalBytes)
    BY <1>5, <2>1 DEF ApplyTxItem
  <2>2. CASE /\ act.kind \in {"Put", "Update"} => Storable(new)
             /\ total <= maxTransactTotalBytes
    BY <1>4, <2>2 DEF ApplyTxItem
  <2>3. QED
    BY <2>1, <2>2

LEMMA TransactSeen ==
    ASSUME TypeInv, ParsedInv, ProgressInv, Backed(disk), OneTablePerName,
           NEW r \in Requests, TransactStep(r)
    PROVE  Atomic!Next \/ UNCHANGED Atomic!vars
<1>1. CASE StampToken(r)
  BY <1>1, UnseenStep DEF StampToken, InTx, Phase
<1>2. QED
  BY <1>1, ParseSeen, LookUpSeen, CheckTxSeen, ApplySeen DEF TransactStep

-----------------------------------------------------------------------------
(* The table and tag operations                                            *)

LEMMA AskedTable ==
    ASSUME TypeInv, NEW r \in Requests, pc[r] \in TableSteps \ {"created"}
    PROVE  /\ Phase(pc[r]) = "open" /\ PhaseSeen[r] = "open"
           /\ Table(r) = input[r].table /\ Table(r) \in Names
<1>1. Phase(pc[r]) = "open" /\ PhaseSeen[r] = "open"
  BY DEF Phase, PhaseSeen, TableSteps
<1>2. QED
  BY <1>1, AtTable DEF Table

LEMMA CreateSeen ==
    ASSUME TypeInv, ParsedInv, ProgressInv, NEW r \in Requests,
           InsertRow(r) \/ CreateData(r)
    PROVE  Atomic!Next \/ UNCHANGED Atomic!vars
<1>1. /\ pc[r] \in {"insertRow", "createData"} /\ UNCHANGED <<disk, clock>>
      /\ pc[r] \in TableSteps \ {"created"}
  BY DEF InsertRow, CreateData, Rollback, InTx, TableSteps
<1>2. Phase(pc[r]) = "open" /\ PhaseSeen[r] = "open" /\ Table(r) = input[r].table
      /\ Table(r) \in Names
  BY <1>1, AskedTable
<1>3. input[r].op = "CreateTable" /\ (pc[r] = "insertRow" => work = disk)
  BY <1>1 DEF ParsedInv, Parsed, ProgressInv, Progress
<1>4. CASE Goto(r, "createData") \/ Goto(r, "commit")
  BY <1>1, <1>2, <1>4, UnseenStep DEF Phase
<1>5. CASE disk.catalog[Table(r)] # NoRow /\ Answer(r, "ResourceInUseException")
  <2>1. /\ Atomic!Refuse(r, Reply("ResourceInUseException"))
        /\ PhaseSeen'[r] # "open" /\ PhaseSeen[r] = "open"
    BY <1>1, <1>2, <1>5, RefusalSeen DEF Answer
  <2>2. CatalogSeen[Table(r)] # NoRow
    BY <1>2, <1>5, SeenRow
  <2>3. Atomic!TableInUse(r)
    BY <1>2, <1>3, <2>1, <2>2, SameData DEF Atomic!TableInUse, Atomic!Asks
  <2>4. QED
    BY <2>1, <2>3, Settles DEF Atomic!Settlement
<1>6. CASE Answer(r, "InternalServerError")
  BY <1>1, <1>2, <1>6, FailureSeen
<1>7. QED
  BY <1>3, <1>4, <1>5, <1>6 DEF InsertRow, CreateData

LEMMA MissingTableSeen ==
    ASSUME TypeInv, NEW r \in Requests, pc[r] \in TableSteps \ {"created"},
           input[r].op \in {"DescribeTable", "DeleteTable"},
           disk.catalog[Table(r)] = NoRow,
           Answer(r, "ResourceNotFoundException"), UNCHANGED <<disk, clock>>
    PROVE  Atomic!Next
<1>1. /\ Atomic!Refuse(r, Reply("ResourceNotFoundException"))
      /\ PhaseSeen'[r] # "open" /\ PhaseSeen[r] = "open"
  BY AskedTable, RefusalSeen DEF Answer
<1>2. CatalogSeen[input[r].table] = NoRow
  BY AskedTable, SeenRow
<1>3. Atomic!TableMissing(r)
  BY <1>1, <1>2, SameData DEF Atomic!TableMissing, Atomic!Asks
<1>4. QED
  BY <1>1, <1>3, Settles DEF Atomic!Settlement

LEMMA DeleteSeen ==
    ASSUME TypeInv, ParsedInv, ProgressInv, NEW r \in Requests,
           DeleteRow(r) \/ DropData(r)
    PROVE  Atomic!Next \/ UNCHANGED Atomic!vars
<1> DEFINE row == disk.catalog[Table(r)]
<1>1. /\ pc[r] \in {"deleteRow", "dropData"} /\ UNCHANGED <<disk, clock>>
      /\ pc[r] \in TableSteps \ {"created"}
  BY DEF DeleteRow, DropData, Rollback, InTx, TableSteps
<1>2. Phase(pc[r]) = "open" /\ PhaseSeen[r] = "open" /\ Table(r) = input[r].table
      /\ Table(r) \in Names
  BY <1>1, AskedTable
<1>3. input[r].op = "DeleteTable" /\ (pc[r] = "deleteRow" => work = disk)
  BY <1>1 DEF ParsedInv, Parsed, ProgressInv, Progress
<1>4. CASE Goto(r, "dropData") \/ Goto(r, "commit")
  BY <1>1, <1>2, <1>4, UnseenStep DEF Phase
<1>5. CASE row # NoRow /\ ~Deletable(row) /\ Answer(r, "ValidationException")
  <2>1. /\ Atomic!Refuse(r, Reply("ValidationException"))
        /\ PhaseSeen'[r] # "open" /\ PhaseSeen[r] = "open"
    BY <1>1, <1>2, <1>5, RefusalSeen DEF Answer
  <2>2. CatalogSeen[Table(r)] # NoRow /\ CatalogSeen[Table(r)].protected
    BY <1>2, <1>5, SeenRow DEF Deletable
  <2>3. Atomic!TableProtected(r)
    BY <1>2, <1>3, <2>1, <2>2, SameData DEF Atomic!TableProtected, Atomic!Asks
  <2>4. QED
    BY <2>1, <2>3, Settles DEF Atomic!Settlement
<1>6. CASE row = NoRow /\ Answer(r, "ResourceNotFoundException")
  BY <1>1, <1>3, <1>6, MissingTableSeen
<1>7. CASE Answer(r, "InternalServerError")
  BY <1>1, <1>2, <1>7, FailureSeen
<1>8. QED
  BY <1>3, <1>4, <1>5, <1>6, <1>7 DEF DeleteRow, DropData

LEMMA CreatedSeen ==
    ASSUME TypeInv, NEW r \in Requests, LoadCreated(r)
    PROVE  Atomic!Next
<1> DEFINE code == IF disk.catalog[Table(r)] = NoRow
                   THEN "ResourceNotFoundException" ELSE "ok"
<1>1. pc[r] = "created" /\ UNCHANGED <<disk, clock>> /\ AnswerWith(r, Reply(code))
  BY DEF LoadCreated, Reads, db, Answer
<1>2. Table(r) \in Names /\ Table(r) = input[r].table
  BY <1>1, AtTable DEF Table, TableSteps
<1>3. /\ PhaseSeen' = [PhaseSeen EXCEPT ![r] = "answered"]
      /\ PhaseSeen[r] = "created"
  BY <1>1, SeenPhase, OpenSteps DEF AnswerWith
<1>4. Atomic!Answer(r, Atomic!Reply(code)) /\ UNCHANGED Atomic!database
  BY <1>1, <1>3, SeenSame, SameData DEF AnswerWith, Atomic!Answer, Atomic!database
<1>5. CatalogSeen[input[r].table] = NoRow <=> disk.catalog[Table(r)] = NoRow
  BY <1>2, SeenRow
<1>6. Atomic!DescribeCreated(r)
  BY <1>3, <1>4, <1>5 DEF Atomic!DescribeCreated
<1>7. QED
  BY <1>6 DEF Atomic!Next

LEMMA DescribeSeen ==
    ASSUME TypeInv, ParsedInv, Backed(disk), OneTablePerName, NEW r \in Requests,
           LoadDescribed(r) \/ CountItems(r) \/ ListTables(r)
    PROVE  Atomic!Next \/ UNCHANGED Atomic!vars
<1>1. /\ pc[r] \in {"describe", "count", "list"} /\ UNCHANGED <<disk, clock>>
      /\ pc[r] \in TableSteps \ {"created"}
  BY DEF LoadDescribed, CountItems, ListTables, Reads, db, TableSteps
<1>2. Phase(pc[r]) = "open" /\ PhaseSeen[r] = "open" /\ Table(r) = input[r].table
      /\ Table(r) \in Names
  BY <1>1, AskedTable
<1>3. /\ pc[r] = "list" => input[r].op = "ListTables"
      /\ pc[r] # "list" => input[r].op = "DescribeTable"
  BY <1>1 DEF ParsedInv, Parsed
<1>4. CASE Goto(r, "count")
  BY <1>1, <1>2, <1>4, UnseenStep DEF Phase
<1>5. CASE /\ pc[r] # "list" /\ disk.catalog[Table(r)] = NoRow
           /\ Answer(r, "ResourceNotFoundException")
  BY <1>1, <1>3, <1>5, MissingTableSeen
<1>6. CASE Answer(r, "InternalServerError")
  BY <1>1, <1>2, <1>6, FailureSeen
<1>7. CASE /\ pc[r] = "list" \/ DataTable[Table(r)] \in disk.backing
           /\ Answer(r, "ok")
  <2>1. /\ Atomic!Refuse(r, Reply("ok"))
        /\ PhaseSeen'[r] # "open" /\ PhaseSeen[r] = "open"
    BY <1>1, <1>2, <1>7, RefusalSeen DEF Answer
  <2>2. CASE pc[r] = "list"
    <3>1. Atomic!Inspect(r)
      BY <1>2, <1>3, <2>1, <2>2, SameData DEF Atomic!Inspect, Atomic!Asks
    <3>2. QED
      BY <2>1, <3>1, Settles DEF Atomic!Settlement
  <2>3. CASE pc[r] # "list"
    <3>1. disk.catalog[Table(r)] # NoRow
      BY <1>2, <1>7, <2>3 DEF Backed, OneTablePerName
    <3>2. CatalogSeen[Table(r)] # NoRow
      BY <1>2, <3>1, SeenRow
    <3>3. Atomic!DescribeTable(r)
      BY <1>2, <1>3, <2>1, <2>3, <3>2, SameData DEF Atomic!DescribeTable, Atomic!Asks
    <3>4. QED
      BY <2>1, <3>3, Settles DEF Atomic!Settlement
  <2>4. QED
    BY <2>2, <2>3
<1>8. QED
  BY <1>4, <1>5, <1>6, <1>7 DEF LoadDescribed, CountItems, ListTables

(* Tags are not part of what a client is promised here.                    *)
LEMMA TagsUnseen ==
    ASSUME TypeInv, NEW r \in Requests, UpdateTags(r)
    PROVE  CatalogSeen' = CatalogSeen /\ DataSeen' = DataSeen
                /\ disk'.tokens = disk.tokens
BY UpdateTagsDisk DEF CatalogSeen, DataSeen

LEMMA TagsSeen ==
    ASSUME TypeInv, ParsedInv, NEW r \in Requests,
           ResolveARN(r) \/ Reload(r) \/ UpdateTags(r)
    PROVE  Atomic!Next \/ UNCHANGED Atomic!vars
<1>1. /\ pc[r] \in {"resolve", "reload", "retag"} /\ UNCHANGED clock
      /\ pc[r] \in TableSteps \ {"created"}
      /\ CatalogSeen' = CatalogSeen /\ DataSeen' = DataSeen
      /\ disk'.tokens = disk.tokens
  BY SeenSame, TagsUnseen DEF ResolveARN, Reload, UpdateTags, Reads, db, TableSteps
<1>2. Phase(pc[r]) = "open" /\ PhaseSeen[r] = "open"
  BY <1>1, AskedTable
<1>3. input[r].op \in {"ListTagsOfResource", "TagResource", "UntagResource"}
  BY <1>1 DEF ParsedInv, Parsed
<1>4. CASE ~UpdateTags(r) /\ (Goto(r, "reload") \/ Goto(r, "retag"))
  <2>1. UNCHANGED disk
    BY <1>4 DEF ResolveARN, Reload, Reads, db
  <2>2. QED
    BY <1>1, <1>2, <1>4, <2>1, UnseenStep DEF Phase
<1>5. ASSUME NEW code \in {"ok", "ResourceNotFoundException", "panic"}, Answer(r, code)
      PROVE  Atomic!Next
  <2>1. /\ PhaseSeen' = [PhaseSeen EXCEPT ![r] = "answered"]
        /\ PhaseSeen'[r] = "answered"
    BY <1>5, SeenPhase, OpenSteps, ZenonT(60) DEF Answer, AnswerWith
  <2>2. Atomic!Refuse(r, Atomic!Reply(code))
    BY <1>1, <1>2, <1>5, <2>1, SameData
       DEF Answer, AnswerWith, Atomic!Refuse, Atomic!Answer, Atomic!database
  <2>3. Atomic!Inspect(r)
    BY <1>2, <1>3, <2>2 DEF Atomic!Inspect, Atomic!Asks
  <2>4. QED
    BY <1>2, <2>1, <2>3, Settles DEF Atomic!Settlement
<1>6. QED
  <2>1. CASE UpdateTags(r)
    BY <1>5, <2>1 DEF UpdateTags
  <2>2. CASE ~UpdateTags(r)
    BY <1>4, <1>5, <2>2 DEF ResolveARN, Reload
  <2>3. QED
    BY <2>1, <2>2

LEMMA TableSeen ==
    ASSUME TypeInv, ParsedInv, ProgressInv, Backed(disk), OneTablePerName,
           NEW r \in Requests, TableStep(r)
    PROVE  Atomic!Next \/ UNCHANGED Atomic!vars
BY CreateSeen, DeleteSeen, CreatedSeen, DescribeSeen, TagsSeen DEF TableStep

-----------------------------------------------------------------------------
(* COMMIT: the instant at which a write takes effect                       *)

LEMMA CommitReplies ==
    ASSUME TypeInv, NEW r \in Requests, pc[r] = "commit", NEW answer,
           AnswerWith(r, answer)
    PROVE  /\ Atomic!Answer(r, answer)
           /\ PhaseSeen[r] = "open" /\ PhaseSeen'[r] # "open"
<1>1. Phase("commit") = "open"
  BY DEF Phase
<1>2. /\ PhaseSeen' = [PhaseSeen EXCEPT ![r] = "answered"]
      /\ PhaseSeen[r] = "open" /\ PhaseSeen'[r] = "answered"
  BY <1>1, SeenPhase, OpenSteps DEF AnswerWith
<1>3. QED
  BY <1>2 DEF AnswerWith, Atomic!Answer

LEMMA SeenFrom ==
    ASSUME disk'.catalog = disk.catalog
    PROVE  /\ CatalogSeen' = CatalogSeen
           /\ disk'.data = disk.data => DataSeen' = DataSeen
BY DEF CatalogSeen, DataSeen

(* The acts of a request, each replacing its own row, make what            *)
(* AtomicStore's clients see after it.                                     *)
LEMMA SeenAfter ==
    ASSUME TypeInv, TypeInv', Backed(disk), OneTablePerName,
           disk'.catalog = disk.catalog, NEW acts,
           \A i \in DOMAIN acts :
              /\ acts[i] \in Acts /\ Exists(disk, acts[i])
              /\ disk'.data[DataTable[acts[i].table]][acts[i].key]
                    = NewItem(acts[i], Cell(disk, acts[i])),
           \A t \in SqlNames, k \in Keys :
              \/ disk'.data[t][k] = disk.data[t][k]
              \/ \E i \in DOMAIN acts : DataTable[acts[i].table] = t /\ acts[i].key = k
    PROVE  DataSeen' = Atomic!After(acts)
<1> DEFINE hits(n, k, i) == acts[i].table = n /\ acts[i].key = k
           after(n, k) ==
             IF \E i \in DOMAIN acts : hits(n, k, i)
             THEN NewItem(acts[CHOOSE i \in DOMAIN acts : hits(n, k, i)], DataSeen[n][k])
             ELSE DataSeen[n][k]
<1>1. Atomic!After(acts) = [n \in Names |-> [k \in Keys |-> after(n, k)]]
  BY SameData DEF Atomic!After
<1>2. ASSUME NEW n \in Names, NEW k \in Keys
      PROVE  DataSeen'[n][k] = after(n, k)
  <2>1. DataTable[n] \in SqlNames
    BY NamesAssumption
  <2>2. CASE \E i \in DOMAIN acts : hits(n, k, i)
    <3>1. PICK c \in DOMAIN acts :
             hits(n, k, c) /\ after(n, k) = NewItem(acts[c], DataSeen[n][k])
      BY <2>2
    <3>2. acts[c].table = n /\ acts[c].key = k /\ acts[c] \in Acts /\ Exists(disk, acts[c])
      BY <3>1
    <3>3. disk.catalog[n] # NoRow /\ Cell(disk, acts[c]) = DataSeen[n][k]
      BY <3>2, SeenCell, SeenRow DEF Atomic!Old
    <3>4. DataSeen'[n] = disk'.data[DataTable[n]]
      BY <3>3 DEF DataSeen
    <3>5. disk'.data[DataTable[n]][k] = NewItem(acts[c], Cell(disk, acts[c]))
      BY <3>2
    <3>6. QED
      BY <3>1, <3>3, <3>4, <3>5
  <2>3. CASE ~\E i \in DOMAIN acts : hits(n, k, i)
    <3>1. after(n, k) = DataSeen[n][k]
      BY <2>3
    <3>2. disk'.data[DataTable[n]][k] = disk.data[DataTable[n]][k]
      BY <2>1, <2>3 DEF OneTablePerName, Acts
    <3>3. DataSeen'[n][k] = DataSeen[n][k]
      BY <3>2 DEF DataSeen
    <3>4. QED
      BY <3>1, <3>3
  <2>4. QED
    BY <2>2, <2>3
<1>3. DataSeen' \in [Names -> [Keys -> Stored]]
  BY NamesAssumption DEF DataSeen, TypeInv, TypeOK, Databases, Stored
<1> HIDE DEF after
<1>4. DataSeen' = [n \in Names |-> [k \in Keys |-> after(n, k)]]
  <2>1. DataSeen' = [n \in Names |-> [k \in Keys |-> DataSeen'[n][k]]]
    BY <1>3
  <2>2. QED
    BY <1>2, <2>1
<1>5. QED
  BY <1>1, <1>4

LEMMA ReplacedSeen ==
    ASSUME StoreInv, TypeInv', Backed(disk), OneTablePerName,
           NEW r \in Requests, Commit(r), Op(r) \in SingleWrites
    PROVE  Atomic!Next
<1> DEFINE act == Act(r)
           acts == input[r].acts
           new == NewItem(act, Cell(disk, act))
<1>1. /\ Replaced(r) /\ act \in Acts /\ act = acts[1] /\ Len(acts) = 1
      /\ input[r] \in ItemInputs /\ disk' = work /\ disk \in Databases
      /\ input[r].op \in SingleWrites
  BY AtCommit DEF Complete, SingleWrites
<1>2. /\ Atomic!Parts(r) = acts /\ DOMAIN acts = {1}
  BY <1>1, InputsAssumption DEF Atomic!Parts
<1>3. /\ Exists(disk, act) /\ local[r].olds[1] = Cell(disk, act)
      /\ Holds[act.cond][Cell(disk, act)] = "yes"
      /\ act.kind = "Update" => Storable(new)
      /\ disk' = SetCell(disk, act, new)
  BY <1>1 DEF Replaced, Checked
<1>4. act.kind = "Put" => Storable(new)
  BY <1>1 DEF Commit, StoreInv, ParsedInv, Parsed, NewItem
<1>5. TypeInv
  BY DEF StoreInv
<1>6. /\ CatalogSeen[act.table] # NoRow /\ Atomic!Old(act) = Cell(disk, act)
      /\ Atomic!Outcome(act) = "yes" /\ Atomic!Fits(act)
  BY <1>1, <1>3, <1>4, <1>5, SeenCell
<1>7. Atomic!Applicable(Atomic!Parts(r))
  BY <1>1, <1>2, <1>6 DEF Atomic!Applicable, Atomic!Cataloged, Atomic!Distinct
<1>8. /\ disk'.catalog = disk.catalog /\ disk'.tokens = disk.tokens
      /\ \A t \in SqlNames, k \in Keys :
            disk'.data[t][k] = IF t = DataTable[act.table] /\ k = act.key
                               THEN new ELSE disk.data[t][k]
  <2>1. disk' = SetCell(disk, act, new) /\ disk \in Databases /\ act \in Acts
    BY <1>1, <1>3
  <2> HIDE DEF act, new
  <2>2. QED
    BY <2>1, SetCellData
<1>9. DataSeen' = Atomic!After(Atomic!Parts(r))
  <2>1. DataTable[act.table] \in SqlNames /\ act.key \in Keys
    BY <1>1, NamesAssumption DEF Acts
  <2>2. disk'.data[DataTable[act.table]][act.key] = new
    BY <1>8, <2>1
  <2> HIDE DEF act, acts, new
  <2>3. \A i \in DOMAIN acts :
              /\ acts[i] \in Acts /\ Exists(disk, acts[i])
              /\ disk'.data[DataTable[acts[i].table]][acts[i].key]
                    = NewItem(acts[i], Cell(disk, acts[i]))
    BY <1>1, <1>2, <1>3, <2>2 DEF new
  <2>4. \A t \in SqlNames, k \in Keys :
              \/ disk'.data[t][k] = disk.data[t][k]
              \/ \E i \in DOMAIN acts : DataTable[acts[i].table] = t /\ acts[i].key = k
    BY <1>1, <1>2, <1>8
  <2>5. QED
    BY <1>2, <1>5, <1>8, <2>3, <2>4, SeenAfter
<1>10. AnswerWith(r, [Reply("ok") EXCEPT !.item = local[r].olds[1]])
       /\ clock' = clock /\ pc[r] = "commit"
  BY <1>1 DEF Commit, Op, SingleWrites
<1>11. Atomic!Found(r) = [Reply("ok") EXCEPT !.item = local[r].olds[1]]
  BY <1>1, <1>2, <1>3, <1>6, SameData DEF Atomic!Found
<1>12. /\ Atomic!Answer(r, Atomic!Found(r))
       /\ PhaseSeen[r] = "open" /\ PhaseSeen'[r] # "open"
  BY <1>5, <1>10, <1>11, CommitReplies
<1>13. Atomic!WriteItem(r)
  BY <1>1, <1>7, <1>8, <1>9, <1>10, <1>12, SeenFrom
     DEF Atomic!WriteItem, Atomic!Asks, SingleWrites
<1>14. QED
  BY <1>12, <1>13, Settles DEF Atomic!Settlement

LEMMA PurgedSeen ==
    ASSUME StoreInv, NEW r \in Requests
    PROVE  Purge(disk.tokens, local[r].now) \in Atomic!Purges
<1>1. local[r].now \in 0..clock
  BY StoreAssumption DEF StoreInv, TokenInv, TypeInv, TypeOK, Locals
<1>2. QED
  BY <1>1, SameData DEF Atomic!Purges

LEMMA ReplayedSeen ==
    ASSUME StoreInv, NEW r \in Requests, Commit(r), Op(r) = "TransactWriteItems",
           Replayed(r)
    PROVE  Atomic!Next
<1>1. /\ Token(r) # NoToken
      /\ disk'.catalog = disk.catalog /\ disk'.data = disk.data
      /\ disk'.tokens = Purge(disk.tokens, local[r].now)
      /\ disk'.tokens[Token(r)] # NoStamp
      /\ SameRequest(disk'.tokens[Token(r)], r)
  BY AtCommit DEF Replayed, Databases
<1>2. Answer(r, "ok") /\ clock' = clock /\ pc[r] = "commit" /\ TypeInv
  BY DEF Commit, StoreInv
<1>3. /\ Atomic!Answer(r, Atomic!Reply("ok"))
      /\ PhaseSeen[r] = "open" /\ PhaseSeen'[r] # "open"
  BY <1>2, CommitReplies, SameData DEF Answer
<1>4. Atomic!Replay(r)
  BY <1>1, <1>2, <1>3, PurgedSeen, SeenFrom
     DEF Atomic!Replay, Atomic!Asks, Token, SameRequest, Op
<1>5. QED
  BY <1>3, <1>4, Settles DEF Atomic!Settlement

LEMMA TransactedSeen ==
    ASSUME StoreInv, TypeInv', Backed(disk), OneTablePerName,
           NEW r \in Requests, Commit(r), Op(r) = "TransactWriteItems",
           Transacted(r)
    PROVE  Atomic!Next
<1> DEFINE acts == input[r].acts
           olds == local[r].olds
           n    == Len(acts)
           kept == Purge(disk.tokens, local[r].now)
<1>1. /\ pc[r] = "commit" /\ clock' = clock /\ Answer(r, "ok")
      /\ TypeInv /\ input[r] \in ItemInputs /\ disk' = work
      /\ input[r].op = "TransactWriteItems"
  BY AtCommit DEF Commit, StoreInv, Op
<1>2. /\ disk'.catalog = disk.catalog /\ TokenFree(r) /\ Stamped(r) /\ Tested(r)
      /\ WrittenUpTo(r, n) /\ ActCount(r) = n /\ n \in Nat
  BY <1>1, InputsAssumption DEF Transacted, ActCount
<1>3. /\ Atomic!Parts(r) = acts /\ DOMAIN acts = 1..n
      /\ Atomic!Cataloged(acts)
      /\ \A j \in 1..n :
            /\ acts[j] \in Acts /\ Exists(disk, acts[j])
            /\ olds[j] = Cell(disk, acts[j])
            /\ Atomic!Outcome(acts[j]) = "yes"
            /\ Atomic!Fits(acts[j]) <=>
                  (acts[j].kind \in {"Put", "Update"} => Storable(NewItem(acts[j], olds[j])))
      /\ Atomic!Total(acts, n) = SumUpTo(Counts(r), n)
  BY <1>1, <1>2, TestedSeen
<1>4. /\ \A j \in 1..n :
            /\ acts[j].kind \in {"Put", "Update"} => Storable(NewItem(acts[j], olds[j]))
            /\ SumUpTo(Counts(r), j) <= maxTransactTotalBytes
      /\ \A t \in SqlNames, k \in Keys :
            \/ work.data[t][k] = disk.data[t][k]
            \/ \E i \in 1..n : DataTable[acts[i].table] = t /\ acts[i].key = k
      /\ RowsApart(acts) =>
            \A i \in 1..n : Cell(work, acts[i]) = NewItem(acts[i], olds[i])
  BY <1>2 DEF WrittenUpTo
<1>5. Apart(acts, n)
  BY <1>1 DEF StoreInv, ParsedInv, Parsed
<1>6. RowsApart(acts)
  <2>1. \A i, j \in 1..n : acts[i].table \in Names /\ acts[j].table \in Names
    BY <1>3 DEF Acts
  <2>2. QED
    BY <1>5, <2>1 DEF Apart, RowsApart, SameTarget, OneTablePerName
<1>7. Atomic!Applicable(acts)
  <2>1. Atomic!Distinct(acts)
    BY <1>3, <1>5, SameData DEF Apart, Atomic!Distinct
  <2>2. QED
    BY <1>3, <1>4, <2>1 DEF Atomic!Applicable
<1>8. Atomic!Total(acts, n) <= maxTransactTotalBytes
  <2>1. n \in 1..n
    BY <1>1, <1>2, InputsAssumption
  <2>2. QED
    BY <1>3, <1>4, <2>1
<1>9. DataSeen' = Atomic!After(acts)
  <2>1. \A i \in DOMAIN acts :
              /\ acts[i] \in Acts /\ Exists(disk, acts[i])
              /\ disk'.data[DataTable[acts[i].table]][acts[i].key]
                    = NewItem(acts[i], Cell(disk, acts[i]))
    <3> SUFFICES ASSUME NEW i \in 1..n
                 PROVE  /\ acts[i] \in Acts /\ Exists(disk, acts[i])
                        /\ Cell(work, acts[i]) = NewItem(acts[i], Cell(disk, acts[i]))
      BY <1>1, <1>3 DEF Cell
    <3>1. QED
      BY <1>3, <1>4, <1>6
  <2>2. \A t \in SqlNames, k \in Keys :
              \/ disk'.data[t][k] = disk.data[t][k]
              \/ \E i \in DOMAIN acts : DataTable[acts[i].table] = t /\ acts[i].key = k
    BY <1>1, <1>3, <1>4
  <2> HIDE DEF acts
  <2>3. QED
    BY <1>1, <1>2, <2>1, <2>2, SeenAfter
<1>10. kept \in Atomic!Purges
  BY PurgedSeen
<1>11. IF Token(r) = NoToken THEN disk'.tokens = kept
       ELSE /\ kept[Token(r)] = NoStamp
            /\ \E at \in 0..clock : disk'.tokens =
                  [kept EXCEPT ![Token(r)] = [request |-> input[r], at |-> at]]
  BY <1>1, <1>2 DEF TokenFree, Stamped
<1>12. /\ Atomic!Answer(r, Atomic!Reply("ok"))
       /\ PhaseSeen[r] = "open" /\ PhaseSeen'[r] # "open"
  BY <1>1, CommitReplies, SameData DEF Answer
<1>13. Atomic!Transact(r)
  <2>1. CatalogSeen' = CatalogSeen
    BY <1>2, SeenFrom
  <2> HIDE DEF kept
  <2>2. \E was \in Atomic!Purges :
            IF input[r].token = NoToken THEN disk'.tokens = was
            ELSE /\ was[input[r].token] = NoStamp
                 /\ \E at \in 0..clock : disk'.tokens =
                       [was EXCEPT ![input[r].token] = [request |-> input[r], at |-> at]]
    BY <1>10, <1>11 DEF Token
  <2>3. QED
    BY <1>1, <1>3, <1>7, <1>8, <1>9, <1>12, <2>1, <2>2 DEF Atomic!Transact, Atomic!Asks
<1>14. QED
  BY <1>12, <1>13, Settles DEF Atomic!Settlement

LEMMA CreateCommitSeen ==
    ASSUME StoreInv, Backed(disk), NEW r \in Requests, Commit(r), Op(r) = "CreateTable"
    PROVE  Atomic!Next
<1> DEFINE name == Table(r)
           row  == input[r].row
           facts == [type |-> row.type, protected |-> row.protected]
<1>1. /\ Created(r) /\ name \in Names /\ row # NoRow /\ disk' = work
      /\ disk \in Databases /\ TypeInv /\ input[r].op = "CreateTable"
      /\ name = input[r].table
  BY AtCommit DEF Complete, SingleWrites, StoreInv, Op, Table
<1>2. /\ pc[r] = "commit" /\ clock' = clock /\ Goto(r, "created")
  BY <1>1 DEF Commit, Op
<1>3. /\ disk.catalog[name] = NoRow /\ DataTable[name] \notin disk.backing
      /\ \A n \in Names : disk'.catalog[n] = IF n = name THEN row ELSE disk.catalog[n]
      /\ disk'.data = disk.data /\ disk'.tokens = disk.tokens
  BY <1>1, SetRowCatalog DEF Created, Databases
<1>4. CatalogSeen' = [CatalogSeen EXCEPT ![name] = facts]
  <2> HIDE DEF name, row
  <2>1. QED
    BY <1>1, <1>3 DEF CatalogSeen
<1>5. DataSeen' = DataSeen
  <2>1. disk.data[DataTable[name]] = [k \in Keys |-> NoItem]
    <3>1. /\ DataTable[name] \in SqlNames \ disk.backing
          /\ disk.data[DataTable[name]] \in [Keys -> Stored]
      BY <1>1, <1>3, NamesAssumption DEF Databases
    <3>2. QED
      BY <3>1 DEF Backed
  <2> HIDE DEF name, row
  <2>2. QED
    BY <1>1, <1>3, <2>1 DEF DataSeen
<1>6. PhaseSeen' = [PhaseSeen EXCEPT ![r] = "created"] /\ UNCHANGED <<input, reply>>
      /\ PhaseSeen[r] = "open" /\ PhaseSeen'[r] # "open"
  <2>1. Phase("commit") = "open"
    BY DEF Phase
  <2>2. QED
    BY <1>1, <1>2, <2>1, SeenPhase, OpenSteps DEF Goto
<1>7. CatalogSeen[name] = NoRow
  BY <1>1, <1>3, SeenRow
<1>8. Atomic!CreateTable(r)
  BY <1>1, <1>2, <1>3, <1>4, <1>5, <1>6, <1>7 DEF Atomic!CreateTable, Atomic!Asks
<1>9. QED
  BY <1>6, <1>8, Settles DEF Atomic!Settlement

LEMMA DeleteCommitSeen ==
    ASSUME StoreInv, OneTablePerName, NEW r \in Requests, Commit(r), Op(r) = "DeleteTable"
    PROVE  Atomic!Next
<1> DEFINE name == Table(r)
           empty == [k \in Keys |-> NoItem]
<1>1. /\ Deleted(r) /\ name \in Names /\ disk' = work
      /\ disk \in Databases /\ TypeInv /\ input[r].op = "DeleteTable"
      /\ name = input[r].table
  BY AtCommit DEF Complete, SingleWrites, StoreInv, Op, Table
<1>2. /\ pc[r] = "commit" /\ clock' = clock /\ Answer(r, "ok")
  BY <1>1 DEF Commit, Op
<1>3. DataTable[name] \in SqlNames
  BY <1>1, NamesAssumption
<1>4. /\ disk.catalog[name] # NoRow /\ ~disk.catalog[name].protected
      /\ \A n \in Names : disk'.catalog[n] = IF n = name THEN NoRow ELSE disk.catalog[n]
      /\ \A t \in SqlNames : disk'.data[t] = IF t = DataTable[name] THEN empty ELSE disk.data[t]
      /\ disk'.tokens = disk.tokens
  BY <1>1, <1>3, SetRowCatalog DEF Deleted, Deletable, Databases
<1>5. CatalogSeen' = [CatalogSeen EXCEPT ![name] = NoRow]
  <2> HIDE DEF name
  <2>1. ASSUME NEW n \in Names
        PROVE  CatalogSeen'[n] = IF n = name THEN NoRow ELSE CatalogSeen[n]
    <3>1. disk'.catalog[n] = IF n = name THEN NoRow ELSE disk.catalog[n]
      BY <1>4
    <3>2. CASE n = name
      BY <3>1, <3>2 DEF CatalogSeen
    <3>3. CASE n # name
      BY <3>1, <3>3 DEF CatalogSeen
    <3>4. QED
      BY <3>2, <3>3
  <2>2. /\ CatalogSeen = [n \in Names |-> CatalogSeen[n]]
        /\ CatalogSeen' = [n \in Names |-> CatalogSeen'[n]]
    BY DEF CatalogSeen
  <2>3. QED
    BY <1>1, <2>1, <2>2
<1>6. DataSeen' = [DataSeen EXCEPT ![name] = empty]
  <2> HIDE DEF name
  <2>1. ASSUME NEW n \in Names, n # name
        PROVE  disk'.data[DataTable[n]] = disk.data[DataTable[n]]
    BY <1>1, <1>4, <2>1, NamesAssumption DEF OneTablePerName
  <2>2. QED
    BY <1>1, <1>4, <2>1 DEF DataSeen
<1>7. /\ Atomic!Answer(r, Atomic!Reply("ok"))
      /\ PhaseSeen[r] = "open" /\ PhaseSeen'[r] # "open"
  BY <1>1, <1>2, CommitReplies, SameData DEF Answer
<1>8. CatalogSeen[name] # NoRow /\ ~CatalogSeen[name].protected
  BY <1>1, <1>4, SeenRow
<1>9. Atomic!DeleteTable(r)
  BY <1>1, <1>2, <1>4, <1>5, <1>6, <1>7, <1>8, SameData
     DEF Atomic!DeleteTable, Atomic!Asks
<1>10. QED
  BY <1>7, <1>9, Settles DEF Atomic!Settlement

LEMMA CommitSeen ==
    ASSUME StoreInv, TypeInv', Backed(disk), OneTablePerName,
           NEW r \in Requests, Commit(r)
    PROVE  Atomic!Next
<1>1. Op(r) = "TransactWriteItems" => Replayed(r) \/ Transacted(r)
  BY AtCommit DEF Complete, SingleWrites
<1>2. QED
  BY <1>1, AtCommit, ReplacedSeen, ReplayedSeen, TransactedSeen,
     CreateCommitSeen, DeleteCommitSeen

-----------------------------------------------------------------------------
(* The refinement                                                          *)

LEMMA InitSeen == Init => Atomic!Init
<1> SUFFICES ASSUME Init PROVE Atomic!Init
  OBVIOUS
<1>1. disk \in Databases
  BY StoreAssumption DEF Init
<1>2. CatalogSeen \in [Names -> Atomic!RowFacts \union {NoRow}]
  BY <1>1 DEF CatalogSeen, Databases, Rows, Atomic!RowFacts
<1>3. DataSeen \in [Names -> [Keys -> Atomic!Stored]]
  BY <1>1, NamesAssumption DEF DataSeen, Databases, Stored, Atomic!Stored
<1>4. \A n \in Names : CatalogSeen[n] = NoRow => DataSeen[n] = Atomic!EmptyTable
  <2>1. TypeInv
    BY InitTyped
  <2>2. QED
    BY <2>1, SeenRow, SameData
<1>5. disk.tokens \in [Tokens -> Atomic!Stamps \union {NoStamp}]
  BY <1>1 DEF Databases, Stamps, Atomic!Stamps
<1>6. PhaseSeen = [r \in Requests |-> "none"]
  BY OpenSteps DEF Init, PhaseSeen
<1>7. reply = [r \in Requests |-> Atomic!Reply("none")]
  BY SameData DEF Init, NoReply
<1>8. QED
  BY <1>2, <1>3, <1>4, <1>5, <1>6, <1>7 DEF Init, Atomic!Init

LEMMA NextSeen ==
    ASSUME StoreInv, TypeInv', Backed(disk), OneTablePerName, [Next]_vars
    PROVE  Atomic!Next \/ UNCHANGED Atomic!vars
<1>1. TypeInv /\ ParsedInv /\ ProgressInv
  BY DEF StoreInv
<1>2. CASE UNCHANGED vars
  BY <1>2, SeenSame DEF vars, db, task, PhaseSeen, Atomic!vars
<1>3. ASSUME NEW r \in Requests, Step(r)
      PROVE  Atomic!Next \/ UNCHANGED Atomic!vars
  BY <1>1, <1>3, BeginSeen, CommitSeen, StatementFailsSeen, TxFailsSeen, FinishSeen,
     ItemSeen, TransactSeen, TableSeen DEF Step
<1>4. QED
  BY <1>1, <1>2, <1>3, DoSeen, ReturnSeen, HandleSeen DEF Next

(* The program implements AtomicStore: whatever requests run at once, are  *)
(* cancelled, fail or die with the process, each takes effect at one       *)
(* instant (its COMMIT, or the statement that decides it), as a whole or   *)
(* not at all, and its reply is true of that instant.                      *)
THEOREM RefinementHolds == OneTablePerName => (Spec => IsAtomic)
<1> SUFFICES ASSUME OneTablePerName PROVE Spec => IsAtomic
  OBVIOUS
<1>1. Init => StoreInv /\ Backed(disk)
  BY InitStore, InitDisk
<1>2. StoreInv /\ Backed(disk) /\ [Next]_vars => (StoreInv /\ Backed(disk))'
  BY NextStore, NextDisk
<1>3. Init => Atomic!Init
  BY InitSeen
<1>4. StoreInv /\ StoreInv' /\ Backed(disk) /\ [Next]_vars => [Atomic!Next]_(Atomic!vars)
  BY NextSeen DEF StoreInv
<1>5. QED
  BY <1>1, <1>2, <1>3, <1>4, PTL DEF Spec, IsAtomic, Atomic!Spec

=============================================================================
