---------------------------- MODULE TransactOps ----------------------------
(***************************************************************************)
(* TransactWriteItems (ops_transact.go): parse every item against its      *)
(* table's catalog row, one statement each, outside the transaction; then, *)
(* inside one, purge and look up client tokens, read and test every        *)
(* target, apply every write, and record the token.                        *)
(***************************************************************************)
EXTENDS ItemOps

Token(r) == input[r].token
TransactItems(r) == input[r].acts

(* Mutant of RepeatsTarget: no check.                                      *)
RepeatsNothing(r) == FALSE

(* The target of an earlier item of the same transaction.                  *)
RepeatsTarget(r) ==
    \E j \in 1..(local[r].idx - 1) : SameTarget(TransactItems(r)[j], Act(r))

(* parseTxItem for one item, with the check for a repeated target; after   *)
(* the last item the handler reads the clock and asks for the connection.  *)
ParseTxItem(r) ==
    /\ pc[r] = "load"
    /\ Op(r) = "TransactWriteItems"
    /\ Reads(r)
    /\ LET i == local[r].idx
           row == disk.catalog[Act(r).table]
           accepted == FitsSchema(row, Act(r)) /\ ~RepeatsTarget(r)
       IN
       \/ row = NoRow /\ Answer(r, "ResourceNotFoundException") /\ UNCHANGED local
       \/ row # NoRow /\ ~accepted /\ Answer(r, "ValidationException") /\ UNCHANGED local
       \/ /\ row # NoRow /\ accepted /\ i < ActCount(r)
          /\ local' = [local EXCEPT ![r].idx = i + 1]
          /\ Goto(r, "load")
       \/ /\ row # NoRow /\ accepted /\ i = ActCount(r)
          /\ local' = [local EXCEPT ![r].idx = 1, ![r].now = clock]
          /\ Goto(r, "begin")

SameRequest(stamp, r) == stamp.request = input[r]

(* The purge of expired tokens and the lookup of the request's own: a      *)
(* token used before either replays its success or refuses the request.    *)
LookUpToken(r) ==
    /\ pc[r] = "token"
    /\ LET tokens == Purge(work.tokens, local[r].now)
           stamp  == IF Token(r) = NoToken THEN NoStamp ELSE tokens[Token(r)]
       IN
       \/ /\ stamp = NoStamp
          /\ InTx(r)
          /\ work' = [work EXCEPT !.tokens = tokens]
          /\ Goto(r, "checkAll")
          /\ UNCHANGED local
       \/ /\ stamp # NoStamp /\ SameRequest(stamp, r)
          /\ InTx(r)
          /\ work' = [work EXCEPT !.tokens = tokens]
          /\ Goto(r, "commit")
          /\ UNCHANGED local
       \/ /\ stamp # NoStamp /\ ~SameRequest(stamp, r)
          /\ r \notin cancelled
          /\ Rollback(r)
          /\ Answer(r, "IdempotentParameterMismatchException")

(* Phase 1 for one item: getItem and its condition.  A condition that      *)
(* cannot be evaluated, or a missing data table, ends the loop at once; a  *)
(* condition that fails is noted, and cancels after the last item.         *)
Reason(act, old) ==
    IF Holds[act.cond][old] = "no" THEN "ConditionalCheckFailed" ELSE "None"

Failed(reasons) == \E i \in DOMAIN reasons : reasons[i] # "None"

Cancellation(reasons) ==
    [Reply("TransactionCanceledException") EXCEPT !.reasons = reasons]

CheckTxItem(r) ==
    /\ pc[r] = "checkAll"
    /\ r \notin cancelled
    /\ LET old     == Cell(work, Act(r))
           reasons == Append(local[r].reasons, Reason(Act(r), old))
           last    == local[r].idx = ActCount(r)
       IN
       \/ /\ ~Exists(work, Act(r))
          /\ Rollback(r) /\ Answer(r, "InternalServerError")
       \/ /\ Exists(work, Act(r)) /\ Holds[Act(r).cond][old] = "error"
          /\ Rollback(r) /\ Answer(r, "ValidationException")
       \/ /\ Exists(work, Act(r)) /\ Holds[Act(r).cond][old] # "error"
          /\ last /\ Failed(reasons)
          /\ Rollback(r) /\ AnswerWith(r, Cancellation(reasons))
       \/ /\ Exists(work, Act(r)) /\ Holds[Act(r).cond][old] # "error"
          /\ ~(last /\ Failed(reasons))
          /\ TxReads(r)
          /\ local' = [local EXCEPT ![r].idx = IF last THEN 1 ELSE @ + 1,
                                    ![r].olds = Append(@, old),
                                    ![r].reasons = reasons]
          /\ Goto(r, IF last THEN "apply" ELSE "checkAll")

(* Phase 2 for one item: an update that fails, an item that is too large   *)
(* or a total that is too large cancels the transaction; otherwise its     *)
(* write runs (a ConditionCheck has none).                                 *)
ApplyTxItem(r) ==
    /\ pc[r] = "apply"
    /\ LET act   == Act(r)
           i     == local[r].idx
           old   == local[r].olds[i]
           new   == NewItem(act, old)
           total == local[r].total + CountedSize(act, old)
           valid == /\ act.kind \in {"Put", "Update"} => Storable(new)
                    /\ total <= maxTransactTotalBytes
       IN
       \/ /\ ~valid
          /\ Rollback(r)
          /\ AnswerWith(r, Cancellation([local[r].reasons EXCEPT ![i] = "ValidationError"]))
       \/ /\ valid
          /\ conn = r /\ (Writes(act) => r \notin cancelled)
          /\ UNCHANGED <<disk, conn, handle, clock, cancelled>>
          /\ work' = IF Writes(act) THEN SetCell(work, act, new) ELSE work
          /\ local' = [local EXCEPT ![r].total = total,
                                    ![r].idx = IF i < ActCount(r) THEN i + 1 ELSE i]
          /\ Goto(r, CASE i < ActCount(r) -> "apply"
                       [] i = ActCount(r) /\ Token(r) # NoToken -> "stamp"
                       [] OTHER -> "commit")

(* The token row, stamped with the time at which the request completes.    *)
StampToken(r) ==
    /\ pc[r] = "stamp"
    /\ InTx(r)
    /\ work' = [work EXCEPT !.tokens[Token(r)] = [request |-> input[r], at |-> clock]]
    /\ Goto(r, "commit")
    /\ UNCHANGED local

TransactStep(r) ==
    \/ ParseTxItem(r)
    \/ LookUpToken(r)
    \/ CheckTxItem(r)
    \/ ApplyTxItem(r)
    \/ StampToken(r)

=============================================================================
