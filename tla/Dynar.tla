------------------------------- MODULE Dynar -------------------------------
(***************************************************************************)
(* The whole handle: every operation, by any number of concurrent          *)
(* requests, on one connection; and what is promised of it.                *)
(***************************************************************************)
EXTENDS TransactOps, TableOps

(* A step that the program takes by itself for request r.                  *)
Step(r) ==
    \/ Begin(r)
    \/ Commit(r)
    \/ StatementFails(r)
    \/ TxFails(r)
    \/ Finish(r)
    \/ ItemStep(r)
    \/ TransactStep(r)
    \/ TableStep(r)

Next ==
    \/ \E r \in Requests :
          \/ \E in \in Inputs : Do(r, in)
          \/ Step(r)
          \/ Return(r)
          \/ Cancel(r)
    \/ Tick
    \/ CloseFlag
    \/ CloseSql
    \/ Crash
    \/ Reopen

Spec == Init /\ [][Next]_vars

(* Every goroutine is scheduled, and database/sql hands a freed connection *)
(* to one of the waiting requests at random: none of them loses for ever.  *)
FairSpec == Spec /\ \A r \in Requests : SF_vars(Step(r))

-----------------------------------------------------------------------------
(* Invariants                                                              *)

(* One transaction at a time: the request inside one holds the connection, *)
(* and with nobody inside one the connection shows the committed database. *)
(* (SetMaxOpenConns(1), withTx.)                                           *)
OneTransaction ==
    /\ \A r \in Requests : pc[r] \in TxSteps <=> conn = r
    /\ conn = NoReq => work = disk

(* What a write computes from is what it replaces: between the read of an  *)
(* item and the write that depends on it nothing else changed the item,    *)
(* not even an earlier write of the same transaction.                      *)
ReadsCurrent ==
    \A r \in Requests :
        /\ pc[r] = "write" => local[r].olds[1] = Cell(work, Act(r))
        /\ pc[r] = "apply" =>
              \A i \in local[r].idx..ActCount(r) :
                  local[r].olds[i] = Cell(work, input[r].acts[i])

(* The catalog and the data tables agree, one table for each name, and a   *)
(* table that does not exist has no items.  (CreateTable and DeleteTable   *)
(* change both, in several statements.)                                    *)
CatalogBacked == Backed(disk)

(* No stored item is larger than the limit, whichever operation wrote it.  *)
SizesBounded == Bounded(disk)

-----------------------------------------------------------------------------
(* Action properties                                                       *)

(* A table under deletion protection, and its items, outlive every step    *)
(* that does not turn the protection off; nothing turns it off.            *)
(* (opDeleteTable's test of deletion_protection.)                          *)
ProtectionHolds ==
    [][\A n \in Names :
          disk.catalog[n] # NoRow /\ disk.catalog[n].protected
          => /\ disk'.catalog[n] # NoRow
             /\ disk'.catalog[n].protected
             /\ DataTable[n] \in disk'.backing]_vars

(* A client token stays with its request until its window is over, however *)
(* long the transactions that purge have waited for the connection.        *)
TokenRetained ==
    [][\A k \in Tokens :
          /\ disk.tokens[k] # NoStamp
          /\ clock <= disk.tokens[k].at + clientTokenTTLSeconds
          => disk'.tokens[k] = disk.tokens[k]]_vars

(* Once Close has returned and no transaction is left, no other begins and *)
(* the file does not change, whatever was waiting for the connection.      *)
(* (DB.Close: requests fail rather than touching the file.)                *)
ClosedFileUntouched ==
    [][handle = "closed" /\ conn = NoReq => disk' = disk /\ conn' = NoReq]_vars

-----------------------------------------------------------------------------
(* What comments and documents say of the program, and it does not do      *)

(* An acknowledged TagResource or UntagResource is applied to the tags     *)
(* that the table has at that moment: operations are serialized.           *)
(* (The handlers read the tags in one statement, write them in another.)   *)
TagWritesSerialized ==
    [][\A r \in Requests :
          pc[r] = "retag" /\ pc'[r] = "answered" /\ disk'.catalog[Table(r)] # NoRow
          => LET before == disk.catalog[Table(r)].tags IN
             \/ reply'[r].code # "ok"
             \/ disk'.catalog[Table(r)].tags =
                   IF Op(r) = "TagResource" THEN before \union input[r].tags
                                            ELSE before \ input[r].tags]_vars

(* Whatever goes wrong inside a handler reaches the client as an error     *)
(* reply; no handler ends its goroutine.  (The tag handlers use the table  *)
(* that an unchecked loadTable did not return.)                            *)
NoPanic == \A r \in Requests : reply[r].code # "panic"

(* The keys stored in a table have the type of its key schema.  (The item  *)
(* operations check a key against a catalog row loaded before their        *)
(* transaction begins.)                                                    *)
KeysMatchSchema ==
    \A n \in Names, k \in Keys :
        disk.catalog[n] # NoRow /\ disk.data[DataTable[n]][k] # NoItem
        => KeyType[k] = disk.catalog[n].type

-----------------------------------------------------------------------------
(* Liveness: every call returns.                                           *)
EveryCallReturns ==
    \A r \in Requests : pc[r] # "idle" ~> pc[r] \in {"done", "idle"}

-----------------------------------------------------------------------------
(* The refinement: a request is where the client sees it.                  *)
Phase(step) ==
    CASE step = "idle" -> "none"
      [] step = "created" -> "created"
      [] step \in {"answered", "done"} -> "answered"
      [] OTHER -> "open"

PhaseSeen == [r \in Requests |-> Phase(pc[r])]

CatalogSeen ==
    [n \in Names |->
        IF disk.catalog[n] = NoRow THEN NoRow
        ELSE [type |-> disk.catalog[n].type, protected |-> disk.catalog[n].protected]]

DataSeen ==
    [n \in Names |->
        IF disk.catalog[n] = NoRow THEN [k \in Keys |-> NoItem]
                                   ELSE disk.data[DataTable[n]]]

Atomic == INSTANCE AtomicStore WITH
    catalog <- CatalogSeen,
    data    <- DataSeen,
    tokens  <- disk.tokens,
    phase   <- PhaseSeen

(* Every request of the program takes effect at one instant and is         *)
(* answered truthfully, as AtomicStore says.                               *)
IsAtomic == Atomic!Spec

=============================================================================
