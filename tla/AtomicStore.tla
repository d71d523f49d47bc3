---------------------------- MODULE AtomicStore ----------------------------
(***************************************************************************)
(* What dynar promises its clients: every request takes effect in one      *)
(* instant between its call and its reply, and the reply says what that    *)
(* instant found.  A write that is acknowledged was applied as a whole to  *)
(* the state that satisfied its conditions; a request that is refused      *)
(* changed nothing, and a refusal that blames the database's state (a      *)
(* missing table, a failed condition, a token used before) is true of it.  *)
(*                                                                         *)
(* The connection, the transactions, the catalog rows loaded ahead of them *)
(* and the tags of tables are details of the implementation.               *)
(***************************************************************************)
EXTENDS DynarData

CONSTANTS Requests, NoInput

VARIABLES
    catalog,   \* tables that exist: their key type and their protection
    data,      \* their items
    tokens,    \* tokens of applied transactions
    clock,
    phase,     \* of each request: "none", "open", "created", "answered"
    input,     \* what it asked
    reply      \* what it is told

vars == <<catalog, data, tokens, clock, phase, input, reply>>
database == <<catalog, data, tokens, clock>>

Reply(code) == [code |-> code, item |-> NoItem, reasons |-> <<>>]

EmptyTable == [k \in Keys |-> NoItem]

Init ==
    /\ catalog \in [Names -> RowFacts \union {NoRow}]
    /\ data \in [Names -> [Keys -> Stored]]
    /\ \A n \in Names : catalog[n] = NoRow => data[n] = EmptyTable
    /\ tokens \in [Tokens -> Stamps \union {NoStamp}]
    /\ clock = 0
    /\ phase = [r \in Requests |-> "none"]
    /\ input = [r \in Requests |-> NoInput]
    /\ reply = [r \in Requests |-> Reply("none")]

-----------------------------------------------------------------------------
Asks(r, ops) == phase[r] = "open" /\ input[r].op \in ops

Parts(r) == input[r].acts

Answer(r, answer) ==
    /\ phase' = [phase EXCEPT ![r] = "answered"]
    /\ reply' = [reply EXCEPT ![r] = answer]
    /\ UNCHANGED input

(* A reply that leaves the database as it is.                              *)
Refuse(r, answer) == phase[r] = "open" /\ Answer(r, answer) /\ UNCHANGED database

Old(act) == data[act.table][act.key]

Outcome(act) == Holds[act.cond][Old(act)]

Cataloged(acts) == \A i \in DOMAIN acts : catalog[acts[i].table] # NoRow

(* Each act of the request may be applied where it stands.                 *)
Fits(act) == act.kind \in {"Put", "Update"} => Storable(NewItem(act, Old(act)))

(* What the first n acts count toward the limit of a transaction.          *)
Total(acts, n) ==
    SumUpTo([i \in DOMAIN acts |-> CountedSize(acts[i], Old(acts[i]))], n)

Distinct(acts) ==
    \A i, j \in DOMAIN acts : SameTarget(acts[i], acts[j]) => i = j

Applicable(acts) ==
    /\ Cataloged(acts)
    /\ Distinct(acts)
    /\ \A i \in DOMAIN acts : Outcome(acts[i]) = "yes" /\ Fits(acts[i])

(* Every write of the request at once.                                     *)
After(acts) ==
    [n \in Names |-> [k \in Keys |->
        IF \E i \in DOMAIN acts : acts[i].table = n /\ acts[i].key = k
        THEN NewItem(acts[CHOOSE i \in DOMAIN acts :
                            acts[i].table = n /\ acts[i].key = k], data[n][k])
        ELSE data[n][k]]]

(* Tokens are forgotten only when their window is over.                    *)
Purges == {Purge(tokens, now) : now \in 0..clock}

-----------------------------------------------------------------------------
(* A call; a closed handle or a context that is done answers it at once.   *)
Invoke(r, in) ==
    /\ phase[r] = "none"
    /\ input' = [input EXCEPT ![r] = in]
    /\ \/ phase' = [phase EXCEPT ![r] = "open"] /\ UNCHANGED reply
       \/ \E code \in {"DatabaseClosedError", "RequestCanceled"} :
             /\ phase' = [phase EXCEPT ![r] = "answered"]
             /\ reply' = [reply EXCEPT ![r] = Reply(code)]
    /\ UNCHANGED database

(* One item, read or replaced; the reply carries what was there.           *)
Found(r) == [Reply("ok") EXCEPT !.item = Old(Parts(r)[1])]

ReadItem(r) ==
    /\ Asks(r, {"GetItem"})
    /\ Cataloged(Parts(r))
    /\ Refuse(r, Found(r))

WriteItem(r) ==
    /\ Asks(r, {"PutItem", "UpdateItem", "DeleteItem"})
    /\ Applicable(Parts(r))
    /\ data' = After(Parts(r))
    /\ Answer(r, Found(r))
    /\ UNCHANGED <<catalog, tokens, clock>>

(* A transaction: all of its writes, with its token; or nothing, for a     *)
(* request already applied with that token.                                *)
Transact(r) ==
    /\ Asks(r, {"TransactWriteItems"})
    /\ Applicable(Parts(r))
    /\ Total(Parts(r), Len(Parts(r))) <= maxTransactTotalBytes
    /\ data' = After(Parts(r))
    /\ \E kept \in Purges :
          IF input[r].token = NoToken THEN tokens' = kept
          ELSE /\ kept[input[r].token] = NoStamp
               /\ \E at \in 0..clock : tokens' =
                     [kept EXCEPT ![input[r].token] = [request |-> input[r], at |-> at]]
    /\ Answer(r, Reply("ok"))
    /\ UNCHANGED <<catalog, clock>>

Replay(r) ==
    /\ Asks(r, {"TransactWriteItems"}) /\ input[r].token # NoToken
    /\ tokens' \in Purges
    /\ tokens'[input[r].token] # NoStamp
    /\ tokens'[input[r].token].request = input[r]
    /\ Answer(r, Reply("ok"))
    /\ UNCHANGED <<catalog, data, clock>>

-----------------------------------------------------------------------------
(* A table comes and goes with its items.  CreateTable describes the table *)
(* after it exists, so its reply may still fail.                           *)

CreateTable(r) ==
    /\ Asks(r, {"CreateTable"})
    /\ catalog[input[r].table] = NoRow
    /\ catalog' = [catalog EXCEPT ![input[r].table] =
                      [type |-> input[r].row.type, protected |-> input[r].row.protected]]
    /\ phase' = [phase EXCEPT ![r] = "created"]
    /\ UNCHANGED <<data, tokens, clock, input, reply>>

DescribeCreated(r) ==
    /\ phase[r] = "created"
    /\ \E code \in {"ok", "ResourceNotFoundException", "InternalServerError"} :
          /\ code = "ok" => catalog[input[r].table] # NoRow
          /\ code = "ResourceNotFoundException" => catalog[input[r].table] = NoRow
          /\ Answer(r, Reply(code))
    /\ UNCHANGED database

DeleteTable(r) ==
    /\ Asks(r, {"DeleteTable"})
    /\ catalog[input[r].table] # NoRow
    /\ ~catalog[input[r].table].protected
    /\ catalog' = [catalog EXCEPT ![input[r].table] = NoRow]
    /\ data' = [data EXCEPT ![input[r].table] = EmptyTable]
    /\ Answer(r, Reply("ok"))
    /\ UNCHANGED <<tokens, clock>>

DescribeTable(r) ==
    /\ Asks(r, {"DescribeTable"})
    /\ catalog[input[r].table] # NoRow
    /\ Refuse(r, Reply("ok"))

(* A listing changes nothing; of tags nothing is promised here.            *)
Inspect(r) ==
    \/ Asks(r, {"ListTables"}) /\ Refuse(r, Reply("ok"))
    \/ /\ Asks(r, {"ListTagsOfResource", "TagResource", "UntagResource"})
       /\ \E code \in {"ok", "ResourceNotFoundException", "panic"} :
             Refuse(r, Reply(code))

-----------------------------------------------------------------------------
(* The refusals, and what each says of the state it met.                   *)

TableMissing(r) ==
    /\ \/ Asks(r, ItemOpNames) /\ ~Cataloged(Parts(r))
       \/ /\ Asks(r, {"DescribeTable", "DeleteTable"})
          /\ catalog[input[r].table] = NoRow
    /\ Refuse(r, Reply("ResourceNotFoundException"))

TableInUse(r) ==
    /\ Asks(r, {"CreateTable"})
    /\ catalog[input[r].table] # NoRow
    /\ Refuse(r, Reply("ResourceInUseException"))

TableProtected(r) ==
    /\ Asks(r, {"DeleteTable"})
    /\ catalog[input[r].table] # NoRow
    /\ catalog[input[r].table].protected
    /\ Refuse(r, Reply("ValidationException"))

(* A key of another type than the table's, a target named twice, an item   *)
(* that cannot be stored or a condition that cannot be evaluated.          *)
Invalid(r) ==
    /\ Asks(r, ItemOpNames)
    /\ \/ ~Distinct(Parts(r))
       \/ \E i \in DOMAIN Parts(r) :
             LET act == Parts(r)[i] IN
             \/ /\ catalog[act.table] # NoRow
                /\ KeyType[act.key] # catalog[act.table].type
             \/ input[r].op # "TransactWriteItems" /\ ~Fits(act)
             \/ Outcome(act) = "error"
    /\ Refuse(r, Reply("ValidationException"))

ConditionFails(r) ==
    /\ Asks(r, {"PutItem", "UpdateItem", "DeleteItem"})
    /\ Cataloged(Parts(r))
    /\ Outcome(Parts(r)[1]) = "no"
    /\ Refuse(r, [Reply("ConditionalCheckFailedException") EXCEPT
                    !.item = Old(Parts(r)[1])])

(* The reasons name exactly the conditions that fail together, ...         *)
Cancellation(reasons) ==
    [Reply("TransactionCanceledException") EXCEPT !.reasons = reasons]

ConditionsFail(r) ==
    /\ Asks(r, {"TransactWriteItems"})
    /\ Cataloged(Parts(r))
    /\ \A i \in DOMAIN Parts(r) : Outcome(Parts(r)[i]) # "error"
    /\ \E i \in DOMAIN Parts(r) : Outcome(Parts(r)[i]) = "no"
    /\ Refuse(r, Cancellation([i \in DOMAIN Parts(r) |->
                    IF Outcome(Parts(r)[i]) = "no" THEN "ConditionalCheckFailed"
                                                   ELSE "None"]))

(* ... or the first write that cannot be applied when all of them hold.    *)
WriteFails(r) ==
    /\ Asks(r, {"TransactWriteItems"})
    /\ Cataloged(Parts(r))
    /\ \A i \in DOMAIN Parts(r) : Outcome(Parts(r)[i]) = "yes"
    /\ \E i \in DOMAIN Parts(r) :
          /\ \A j \in 1..(i - 1) : /\ Fits(Parts(r)[j])
                                   /\ Total(Parts(r), j) <= maxTransactTotalBytes
          /\ ~Fits(Parts(r)[i]) \/ Total(Parts(r), i) > maxTransactTotalBytes
          /\ Refuse(r, Cancellation([j \in DOMAIN Parts(r) |->
                          IF j = i THEN "ValidationError" ELSE "None"]))

TokenMismatch(r) ==
    /\ Asks(r, {"TransactWriteItems"}) /\ input[r].token # NoToken
    /\ tokens[input[r].token] # NoStamp
    /\ tokens[input[r].token].request # input[r]
    /\ Refuse(r, Reply("IdempotentParameterMismatchException"))

(* The store fails, which it may do at any time.                           *)
Fails(r) == Refuse(r, Reply("InternalServerError"))

(* The client gave up on a request: it is not told that it succeeded.      *)
Withdraw(r) ==
    /\ phase[r] = "answered"
    /\ reply[r].code = "ok"
    /\ Answer(r, Reply("RequestCanceled"))
    /\ UNCHANGED database

Return(r) ==
    /\ phase[r] = "answered"
    /\ phase' = [phase EXCEPT ![r] = "none"]
    /\ input' = [input EXCEPT ![r] = NoInput]
    /\ reply' = [reply EXCEPT ![r] = Reply("none")]
    /\ UNCHANGED database

(* The process dies: what was applied stays, nobody is told.               *)
Crash ==
    /\ phase' = [r \in Requests |-> "none"]
    /\ input' = [r \in Requests |-> NoInput]
    /\ reply' = [r \in Requests |-> Reply("none")]
    /\ UNCHANGED database

Tick ==
    /\ clock' = clock + 1
    /\ UNCHANGED <<catalog, data, tokens, phase, input, reply>>

Settlement(r) ==
    \/ ReadItem(r) \/ WriteItem(r) \/ Transact(r) \/ Replay(r)
    \/ CreateTable(r) \/ DeleteTable(r) \/ DescribeTable(r) \/ Inspect(r)
    \/ TableMissing(r) \/ TableInUse(r) \/ TableProtected(r)
    \/ Invalid(r) \/ ConditionFails(r) \/ ConditionsFail(r) \/ WriteFails(r)
    \/ TokenMismatch(r) \/ Fails(r)

(* An open request is settled by one of them, once.                        *)
Settle(r) == phase[r] = "open" /\ phase'[r] # "open" /\ Settlement(r)

Next ==
    \/ \E r \in Requests :
          \/ \E in \in Inputs : Invoke(r, in)
          \/ Settle(r)
          \/ DescribeCreated(r)
          \/ Withdraw(r)
          \/ Return(r)
    \/ Crash
    \/ Tick

Spec == Init /\ [][Next]_vars

=============================================================================
