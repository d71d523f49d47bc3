# dynar in TLA+

dynar is a Go library that answers the AWS SDK's DynamoDB requests in-process
from one SQLite file. This directory holds TLA+ modules translated from its
source, TLC configurations that check them on small instances, and proofs,
checked by TLAPS, of what holds for every value of the constants.

## 1. The system

### Parts, state, operations

| part | source | state | operations |
|---|---|---|---|
| Transport | `dynar.go` | the `closed` flag; the request's context | `Do`: context and closed tests, `dispatch` to a handler, `respond`; a success is replaced by `RequestCanceled` when the context has ended meanwhile |
| Handle | `store.go` | a `database/sql` pool of one connection; the file | `Open`/`initSchema`, `Close`, `withTx`, `loadTable`, `getItem` |
| Tables, tags | `ops_table.go` | `dynar_tables`; one `dynar_data_<name>` per table | Create, Describe, List, Delete; ListTags, Tag, Untag |
| Items | `ops_item.go` | rows `(pk, sk, item)` | Put, Get, Update, Delete; Query, Scan |
| Transactions | `ops_transact.go` | `dynar_tokens` | TransactWriteItems: parse, purge and look up tokens, test all, apply all, stamp |
| Expressions | `expr.go`, `update.go` | none | conditions (three outcomes), updates of a document, exact arithmetic |
| Key encoding | `keyenc.go` | none | order-preserving bytes for S, N, B; prefix and its successor |
| Codec, validation, errors, words | `avjson.go`, `input.go`, `errors.go`, `reserved.go` | none | conversions between wire JSON, SDK values and replies |

There are no background tasks and no callbacks. Each request runs in its
caller's goroutine; requests meet only at the one connection (a transaction
keeps it, a single statement borrows it), at the `closed` flag and in the file.

### What is hard

* *Sequences of statements without a transaction.* Every item request loads its
  table's catalog row before its transaction begins; CreateTable reads its row
  back after the commit; the tag operations read, read again and write with
  nothing around them. Anything may happen in between.
* *Waiting for the connection.* A request that waits holds values it has
  already read: the catalog row, the clock, the parsed transaction.
* *Ends of a transaction.* Each of its statements may fail or find its context
  done; it must give the connection back on every path, once, undone.
* *Close, cancellation, death* at any of these points, and retries with a client
  token that race the attempt they repeat.
* *Listings* that take several requests while the table changes.
* *Creation of the file*, statement by statement.
* *Updates in place* of a copy whose parts are shared: an alias or a moved list
  element may carry one action's effect to a path no action names.
* *Pure algorithms on boundaries*: decimals, key order, REMOVE from lists.

PROJECT.json lists these as hazards, each at its line.

### What makes each part correct

* Handle: one transaction at a time; an unfinished one leaves no trace; a closed
  file is left alone; every call returns.
* Items and transactions: a request takes effect at one instant, as a whole, on
  the state that satisfied its conditions; a refusal tells the truth about the
  state and changes nothing; limits hold for what is stored.
* Tokens: within its window a token replays its own request and refuses any
  other.
* Tables: catalog and data tables agree; protection protects; keys have the
  type that their table declares.
* Listings: in order, nothing twice, nothing steady missed; they end.
* File: what `Open` accepts is complete; what it rejects is untouched.
* Updates: they change what their paths name, report all of it, and store only
  what is valid. Conditions agree with each other on every item.
* Algorithms: they equal their mathematical definition; the order of encoded
  keys is the order of the values.

## 2. Modules

    DynarData ── Store ── ItemOps ── TransactOps ──┐
        │           └──── TableOps ────────────────┴── Dynar ─┬─ MCDynar
        └── AtomicStore  (INSTANCE in Dynar: Atomic)          └─ DynarProofs
                            DynarProofs ── StoreProofs ── RefinementProofs
    KeyEncoding ── Values ─┬─ Paging ── MCPaging
        │                  │     └───── PagingProofs
        │                  ├─ Conditions ──┐
        │                  └─ Projection ──┴─ Documents ── MCDocuments
        │                     DecimalSums ────┘ (INSTANCE: Sums)
        │                          │          └── DocumentProofs ── ItemProofs
        │                          └── Decimal ── MCDecimal
        └── KeyProofs ── PagingProofs
    SchemaInit ─┬─ MCSchemaInit
                └─ SchemaProofs

| module | models | correspondence |
|---|---|---|
| `DynarData` | requests, items, catalog, tokens | constants and the operators of one write. Items, conditions and update expressions are abstract: `Holds[cond][old]` is `evalCond`'s outcome, `Result[update][old]` that of `applyUpdate` and validation, `Size` is `itemSize` |
| `Store` | `dynar.go`, `store.go` | `pc[r]` is the next statement of request `r`; `conn` the holder of the connection; `disk` the committed database and `work` what the connection sees; `Begin`, `Commit`, `Rollback` are `withTx`; `StatementFails`, `TxFails` every error of a statement, with the reply its caller makes of it; `Do`, `Finish`, `Return` the transport; `Cancel`, `CloseFlag`, `CloseSql`, `Crash`, `Reopen`, `Tick` the world |
| `ItemOps` | Put, Get, Update, Delete | `LoadItemTable` (load and validation), `GetItem`, `CheckItem`/`CheckFails` (read and test in the transaction), `WriteItem` |
| `TransactOps` | TransactWriteItems | `ParseTxItem` per item (each load is a statement of its own), `LookUpToken`, `CheckTxItem`, `ApplyTxItem`, `StampToken` |
| `TableOps` | table and tag operations | one action per statement |
| `Dynar` | the whole handle | composes the handlers; all properties; the refinement mapping |
| `AtomicStore` | what a client may rely on | a request is `open`, then settled in one step against the current database, and its reply is a fact about that step |
| `KeyEncoding` | `keyenc.go` | key attributes as sequences of bytes; a numeral is kept as it was spelled (sign, digits, exponent) and parsed by `parseDecimal`; `Precedes` is SQLite's order of BLOBs |
| `Values` | values and their comparison in `expr.go` | a value is a function from paths to nodes, so a list or map needs no recursion; `avEqual`, `compareOrder` |
| `Conditions` | `evalCond` and below | one operator per kind of node; the outcomes are yes, no and error, and AND, OR and IN stop where the code does |
| `Projection` | `projectItem`, `mergeAV` | paths wrapped and merged one after the other |
| `Documents` | `applyUpdate`, `validateItem`, `itemSize`, UpdateItem on one item | the copy an update works on is a value together with the identity of the container at each path, so that assignment and removal act wherever a shared container is found; one action per end of the request (refused, condition failed, update failed, updated) |
| `Paging` | Query and Scan | a client follows `LastEvaluatedKey` page by page while others write, delete and create the table. Each page is two steps, `Load` and `Page`; the SELECT works on encoded keys, the properties on the attributes' values |
| `SchemaInit` | `Open`, `initSchema` | openers, possibly of different builds, one statement at a time on one file |
| `DecimalSums` | `addNumbers`, `ratDecimalString` | an integer stands for a multiple of 1/`Unit` |
| `Decimal` | a counter | ADD and SET +/- on one attribute |

A statement outside a transaction is one atomic step: the pool has one
connection and the statement gives it back. Inside a transaction every
statement is a step, so that cancellations, failures and deaths fall between any
two. The whole-handle modules take the outcome of conditions and updates from
the constants `Holds` and `Result`, so that what they show does not depend on
which documents there are; `Conditions` and `Documents` say how those outcomes
come about. `Begin` does not queue: `database/sql` picks a waiting request at random.

## 3. Runs

| run | asks | properties | distinct states |
|---|---|---|---|
| `items` | two requests out of Put, Update, Delete, Get and four transactions, on two keys; cancellation and failing statements | `TypeOK` `OneTransaction` `ReadsCurrent` `SizesBounded` `IsAtomic` | 559,015 |
| `tables` | tables created, deleted, described, tagged under item requests; two names that SQLite folds into one; a protected table | `CatalogBacked` `ProtectionHolds` | 140,144 |
| `lifecycle` | Close, crash and reopening around every kind of request; client tokens and a clock that opens and ends their windows; fair | `TokenRetained` `ClosedFileUntouched` `IsAtomic` `EveryCallReturns` | 190,348 |
| `paging` | fourteen queries and scans of four tables (sort keys S, N, B, none), both directions, limits 0, 1, 2, every kind of key condition, filters that drop and that fail; any writes, deletion and creation of the table between two statements; fair | `TypeOK` `RowsOrderedAsKeys` `SelectsAsDescribed` `PagesInOrder` `ListingComplete` `StrictlyAfter` `ListingEnds` | 56,954 |
| `documents` | eighteen conditional updates in any order on one item: aliases, appended and shifted lists, sets spelled in two ways, overlaps, sums, updates that fail late | `TypeOK` `ConditionsCoherent` `ProjectionExact` `OnlyNamedChange` `ChangeReported` `RemovalsExact` `SetsBehaveAsSets` | 12,797 |
| `open` | three openers of two builds on an empty, a foreign, a current, an older and a newer file | `TypeOK` `AcceptedComplete` `RejectedUntouched` | 2,540 |
| `tags` | two TagResource on one table | `TagWritesSerialized` is violated | |
| `panic` | ListTagsOfResource beside DeleteTable | `NoPanic` is violated | |
| `schema` | PutItem beside DeleteTable and CreateTable with another key type | `KeysMatchSchema` is violated | |
| `halfinit` | one opener that dies or fails while it creates the file | `NeverDisowned` is violated | |
| `decimal` | a counter of tenths up to 12 | `SumsExact` is violated | |
| `removes` | REMOVE from two lists by turns | `RemovesTakeEffect` is violated | |

The passing runs explore their whole state space (the symmetric ones one
representative of each orbit). Deadlock is checked in every run.

**`IsAtomic`** is the central property: `Dynar` implements `AtomicStore`. The
mapping shows committed tables, items and tokens, and of each request only
whether it is open, created (CreateTable's commit precedes its reply) or
answered. TLC checks that every step of every handler maps to a settlement of
one request that is legal in the current state, or to nothing. It covers
atomicity, conditional writes, truthful refusals, replay of tokens, and
durability across `Crash` at once. What it does not promise: tags (see `tags`),
the moment a token's window ends (a replay is allowed as long as its row is
there), and the absence of `InternalServerError`.

**`RowsOrderedAsKeys`** and **`SelectsAsDescribed`** judge the encoding by what
it is for: the index of the data table sorts as the keys do, one key is one row
however it is spelled, and the range of BLOBs a key condition becomes holds
exactly the keys that satisfy it. The other properties of `paging` speak of keys
and not of bytes, and rest on these two.

### Bounds, and why they are enough

* *Two requests* (symmetric). What the handlers keep between steps concerns one
  item, one table or one token, and any conflict is between the holder of such a
  value and one that changes it; a third party acts as one of the two, for a
  request that has returned becomes another.
* *Two keys, one or three tables*: transactions have up to two acts,
  enough for an act that fails after one that succeeded, for a repeated target
  and for a write of one key beside a check of another.
* *Items* grow `v1`, `v2`, `big`; `big` alone passes the limit of an item, two
  `v2` pass that of a transaction; one update fails on a missing item.
* *One token, MaxClock = 1, window 0* (`lifecycle`): two different transactions
  under one token, whose window opens, is at its very end, is over and opens
  again; `TokenRetained` is proved for any number of tokens and any window.
  Where time plays no part, MaxClock is 0.
* *Faults* are split among the runs; each run names its own.
* `Reopen` waits until every request has returned, and a COMMIT fails only for
  a done context (a failed COMMIT leaves the state of the SQLite driver's
  connection to code that is not in this repository).
* `paging`: three keys per table, chosen where an encoding could go wrong: a key
  that is a prefix of another or holds the bytes of a terminator, -10 and -9 and
  a fraction, 255 at the end of a begins_with prefix. A limit of 1 makes every
  boundary a page boundary, one of 2 does not. A client lists once; another
  listing would be this one from other rows. One request per kind of condition
  and direction, not their product: a page depends on them only through the
  set of rows it selects and their order.
* `documents`: `MaxItemSize` is 24 and `MaxDigits` 1 instead of 409,600 and 38, so
  that both limits are met; names count one byte. Values are the smallest that
  tell their kinds apart; lists grow to three elements, maps nest three deep.
  `:refs` are numbers, one for each value, and lie beside the attributes of the
  copy. Update values are storable and their sets
  hold nothing twice, as getExprEnv and the SDK's users see to. Requests that put
  a container into itself have that action last.
* `open`: two openers of a build meet each other and one of the next build;
  version 3 belongs to nobody.

### Fairness

`FairSpec` of `Dynar` is strong fairness of each `Step(r)`: goroutines are
scheduled, and `database/sql` grants a freed connection to a random waiter, so
one that waits for ever would lose infinitely many draws. Nothing is assumed of
clients, clocks, Close, faults. `EveryCallReturns` then says that no path leaves
the connection taken. `FairSpec` of `Paging` is weak fairness of asking for the
next page (there is no listing otherwise); writers stay free to write for ever,
and `ListingEnds` holds because every page moves the start key on.

### Mutants

Each property of a passing run has a mutant of a modelled definition, written
beside it and named in PROJECT.json, that a plausible slip in the code would
produce (a rollback that commits, a pool of more than one connection, a purge
with `<=`, a page continued from its own key, the version recorded first, a
successor that wraps around, negative numbers that are not complemented, members of sets compared as they are spelled). With
it TLC finds the property violated under the run's own configuration.

## 4. Findings

* **Sums lose zeros** (`decimal`; `update.go:794`). `ratDecimalString` trims
  trailing zeros of integers too: 9 + 1 is stored as 1. A counter incremented
  with ADD falls back at every multiple of ten.
* **Tag operations panic** (`panic`; `ops_table.go:354`). The second load's
  error is dropped and a nil table used when the table was deleted in between.
* **Tag updates are lost** (`tags`; `ops_table.go:371-387`): read and write are
  two statements without a transaction.
* **Keys of an old type** (`schema`; `ops_item.go:97-141`): the key is checked
  against a row loaded before the transaction.
* **A file dynar began is disowned** (`halfinit`; `store.go:88-99`): after a
  failure or a death during creation every Open says "file was not created by
  dynar". Recovery means deleting the file by hand.
* **REMOVE takes the wrong element** (`removes`; `update.go:272`). The sort of the
  removals compares only within one list and calls all else equal, which is no
  order: `REMOVE a[0], b[0], a[1]` stays as it is, and what was a[2] goes instead
  of a[1]. Removals that stand side by side are right: `RemovalsExact` is
  proved.

Seen while reading or modelling, without a run of its own:

* A replay may be answered from a row older than the window if the transaction
  waited after reading the clock (`ops_transact.go:170`).
* CreateTable for a name that differs only in case from an existing one, and item
  requests that lose a race with DeleteTable, get InternalServerError; two such
  names in one transaction pass for two targets but share a table.
* Query on a table without sort key accepts an ExclusiveStartKey and adds no
  predicate for it (`ops_item.go:584`), so the item comes again, where the comment
  at line 573 says "continue strictly after that key". `paging` lists such tables
  by Scan.
* `SET m.x = m` puts the map into itself; `validateItem` then recurses without
  end and the process dies (`update.go:434`; the outcome "died" of `Documents`,
  which the instance reaches).
* `SET b = a` makes b and a one container for the rest of the update:
  `SET b = a REMOVE a[0]` takes the element from both. `OnlyNamedChange` allows
  it, since both paths are named. SET actions also see each other's effects.
* A change may go unreported (`update.go:281`). A REMOVE resolves its
  path after earlier ones have moved list elements. After `SET a[2] = m`, which
  makes a[2] and m one map, `REMOVE a[0], a[1].x` finds that map at a[1]: m loses
  x, although no path leads to m, and `UPDATED_OLD` and `UPDATED_NEW` do not have
  it. A DELETE that empties a set in a list moves elements in the same way.
  `OnlyNamedChange`, `ChangeReported`, `RemovalsExact` and `SetsBehaveAsSets` speak
  of the requests where no path leads through an element that may have moved
  (`Independent`).
* A projection gives list elements in the order of its paths, and two paths
  through one element give two elements (`ops_item.go:1062`; `Orderly` excludes
  both).
* A list index too large for an int is taken for 0 (`expr.go:246`).

## 5. Proofs

| theorem | module | statement |
|---|---|---|
| `TypeCorrect` | DynarProofs | `Spec => []TypeOK` |
| `OneTransactionHolds` | DynarProofs | `Spec => []OneTransaction` |
| `ClosedFileUntouchedHolds` | DynarProofs | `Spec => ClosedFileUntouched` |
| `TokenRetainedHolds` | DynarProofs | `Spec => TokenRetained` |
| `CatalogBackedHolds` | StoreProofs | `Spec => []CatalogBacked` |
| `SizesBoundedHolds` | StoreProofs | `Spec => []SizesBounded` |
| `ProtectionHoldsAlways` | StoreProofs | `Spec => ProtectionHolds` |
| `ReadsCurrentHolds` | StoreProofs | `OneNamePerTable => (Spec => []ReadsCurrent)` |
| `RefinementHolds` | RefinementProofs | `OneTablePerName => (Spec => IsAtomic)` |
| `PagingTypeCorrect` | PagingProofs | `FairSpec => []TypeOK` |
| `RowsOrderedAsKeysHolds` | PagingProofs | `FairSpec => []RowsOrderedAsKeys` |
| `SelectsAsDescribedHolds` | PagingProofs | `FairSpec => []SelectsAsDescribed` |
| `PagesInOrderHolds` | PagingProofs | `FairSpec => []PagesInOrder` |
| `ListingCompleteHolds` | PagingProofs | `FairSpec => []ListingComplete` |
| `StrictlyAfterHolds` | PagingProofs | `Continuable => (FairSpec => []StrictlyAfter)` |
| `OnlyNamedChangeHolds` | DocumentProofs | `Spec => OnlyNamedChange` |
| `ChangeReportedHolds` | DocumentProofs | `Spec => ChangeReported` |
| `DocumentsTypeCorrect` | ItemProofs | `Spec => []TypeOK` of `Documents` |
| `ConditionsCoherentHolds` | ItemProofs | `Spec => []ConditionsCoherent` |
| `SetsBehaveAsSetsHolds` | ItemProofs | `Spec => SetsBehaveAsSets` |
| `ProjectionExactHolds` | ItemProofs | `Spec => []ProjectionExact` |
| `RemovalsExactHolds` | ItemProofs | `Spec => RemovalsExact` |
| `AttributesSort` | PagingProofs | encoded attributes sort as their values do |
| `NumbersSort` | KeyProofs | encoded numbers sort as `compareNumbers` says, and equal ones are one key |
| `PrecedesStrictTotalOrder` | KeyProofs | SQLite's order of BLOBs is a strict total order |
| `PrefixRange` | KeyProofs | the BLOBs from b to `successor(b)` are those that start with b |
| `SchemaTypeCorrect` | SchemaProofs | `Spec => []TypeOK` |
| `AcceptedCompleteHolds` | SchemaProofs | `Spec => []AcceptedComplete` |
| `RejectedUntouchedHolds` | SchemaProofs | `Spec => RejectedUntouched` |

They hold for any sets of requests, tables, keys, items, conditions, updates,
tokens, openers and builds, for numerals and byte strings of any length, for
update and condition expressions of any length and depth, under the named
assumptions of `DynarData`, `Store`, `Paging`, `KeyEncoding`, `SchemaInit`,
`Documents` and `Conditions`: sentinels are not values, tables of outcomes are
total, requests have the shape their parsers establish, a file that is opened was
written by dynar (`FilesAssumption`), keys are distinct values that have encodings
(`KeysAssumption`), actions and conditions are as `parseUpdateExpr` and
`parseCond` leave them, paths as `parsePath` does, beginning with a name
(`UpdatesAssumption`, `CondsAssumption`, `ProjectionsAssumption`), the right side
of a SET is finitely nested (`RvaluesAssumption`), the values of `:refs` have passed
`getExprEnv`'s validateAV (`RefsAssumption`), and the attributes of the key are
scalars and within the limits, as `tableKey` demands and a PutItem of the key
alone would (`KeyAttributesAssumption`). TLC evaluates these assumptions in every
run.

### Types, tokens, the connection

* **OneTransaction** needs only the types of `pc` and `conn` (`TxInv`). Four
  lemmas say how a step keeps it: a move outside or inside a transaction, an
  entry, an exit; every action is one of them.
* **TypeOK** is not inductive: that `olds[idx]` exists when `ApplyTxItem` reads
  it depends on which loop filled it. `TypeInv` adds `Control`: for each step,
  what a handler has established of its input and variables by the time it is
  there. One lemma per action.
* **TokenRetained** speaks of committed tokens, but they are changed in `work`
  and published by `Commit`. `TokenInv` says that a live token is the same in
  both, that a transaction past the lookup owns a token that is free, and that
  no captured time is later than the clock: so the purge, whenever its cutoff was
  read, spares what is alive, and the stamp overwrites nothing.

### The committed database and the refinement

* **StoreInv** is the invariant behind the properties of what is stored. `Parsed`
  says what a request's parser has established of it, in particular that the
  targets of a transaction are distinct. `Progress` says of the one request
  whose transaction is open what `work` is: a function of `disk`, of the input
  and of how far the handler is (`Checked`, `ReadUpTo`, `Tested`, `WrittenUpTo`),
  and at the commit the whole write (`Complete`). What others do cannot disturb
  it, since `disk` changes only by the commit of that request. A sum over the
  first n acts is a recursive function, whose existence and uniqueness are shown
  by taking a least counterexample (`Least`, `SumExists`, `SumUnique`, `SumStep`).
* **CatalogBacked**, **SizesBounded**, **ProtectionHolds** follow from `Complete`
  at the only step that changes `disk`, with nothing assumed of names.
  **ReadsCurrent** speaks of the writes that a transaction has still to apply,
  and needs that no request names one SQLite table by two names
  (`OneNamePerTable`): dynar tests targets by the names in the request, SQLite
  folds case.
* **IsAtomic** is proved by one lemma per step. A COMMIT is the instant at which
  a write takes effect: `Complete` is what `AtomicStore` demands of it. Every
  other step either answers (a refusal, a read, a failure: a fact about the
  database as it is then) or shows nothing. The hypothesis `OneTablePerName`
  cannot be dropped: with two names folded into one, DescribeTable may load
  "orders", which is deleted and created again as "Orders", and then count the
  items of the new one as those of the old. TLC finds that violation when
  `IsAtomic` is added to the `tables` run, whose names do fold; `items` and
  `lifecycle` have names that do not. The tag operations, ListTables and
  DescribeTable beside CreateTable and DeleteTable are in no run that checks
  `IsAtomic`: for them the proof is the evidence.

### Keys and listings

* **AttributesSort** rests on one lemma per type. `appendEscaped` is a recursive
  function on byte strings; that it is one at all is shown by approximations on
  lengths, and what it preserves (order, prefixes, where a terminator meets an
  escaped zero) by taking a shortest counterexample (`Shortest`).
* **NumbersSort**. Keys of two signs differ in their second byte. Of two positive
  numbers the smaller has the smaller payload at a position that both have: a
  byte of the biased exponent, a digit, or the place where its terminator meets
  a digit of the other (digits end in no zero, so that digit is above 0 and so is
  its code). Negative numbers are complemented byte by byte, terminator
  included, which turns the difference at that position around.
* **RowsOrderedAsKeys** and **SelectsAsDescribed**: a row's BLOBs are those of its
  attributes, a comparison with an encoded value is the comparison of the
  values, and the range of a prefix holds what begins with it (`PrefixRange`; the
  terminator is dropped from the prefix). Proved for every table and request,
  they are the lemmas `KeysAreFaithful` and `ConditionsAreFaithful` that the
  properties of pages use.
* **Pages**. `PagingInv` strengthens `PagesInOrder` with `Reached` (all that the
  client has comes before, or up to, the key it continues after), so that the
  next page, which lies after that key, lies after everything before it. A page
  that is not the last needs a last row: the greatest of a finite set, found as
  the element with most others below it (`GreatestOf`). `AfterInv` compares the
  start key with the client's own ExclusiveStartKey; `Continuable` leaves out
  queries of tables without a sort key, which do go back (see the findings).
  `CompleteInv` says that up to the start key the client has every item it is
  owed (`GivenSoFar`); a step keeps it because the limit cuts off only rows after
  those it keeps (`ScannedDownward`).

### Updates and conditions

* **OnlyNamedChange** follows the copy through an update. The copy is a tree of
  paths (`Tree`), with an identity at each; a mutation of one container acts at
  every path that has its identity. A place is `Steady` when no action names it,
  or something above it, and no removal before it in its list can move it.
  `Owns` says that the container at a steady place is found at no other one, so
  that what is assigned or removed through an alias stays under paths that the
  update names; `Keeps` says that an untouched place still has the item's node.
  With `Apart` (what the overlap check of validation leaves) they make `Good`, the
  invariant of the loops of `applyUpdate`: of the actions in the order of the
  request, while the REMOVEs wait, and of the waiting REMOVEs then. One lemma per
  kind of action. That the item is a tree (`Stored`) is the invariant of `Spec`.
* **ChangeReported** uses `Good` for the first steps of paths: an attribute that
  no action begins with is as it was.
* The recursive functions of the model (`eval`, what is left `after` the actions,
  `removes`) are shown to exist before anything is said of them (`EvalExists`,
  `AfterExists`, `SortedExists`); inductions over them take a least counterexample.
* **TypeOK** of `Documents` says that what is stored is a value: what is in a
  container fits its type, lists have no gaps, sets hold nothing twice, the key is
  its own. That is not inductive over the actions of an update, since one that
  writes into a container writes wherever it is found. `Sound` is what each action
  keeps: the paths to one container lead to the same elements of it (`Heap`), the
  copy is shaped as a value (`Shaped`), its nodes are nodes and its sets are sets
  (`NodesOK`), the key is untouched (`KeyKept`), and a container that the update
  made was made by an action that has run (`MadeBy`), so that one that an action
  makes is new. `Put` and `Cut` have a lemma for each part. TLC checked `Sound`
  over the 12,797 states of `documents`, after every action, before it was proved.
  A list has no gaps after `Cut` because the elements behind the one that goes
  move down in all its places, and only there; an appended list, because its
  second part is moved by the length of the first.
* **SetsBehaveAsSets** follows the action on one set through the update. Until
  its turn comes the path has what the item has: the other actions spare it
  (`OtherSpares`), by the argument of `OnlyNamedChange`, so the set is united with,
  or reduced by, the one of the item (`Doing`, `UnionFacts`, `DiffFacts`). After it,
  nothing touches the path again: its place is `Steady`. Numbers are members by
  value, and `union` and `diff` compare each with each, so it matters that
  `numbersEqual` is an equivalence (`KindEquates`).
* **ConditionsCoherent**: `compareNumbers` is antisymmetric, the order of bytes is
  total (`Precedes`), the values of S, N and B have nothing in them, and IN and
  BETWEEN reduce to comparisons. That `size` compares as a numeral needs the
  digits of an integer, a recursion on tenths. It holds of every item that
  satisfies `TypeOK`, so of every item that is stored.
* **ProjectionExact** is about what is shown: `Shows` says that a result has the
  nodes of the item that are in `K` and nothing else, each at the place `Ranked`
  that counting the elements in `K` before it gives, in every list above it. After
  each path the result shows what the paths so far lead to (`LedUpTo`); two
  results that show the same are equal, and `Asked` shows the same (`AskedShows`).
  Orderly paths leave `K` in one of two ways (`Leaves`): at a name that is not
  there, or at a list, behind all elements of it that are, and either only after
  names (`OrderlyLeaves`: two paths never share an element). So merging appends in
  one list at most, and moves what is new by the number of elements that are there
  (`GraftPlaces`), which is its rank (`NewPlace`), while what was shown keeps its
  place (`KeepsPlace`). `MergeShows` is that step.
* **RemovalsExact**: what the removals so far leave of the item is `Standing`.
  After each, the document is `Left`: it shows what stands, each element at its
  rank (`Shows`, `Ranked` as above), and shares nothing (`Unshared`). `Without`
  shows the same in the end, since its count of the elements removed before one is
  what the rank of that one lacks (`WithoutShows`). A path is `Clear` when nothing
  that is gone stood before one of its steps; it then leads to where it led in the
  item (`ClearPlace`, `ClearLeads`), and `Cut` moves what stands to its next rank
  (`MovedRanks`, `CutStep`). Why each path is clear when its turn comes: for the
  steps above its last it is `Independent`, for the last step the sort
  (`PlanTurns`). Insertion keeps the removals `WellSorted` (`InsertSorts`): of one
  list the higher index comes first, or a name was removed from the same parent
  before, and then that parent is a map and the removal by index fails
  (`Fitting`). `RemovesLeave` goes through the loop.

### Creation of the file

* **AcceptedComplete**: CREATE TABLE dynar_meta lets a single creator pass
  (`OneCreator`), it makes the tables in order (`CreatedSoFar`) and the version
  last (`VersionIsLast`), and who has read the version finds the rest
  (`Checked`). The same invariant with `CreatorsAreOurs` gives
  **RejectedUntouched**.

### Only model-checked

* `EveryCallReturns` and `ListingEnds`: liveness rests on fairness, outside the
  prover's reach.

## 6. Not modelled

* Parsing of requests, capacities, `Select`, wire formats: they keep no state. A
  request is given in the shape its parser establishes, a numeral as its sign,
  digits and exponent.
* In `Documents`, what follows an action that puts a container into itself, and
  sums other than of integers (`Decimal` has those).
* ListTables' paging and CreateTable's parameter validation.
* The lexer and parser of expressions, reserved words, error constructors.
* SQLite, its driver and `database/sql`: external, as used by `src/`.

## 7. What is left

A run for replays after the window.
