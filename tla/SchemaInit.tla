----------------------------- MODULE SchemaInit -----------------------------
(***************************************************************************)
(* Open and initSchema (store.go): an opener finds a new file and creates  *)
(* the schema in it, statement by statement and each one committed by      *)
(* itself, or finds an existing file and checks its schema version.        *)
(* Openers are processes or handles of one process, each with a connection *)
(* of its own and the schema version that it was built with.  Any          *)
(* statement may fail, and an opener may die between two of them.          *)
(***************************************************************************)
CONSTANTS
    Openers,
    Versions,   \* schema versions
    Version,    \* Openers -> Versions: schemaVersion of the opener's build
    NoVersion   \* no schema_version row

ASSUME SchemaAssumption ==
    /\ NoVersion \notin Versions
    /\ Version \in [Openers -> Versions]

Schema == {"dynar_meta", "dynar_tables", "dynar_tokens"}

VARIABLES
    tables,     \* names in sqlite_master; "other" for any that is not dynar's
    version,    \* value of the schema_version row
    pc,         \* the statement that an opener runs next
    refusal     \* why its last Open returned an error, or "none"

file == <<tables, version>>
vars == <<tables, version, pc, refusal>>

Creating == Schema \union {"version"}
Steps == Creating \union {"closed", "count", "read", "upgrade", "pragma", "open"}
Refusals == {"none", "failed", "unreadable", "not dynar's", "unsupported"}

TypeOK ==
    /\ tables \subseteq Schema \union {"other"}
    /\ version \in Versions \union {NoVersion}
    /\ pc \in [Openers -> Steps]
    /\ refusal \in [Openers -> Refusals]
    /\ \A o \in Openers : refusal[o] # "none" => pc[o] = "closed"

-----------------------------------------------------------------------------
(* Mutant of Following: the version is recorded before the other tables.   *)
FollowingEarly ==
    [dynar_meta |-> "version", version |-> "dynar_tables",
     dynar_tables |-> "dynar_tokens", dynar_tokens |-> "pragma"]

(* The order of the statements that create the schema.                     *)
Following ==
    [dynar_meta |-> "dynar_tables", dynar_tables |-> "dynar_tokens",
     dynar_tokens |-> "version", version |-> "pragma"]

Goto(o, step) ==
    /\ pc' = [pc EXCEPT ![o] = step]
    /\ UNCHANGED refusal

(* Mutant of Refuse: Open drops the error of initSchema.                   *)
RefuseNothing(o, reason) ==
    /\ pc' = [pc EXCEPT ![o] = "open"]
    /\ refusal' = [refusal EXCEPT ![o] = reason]
    /\ UNCHANGED file

(* Open returns an error and closes its connection.                        *)
Refuse(o, reason) ==
    /\ pc' = [pc EXCEPT ![o] = "closed"]
    /\ refusal' = [refusal EXCEPT ![o] = reason]
    /\ UNCHANGED file

(* Mutant of Empty: only tables of dynar are counted.                      *)
EmptyOfDynar == tables \intersect Schema = {}

(* sqlite_master has no entries.                                           *)
Empty == tables = {}

-----------------------------------------------------------------------------
(* A new or empty file, one of another program, one of a dynar of any      *)
(* version, and one of a dynar that had no dynar_tokens yet.               *)
Init ==
    /\ \/ tables \in {{}, {"other"}} /\ version = NoVersion
       \/ tables \in {Schema, Schema \ {"dynar_tokens"}} /\ version \in Versions
    /\ pc = [o \in Openers |-> "closed"]
    /\ refusal = [o \in Openers |-> "none"]

Open(o) ==
    /\ pc[o] = "closed"
    /\ pc' = [pc EXCEPT ![o] = "count"]
    /\ refusal' = [refusal EXCEPT ![o] = "none"]
    /\ UNCHANGED file

CountTables(o) ==
    /\ pc[o] = "count"
    /\ Goto(o, IF Empty THEN "dynar_meta" ELSE "read")
    /\ UNCHANGED file

(* CREATE TABLE fails if another opener was faster.                        *)
CreateTable(o) ==
    /\ pc[o] \in Schema
    /\ \/ /\ pc[o] \notin tables
          /\ tables' = tables \union {pc[o]}
          /\ Goto(o, Following[pc[o]])
          /\ UNCHANGED version
       \/ pc[o] \in tables /\ Refuse(o, "failed")

InsertVersion(o) ==
    /\ pc[o] = "version"
    /\ \/ /\ version = NoVersion
          /\ version' = Version[o]
          /\ Goto(o, Following["version"])
          /\ UNCHANGED tables
       \/ version # NoVersion /\ Refuse(o, "failed")

(* A missing dynar_meta is an error of the query, a missing row is not.    *)
ReadVersion(o) ==
    /\ pc[o] = "read"
    /\ \/ "dynar_meta" \notin tables /\ Refuse(o, "unreadable")
       \/ "dynar_meta" \in tables /\ version = NoVersion /\ Refuse(o, "not dynar's")
       \/ version \notin {NoVersion, Version[o]} /\ Refuse(o, "unsupported")
       \/ version = Version[o] /\ Goto(o, "upgrade") /\ UNCHANGED file

(* CREATE TABLE IF NOT EXISTS dynar_tokens.                                *)
Upgrade(o) ==
    /\ pc[o] = "upgrade"
    /\ tables' = tables \union {"dynar_tokens"}
    /\ Goto(o, "pragma")
    /\ UNCHANGED version

SetBusyTimeout(o) ==
    /\ pc[o] = "pragma"
    /\ Goto(o, "open")
    /\ UNCHANGED file

(* Any statement may fail, for a lock of another opener among others.      *)
StatementFails(o) ==
    /\ pc[o] \in Steps \ {"closed", "open"}
    /\ Refuse(o, "failed")

(* The process of an opener ends, or its handle is closed.                 *)
Crash(o) ==
    /\ pc[o] # "closed"
    /\ Goto(o, "closed")
    /\ UNCHANGED file

Step(o) ==
    \/ Open(o)
    \/ CountTables(o)
    \/ CreateTable(o)
    \/ InsertVersion(o)
    \/ ReadVersion(o)
    \/ Upgrade(o)
    \/ SetBusyTimeout(o)
    \/ StatementFails(o)
    \/ Crash(o)

Next == \E o \in Openers : Step(o)

Spec == Init /\ [][Next]_vars

-----------------------------------------------------------------------------
(* An Open that succeeds has the whole schema in the version of its build, *)
(* whatever openers died, failed or ran beside it (initSchema).            *)
AcceptedComplete ==
    \A o \in Openers : pc[o] = "open" => Schema \subseteq tables /\ version = Version[o]

(* A file of another program, or of a version that no opener has, is never *)
(* changed; and a recorded version stays (the rejections of Open's doc).   *)
RejectedUntouched ==
    [][/\ "other" \in tables \/ (version # NoVersion /\ \A o \in Openers : Version[o] # version)
          => UNCHANGED file
       /\ version # NoVersion => UNCHANGED version]_vars

(* The error "file was not created by dynar" is only given for a file that *)
(* dynar did not create (store.go, initSchema).                            *)
NeverDisowned ==
    \A o \in Openers : refusal[o] = "not dynar's" => "other" \in tables

=============================================================================
