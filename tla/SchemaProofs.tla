---------------------------- MODULE SchemaProofs ----------------------------
(***************************************************************************)
(* Theorems about Open, for any openers and builds.                        *)
(***************************************************************************)
EXTENDS SchemaInit, TLAPS

(* An opener that is past CREATE TABLE dynar_meta.                         *)
Creator(o) == pc[o] \in Creating \ {"dynar_meta"}

(* Nobody creates a schema in a file of another program, or records a      *)
(* version there.                                                          *)
CreatorsAreOurs ==
    /\ \A o \in Openers : pc[o] \in Creating => "other" \notin tables
    /\ "other" \in tables => version = NoVersion

(* CREATE TABLE dynar_meta lets one creator pass; until it has inserted    *)
(* the version nobody else gets beyond reading it.                         *)
OneCreator ==
    \A o \in Openers : Creator(o) =>
        /\ version = NoVersion
        /\ "dynar_meta" \in tables
        /\ \A p \in Openers : Creator(p) => p = o

(* What a creator has made by the statement it has reached.                *)
CreatedSoFar ==
    \A o \in Openers :
        /\ pc[o] \in {"dynar_tokens", "version"} => "dynar_tables" \in tables
        /\ pc[o] = "version" => "dynar_tokens" \in tables

(* The version is recorded last, so that who reads it finds the tables.    *)
VersionIsLast == version # NoVersion => {"dynar_meta", "dynar_tables"} \subseteq tables

Checked ==
    \A o \in Openers :
        /\ pc[o] \in {"upgrade", "pragma", "open"} => version = Version[o]
        /\ pc[o] \in {"pragma", "open"} => "dynar_tokens" \in tables

Parts == CreatorsAreOurs /\ OneCreator /\ CreatedSoFar /\ VersionIsLast /\ Checked

SchemaInv == TypeOK /\ Parts

LEMMA InitSchemaInv == Init => SchemaInv
BY SchemaAssumption
   DEF Init, SchemaInv, Parts, TypeOK, CreatorsAreOurs, OneCreator, CreatedSoFar,
       VersionIsLast, Checked, Creator, Creating, Schema, Steps, Refusals

(* A step of an opener that stays out of the creation and the file.        *)
LEMMA MoveKeeps ==
    ASSUME SchemaInv, NEW o \in Openers, NEW step \in Steps \ Creating,
           NEW reason \in Refusals, reason # "none" => step = "closed",
           UNCHANGED file,
           pc' = [pc EXCEPT ![o] = step],
           refusal' = [refusal EXCEPT ![o] = reason],
           step \in {"upgrade", "pragma", "open"} => version = Version[o],
           step \in {"pragma", "open"} => "dynar_tokens" \in tables
    PROVE  SchemaInv'
<1>1. TypeOK'
  BY DEF SchemaInv, TypeOK, file
<1>2. Parts'
  BY DEF SchemaInv, Parts, TypeOK, CreatorsAreOurs, OneCreator, CreatedSoFar,
         VersionIsLast, Checked, Creator, Creating, Schema, file
<1>3. QED
  BY <1>1, <1>2 DEF SchemaInv

LEMMA RefuseKeeps ==
    ASSUME SchemaInv, NEW o \in Openers, NEW reason \in Refusals, Refuse(o, reason)
    PROVE  SchemaInv'
BY MoveKeeps DEF Refuse, Steps, Creating, Schema

LEMMA CreateTableKeeps ==
    ASSUME SchemaInv, NEW o \in Openers, CreateTable(o)
    PROVE  SchemaInv'
<1>1. CASE Refuse(o, "failed")
  BY <1>1, RefuseKeeps DEF Refusals
<1>2. CASE /\ pc[o] \notin tables
           /\ tables' = tables \union {pc[o]}
           /\ Goto(o, Following[pc[o]])
           /\ UNCHANGED version
  <2> DEFINE next == Following[pc[o]]
  <2>1. /\ pc[o] = "dynar_meta" => next = "dynar_tables"
        /\ pc[o] = "dynar_tables" => next = "dynar_tokens"
        /\ pc[o] = "dynar_tokens" => next = "version"
        /\ pc[o] \in {"dynar_meta", "dynar_tables", "dynar_tokens"}
    BY DEF CreateTable, Following, Schema
  <2>2. next \in Creating \ {"dynar_meta"}
    BY <2>1 DEF Creating, Schema
  <2>3. pc' = [pc EXCEPT ![o] = next] /\ UNCHANGED <<refusal, version>>
    BY <1>2 DEF Goto
  <2> HIDE DEF next
  <2>4. refusal[o] = "none"
    BY <2>1 DEF SchemaInv, TypeOK, Refusals
  <2>5. TypeOK'
    BY <1>2, <2>1, <2>2, <2>3, <2>4 DEF SchemaInv, TypeOK, Steps, Schema
  <2>6. \A p \in Openers : Creator(p) => p = o
    BY <1>2, <2>1 DEF SchemaInv, Parts, OneCreator, Creator, Creating, Schema
  <2>7. version = NoVersion
    BY <1>2, <2>1 DEF SchemaInv, Parts, OneCreator, VersionIsLast, Creator, Creating, Schema
  <2>8. OneCreator' /\ CreatorsAreOurs'
    BY <1>2, <2>1, <2>2, <2>3, <2>6, <2>7
       DEF SchemaInv, Parts, TypeOK, OneCreator, CreatorsAreOurs, Creator, Creating, Schema
  <2>9. CreatedSoFar'
    BY <1>2, <2>1, <2>2, <2>3 DEF SchemaInv, Parts, TypeOK, CreatedSoFar
  <2>10. VersionIsLast' /\ Checked'
    BY <1>2, <2>2, <2>3, <2>7
       DEF SchemaInv, Parts, TypeOK, VersionIsLast, Checked, Creating, Schema
  <2>11. QED
    BY <2>5, <2>8, <2>9, <2>10 DEF SchemaInv, Parts
<1>3. QED
  BY <1>1, <1>2 DEF CreateTable

LEMMA InsertVersionKeeps ==
    ASSUME SchemaInv, NEW o \in Openers, InsertVersion(o)
    PROVE  SchemaInv'
<1>1. CASE Refuse(o, "failed")
  BY <1>1, RefuseKeeps DEF Refusals
<1>2. CASE /\ version = NoVersion
           /\ version' = Version[o]
           /\ Goto(o, Following["version"])
           /\ UNCHANGED tables
  <2>1. pc[o] = "version" /\ pc' = [pc EXCEPT ![o] = "pragma"] /\ UNCHANGED refusal
    BY <1>2 DEF InsertVersion, Goto, Following
  <2>2. Version[o] \in Versions /\ Version[o] # NoVersion
    BY SchemaAssumption
  <2>3. TypeOK'
    BY <1>2, <2>1, <2>2 DEF SchemaInv, TypeOK, Steps, Refusals
  <2>4. /\ Creator(o) /\ \A p \in Openers : Creator(p) => p = o
        /\ {"dynar_meta", "dynar_tables", "dynar_tokens"} \subseteq tables
    BY <2>1 DEF SchemaInv, Parts, OneCreator, CreatedSoFar, Creator, Creating, Schema
  <2>5. \A p \in Openers : ~Creator(p)'
    BY <2>1, <2>4 DEF SchemaInv, TypeOK, Creator, Creating, Schema
  <2>6. CreatorsAreOurs' /\ OneCreator' /\ CreatedSoFar'
    BY <1>2, <2>1, <2>4, <2>5
       DEF SchemaInv, Parts, TypeOK, CreatorsAreOurs, OneCreator, CreatedSoFar, Creator,
           Creating, Schema
  <2>7. \A p \in Openers : pc[p] \notin {"upgrade", "pragma", "open"}
    BY <1>2, SchemaAssumption DEF SchemaInv, Parts, Checked
  <2>8. VersionIsLast' /\ Checked'
    BY <1>2, <2>1, <2>4, <2>7 DEF SchemaInv, TypeOK, VersionIsLast, Checked
  <2>9. QED
    BY <2>3, <2>6, <2>8 DEF SchemaInv, Parts
<1>3. QED
  BY <1>1, <1>2 DEF InsertVersion

LEMMA CountTablesKeeps ==
    ASSUME SchemaInv, NEW o \in Openers, CountTables(o)
    PROVE  SchemaInv'
<1>1. refusal[o] = "none" /\ UNCHANGED <<file, refusal>>
  BY DEF CountTables, SchemaInv, TypeOK, Goto, Refusals
<1>2. CASE tables = {}
  <2>1. pc' = [pc EXCEPT ![o] = "dynar_meta"]
    BY <1>2 DEF CountTables, Empty, Goto
  <2>2. TypeOK'
    BY <1>1, <2>1 DEF SchemaInv, TypeOK, Steps, Creating, Schema, file
  <2>3. Parts'
    BY <1>1, <1>2, <2>1
       DEF SchemaInv, Parts, TypeOK, CreatorsAreOurs, OneCreator, CreatedSoFar,
           VersionIsLast, Checked, Creator, Creating, Schema, file
  <2>4. QED
    BY <2>2, <2>3 DEF SchemaInv
<1>3. CASE tables # {}
  <2>1. pc' = [pc EXCEPT ![o] = "read"] /\ refusal' = [refusal EXCEPT ![o] = "none"]
    BY <1>1, <1>3 DEF CountTables, Empty, Goto, SchemaInv, TypeOK
  <2>2. QED
    BY <1>1, <2>1, MoveKeeps DEF Steps, Creating, Schema, Refusals
<1>4. QED
  BY <1>2, <1>3

LEMMA UpgradeKeeps ==
    ASSUME SchemaInv, NEW o \in Openers, Upgrade(o)
    PROVE  SchemaInv'
<1>1. /\ pc[o] = "upgrade" /\ pc' = [pc EXCEPT ![o] = "pragma"]
      /\ tables' = tables \union {"dynar_tokens"} /\ UNCHANGED <<version, refusal>>
  BY DEF Upgrade, Goto
<1>2. version = Version[o] /\ version # NoVersion
  BY <1>1, SchemaAssumption DEF SchemaInv, Parts, Checked
<1>3. TypeOK'
  BY <1>1 DEF SchemaInv, TypeOK, Steps, Schema, Refusals
<1>4. \A p \in Openers : ~Creator(p)
  BY <1>2 DEF SchemaInv, Parts, OneCreator
<1>5. CreatorsAreOurs' /\ OneCreator' /\ CreatedSoFar'
  BY <1>1, <1>4
     DEF SchemaInv, Parts, TypeOK, CreatorsAreOurs, OneCreator, CreatedSoFar, Creator,
         Creating, Schema
<1>6. VersionIsLast' /\ Checked'
  BY <1>1, <1>2 DEF SchemaInv, Parts, TypeOK, VersionIsLast, Checked
<1>7. QED
  BY <1>3, <1>5, <1>6 DEF SchemaInv, Parts

LEMMA NextSchemaInv == SchemaInv /\ [Next]_vars => SchemaInv'
<1> SUFFICES ASSUME SchemaInv, [Next]_vars PROVE SchemaInv'
  OBVIOUS
<1> USE DEF Steps, Creating, Schema, Refusals
<1>1. CASE UNCHANGED vars
  BY <1>1 DEF vars, SchemaInv, Parts, TypeOK, CreatorsAreOurs, OneCreator, CreatedSoFar,
              VersionIsLast, Checked, Creator
<1>2. ASSUME NEW o \in Openers, Step(o) PROVE SchemaInv'
  <2>1. CASE Open(o)
    BY <2>1, MoveKeeps DEF Open
  <2>2. CASE CountTables(o)
    BY <2>2, CountTablesKeeps
  <2>3. CASE CreateTable(o)
    BY <2>3, CreateTableKeeps
  <2>4. CASE InsertVersion(o)
    BY <2>4, InsertVersionKeeps
  <2>5. CASE ReadVersion(o)
    <3>1. CASE \E reason \in Refusals : Refuse(o, reason)
      BY <3>1, RefuseKeeps
    <3>2. CASE version = Version[o] /\ Goto(o, "upgrade") /\ UNCHANGED file
      <4>1. refusal' = [refusal EXCEPT ![o] = "none"]
        BY <2>5, <3>2 DEF ReadVersion, Goto, SchemaInv, TypeOK
      <4>2. QED
        BY <3>2, <4>1, MoveKeeps DEF Goto
    <3>3. QED
      BY <2>5, <3>1, <3>2 DEF ReadVersion
  <2>6. CASE Upgrade(o)
    BY <2>6, UpgradeKeeps
  <2>7. CASE SetBusyTimeout(o)
    <3>1. refusal' = [refusal EXCEPT ![o] = "none"]
      BY <2>7 DEF SetBusyTimeout, Goto, SchemaInv, TypeOK
    <3>2. version = Version[o] /\ "dynar_tokens" \in tables
      BY <2>7 DEF SetBusyTimeout, SchemaInv, Parts, Checked
    <3>3. QED
      BY <2>7, <3>1, <3>2, MoveKeeps DEF SetBusyTimeout, Goto
  <2>8. CASE StatementFails(o)
    BY <2>8, RefuseKeeps DEF StatementFails
  <2>9. CASE Crash(o)
    <3>1. refusal' = [refusal EXCEPT ![o] = refusal[o]] /\ refusal[o] \in Refusals
      BY <2>9 DEF Crash, Goto, SchemaInv, TypeOK
    <3>2. QED
      BY <2>9, <3>1, MoveKeeps DEF Crash, Goto
  <2>10. QED
    BY <1>2, <2>1, <2>2, <2>3, <2>4, <2>5, <2>6, <2>7, <2>8, <2>9 DEF Step
<1>3. QED
  BY <1>1, <1>2 DEF Next

LEMMA SchemaInvHolds == Spec => []SchemaInv
BY InitSchemaInv, NextSchemaInv, PTL DEF Spec

-----------------------------------------------------------------------------
(* The file holds nothing but dynar's tables or another program's, and an  *)
(* opener that Open refused is closed, however openers interleave.         *)
THEOREM SchemaTypeCorrect == Spec => []TypeOK
<1>1. SchemaInv => TypeOK
  BY DEF SchemaInv
<1> QED BY <1>1, SchemaInvHolds, PTL

(* An Open that succeeds has the whole schema in the version of its build, *)
(* for any number of openers that die, fail or run side by side.           *)
THEOREM AcceptedCompleteHolds == Spec => []AcceptedComplete
<1>1. SchemaInv => AcceptedComplete
  BY SchemaAssumption
     DEF SchemaInv, Parts, Checked, VersionIsLast, AcceptedComplete, Schema
<1>2. QED
  BY <1>1, SchemaInvHolds, PTL

(* Open changes neither a file of another program nor one of a version it  *)
(* was not built for, and a recorded version is never replaced.            *)
THEOREM RejectedUntouchedHolds == Spec => RejectedUntouched
<1> DEFINE A ==
      /\ "other" \in tables \/ (version # NoVersion /\ \A o \in Openers : Version[o] # version)
            => UNCHANGED file
      /\ version # NoVersion => UNCHANGED version
<1>1. ASSUME SchemaInv, [Next]_vars PROVE [A]_vars
  <2>1. CASE UNCHANGED vars
    BY <2>1
  <2>2. CASE UNCHANGED file
    BY <2>2 DEF file
  <2>3. ASSUME NEW o \in Openers, CreateTable(o), ~UNCHANGED file PROVE A
    <3>1. pc[o] \in Creating /\ UNCHANGED version /\ pc[o] \notin tables
      BY <2>3 DEF CreateTable, Creating, Refuse
    <3>2. "other" \notin tables
      BY <1>1, <3>1 DEF SchemaInv, Parts, CreatorsAreOurs
    <3>3. version = NoVersion
      BY <1>1, <2>3, <3>1
         DEF CreateTable, SchemaInv, Parts, OneCreator, VersionIsLast, Creator, Creating, Schema
    <3>4. QED
      BY <3>1, <3>2, <3>3
  <2>4. ASSUME NEW o \in Openers, InsertVersion(o), ~UNCHANGED file PROVE A
    <3>1. pc[o] \in Creating /\ version = NoVersion
      BY <2>4 DEF InsertVersion, Creating, Refuse
    <3>2. QED
      BY <1>1, <3>1 DEF SchemaInv, Parts, CreatorsAreOurs
  <2>5. ASSUME NEW o \in Openers, Upgrade(o) PROVE A
    <3>1. version = Version[o] /\ version # NoVersion /\ UNCHANGED version
      BY <1>1, <2>5, SchemaAssumption DEF Upgrade, SchemaInv, Parts, Checked
    <3>2. QED
      BY <1>1, <3>1 DEF SchemaInv, Parts, CreatorsAreOurs
  <2>6. QED
    BY <1>1, <2>1, <2>2, <2>3, <2>4, <2>5
       DEF Next, Step, Open, CountTables, ReadVersion, SetBusyTimeout, StatementFails, Crash,
           Refuse
<1>2. QED
  BY <1>1, SchemaInvHolds, PTL DEF Spec, RejectedUntouched

=============================================================================
