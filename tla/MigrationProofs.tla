--------------------------- MODULE MigrationProofs ---------------------------
(***************************************************************************)
(* db::migrate for any number of processes, entities and scores: types,    *)
(* that a migrated process works on the v2 schema, that entities are never *)
(* lost, that rebuilds end, and that migrations that make each other fail  *)
(* do so a bounded number of times.                                        *)
(*                                                                         *)
(* The inductive invariant Progress says what a process may rely on at     *)
(* each of its steps.  Everything it names is stable: tables and columns   *)
(* are only added, and the key never returns to (platform, slug).          *)
(***************************************************************************)
EXTENDS Migration, FiniteSetTheorems, TLAPS

(* The two scripts of migrate, position by position.                       *)
LEMMA Scripts ==
  /\ Len(Tables) = 2 /\ Tables[1] = "entities" /\ Tables[2] = "entity_scores"
  /\ Len(Alters) = 3
  /\ Alters[1] = "last_pushed_at" /\ Alters[2] = "open_issues"
  /\ Alters[3] = "release_velocity_days"
  /\ AllTables = {"entities", "entity_scores"}
  /\ AllColumns = {"last_pushed_at", "open_issues", "release_velocity_days"}
<1>1. DOMAIN Tables = {1, 2} /\ DOMAIN Alters = {1, 2, 3}
  BY DEF Tables, Alters
<1> QED
  BY <1>1 DEF Tables, Alters, AllTables, AllColumns

InMigration == {"inspect", "rebuild", "ensure", "index", "ready"}

TablesDone(p) ==
  /\ step[p] = "schema" => at[p] <= 2 /\ (at[p] = 2 => "entities" \in tables)
  /\ step[p] \in {"column", "alter"} \cup InMigration => tables = AllTables

ColumnsDone(p) ==
  /\ step[p] \in {"column", "alter"} => \A i \in 1 .. at[p] - 1 : Alters[i] \in columns
  /\ step[p] \in InMigration => columns = AllColumns

KeyDone(p) ==
  /\ step[p] \in {"ensure", "index"} => unique # "slug"
  /\ step[p] = "ready" => FullNameUnique

Progress == \A p \in Procs : TablesDone(p) /\ ColumnsDone(p) /\ KeyDone(p)

IInv == TypeOK /\ Progress

------------------------------------------------------------------------------
LEMMA InitIInv == Init => IInv
<1> SUFFICES ASSUME Init PROVE IInv
  OBVIOUS
<1>1. TypeOK
  <2>1. 1 \in 1 .. Len(Alters) /\ 0 \in 0 .. MaxFaults
    BY Scripts, MigrationAssumption
  <2>2. /\ tables \subseteq AllTables /\ columns \subseteq AllColumns
        /\ unique \in {"full_name", "slug", "none"} /\ index \in BOOLEAN
        /\ entities \in [Ids -> Names \cup {NoEntity}]
        /\ scoreOf \in [Scores -> Ids \cup {NoEntity}]
    BY DEF Init, NoScores, Rows
  <2> QED
    BY <2>1, <2>2 DEF Init, TypeOK, Steps
<1>2. Progress
  BY DEF Init, Progress, TablesDone, ColumnsDone, KeyDone, InMigration
<1> QED
  BY <1>1, <1>2 DEF IInv

(* The control flow of one process: the others keep their place.           *)
LEMMA GotoEffect ==
  ASSUME TypeOK, NEW p \in Procs, NEW s \in Steps, NEW i \in 1 .. Len(Alters), Goto(p, s, i)
  PROVE  /\ step' \in [Procs -> Steps] /\ at' \in [Procs -> 1 .. Len(Alters)]
         /\ faults' = faults
         /\ step'[p] = s /\ at'[p] = i
         /\ \A q \in Procs : q # p => step'[q] = step[q] /\ at'[q] = at[q]
BY DEF TypeOK, Goto

(* What a process relies on is stable under the steps of the others.       *)
LEMMA OthersKeepProgress ==
  ASSUME Progress, NEW q \in Procs, step'[q] = step[q], at'[q] = at[q],
         tables \subseteq tables', tables' \subseteq AllTables,
         columns \subseteq columns', columns' \subseteq AllColumns,
         unique' \in {unique, "full_name"},
         index => index' \/ unique' = "full_name"
  PROVE  TablesDone(q)' /\ ColumnsDone(q)' /\ KeyDone(q)'
<1>1. TablesDone(q)'
  BY DEF Progress, TablesDone
<1>2. ColumnsDone(q)'
  BY DEF Progress, ColumnsDone
<1>3. KeyDone(q)'
  BY DEF Progress, KeyDone, FullNameUnique
<1> QED
  BY <1>1, <1>2, <1>3

(* What a step of p establishes for p, and leaves alone for the rest.      *)
Advances(p) ==
  /\ TypeOK'
  /\ TablesDone(p)' /\ ColumnsDone(p)' /\ KeyDone(p)'
  /\ \A q \in Procs : q # p => step'[q] = step[q] /\ at'[q] = at[q]
  /\ tables \subseteq tables' /\ columns \subseteq columns'
  /\ unique' \in {unique, "full_name"}
  /\ index => index' \/ unique' = "full_name"

LEMMA AdvancesProgress ==
  ASSUME IInv, NEW p \in Procs, Advances(p)
  PROVE  IInv'
<1> SUFFICES ASSUME NEW q \in Procs
             PROVE  TablesDone(q)' /\ ColumnsDone(q)' /\ KeyDone(q)'
  BY DEF IInv, Progress, Advances
<1>1. CASE q = p
  BY <1>1 DEF Advances
<1>2. CASE q # p
  BY <1>2, OthersKeepProgress DEF IInv, Advances, TypeOK
<1> QED
  BY <1>1, <1>2

LEMMA SchemaSteps ==
  ASSUME IInv, NEW p \in Procs, CreateTable(p) \/ TableExists(p)
  PROVE  Advances(p)
<1> USE DEF IInv
<1>1. step[p] = "schema" /\ at[p] \in {1, 2} /\ (at[p] = 2 => "entities" \in tables)
  BY Scripts DEF CreateTable, TableExists, Progress, TablesDone, TypeOK
<1>2. \/ at[p] = 1 /\ Goto(p, "schema", 2)
      \/ at[p] = 2 /\ Goto(p, "column", 1)
  BY <1>1, Scripts DEF CreateTable, TableExists, NextTable
<1>3. /\ step' \in [Procs -> Steps] /\ at' \in [Procs -> 1 .. Len(Alters)] /\ faults' = faults
      /\ \A q \in Procs : q # p => step'[q] = step[q] /\ at'[q] = at[q]
      /\ at[p] = 1 => step'[p] = "schema" /\ at'[p] = 2
      /\ at[p] = 2 => step'[p] = "column" /\ at'[p] = 1
  BY <1>1, <1>2, GotoEffect, Scripts DEF Steps
<1>4. /\ tables' = tables \cup {Tables[at[p]]}
      /\ columns \subseteq columns' /\ columns' \subseteq AllColumns
      /\ unique' \in {unique, "full_name"} /\ index' = index
      /\ entities' = entities /\ scoreOf' = scoreOf
  <2>1. CASE CreateTable(p)
    BY <2>1, Scripts DEF CreateTable, TypeOK, dataVars
  <2>2. CASE TableExists(p)
    BY <2>2 DEF TableExists, TypeOK, schemaVars, dataVars
  <2> QED
    BY <2>1, <2>2
<1>5. tables' \subseteq AllTables /\ (at[p] = 1 => "entities" \in tables')
  BY <1>1, <1>4, Scripts DEF TypeOK
<1>6. at[p] = 2 => tables' = AllTables
  BY <1>1, <1>4, <1>5, Scripts
<1>7. TypeOK'
  BY <1>3, <1>4, <1>5 DEF TypeOK
<1>8. TablesDone(p)'
  BY <1>1, <1>3, <1>5, <1>6 DEF TablesDone, InMigration
<1>9. ColumnsDone(p)' /\ KeyDone(p)'
  BY <1>1, <1>3 DEF ColumnsDone, KeyDone, InMigration
<1> QED
  BY <1>3, <1>4, <1>7, <1>8, <1>9 DEF Advances

LEMMA ColumnSteps ==
  ASSUME IInv, NEW p \in Procs, CheckColumn(p) \/ AddColumn(p)
  PROVE  Advances(p)
<1> USE DEF IInv
<1>1. /\ step[p] \in {"column", "alter"} /\ at[p] \in 1 .. 3 /\ tables = AllTables
      /\ \A i \in 1 .. at[p] - 1 : Alters[i] \in columns
  BY Scripts DEF CheckColumn, AddColumn, Progress, TablesDone, ColumnsDone, TypeOK
<1>2. /\ tables' = tables /\ unique' = unique /\ index' = index
      /\ entities' = entities /\ scoreOf' = scoreOf
      /\ columns \subseteq columns' /\ columns' \subseteq AllColumns
      /\ \/ Goto(p, "alter", at[p])
         \/ NextColumn(p) /\ Alters[at[p]] \in columns'
  <2>1. CASE CheckColumn(p)
    BY <2>1 DEF CheckColumn, TypeOK, schemaVars, dataVars
  <2>2. CASE AddColumn(p)
    <3>1. at[p] \in {1, 2, 3}
      BY <1>1
    <3>2. Alters[at[p]] \in AllColumns
      BY <3>1, Scripts
    <3> QED
      BY <2>2, <3>2 DEF AddColumn, TypeOK, dataVars
  <2> QED
    BY <2>1, <2>2
<1>3. CASE Goto(p, "alter", at[p])
  <2>1. /\ step' \in [Procs -> Steps] /\ at' \in [Procs -> 1 .. Len(Alters)] /\ faults' = faults
        /\ \A q \in Procs : q # p => step'[q] = step[q] /\ at'[q] = at[q]
        /\ step'[p] = "alter" /\ at'[p] = at[p]
    BY <1>1, <1>3, GotoEffect, Scripts DEF Steps
  <2> QED
    BY <1>1, <1>2, <2>1
       DEF Advances, TypeOK, TablesDone, ColumnsDone, KeyDone, InMigration
<1>4. CASE NextColumn(p) /\ Alters[at[p]] \in columns' /\ at[p] < 3
  <2>1. /\ step' \in [Procs -> Steps] /\ at' \in [Procs -> 1 .. Len(Alters)] /\ faults' = faults
        /\ \A q \in Procs : q # p => step'[q] = step[q] /\ at'[q] = at[q]
        /\ step'[p] = "column" /\ at'[p] = at[p] + 1
    BY <1>1, <1>4, GotoEffect, Scripts DEF Steps, NextColumn
  <2>2. \A i \in 1 .. at'[p] - 1 : Alters[i] \in columns'
    BY <1>1, <1>2, <1>4, <2>1
  <2> QED
    BY <1>1, <1>2, <2>1, <2>2
       DEF Advances, TypeOK, TablesDone, ColumnsDone, KeyDone, InMigration
<1>5. CASE NextColumn(p) /\ Alters[at[p]] \in columns' /\ at[p] = 3
  <2>1. /\ step' \in [Procs -> Steps] /\ at' \in [Procs -> 1 .. Len(Alters)] /\ faults' = faults
        /\ \A q \in Procs : q # p => step'[q] = step[q] /\ at'[q] = at[q]
        /\ step'[p] = "inspect" /\ at'[p] = 1
    BY <1>1, <1>5, GotoEffect, Scripts DEF Steps, NextColumn
  <2>2. Alters[1] \in columns' /\ Alters[2] \in columns' /\ Alters[3] \in columns'
    BY <1>1, <1>2, <1>5
  <2>3. columns' = AllColumns
    BY <1>2, <2>2, Scripts
  <2> QED
    BY <1>1, <1>2, <2>1, <2>3
       DEF Advances, TypeOK, TablesDone, ColumnsDone, KeyDone, InMigration
<1> QED
  BY <1>1, <1>2, <1>3, <1>4, <1>5

LEMMA KeySteps ==
  ASSUME IInv, NEW p \in Procs,
         Inspect(p) \/ Rebuild(p) \/ Ensure(p) \/ CreateIndex(p)
  PROVE  Advances(p)
<1> USE DEF IInv
<1>1. /\ step[p] \in InMigration /\ tables = AllTables /\ columns = AllColumns
      /\ step[p] \in {"ensure", "index"} => unique # "slug"
  BY DEF Inspect, Rebuild, Ensure, CreateIndex, Progress, TablesDone, ColumnsDone, KeyDone,
     InMigration
<1>2. 1 \in 1 .. Len(Alters)
  BY Scripts
<1>3. PICK s \in InMigration :
        /\ Goto(p, s, 1)
        /\ tables' = tables /\ columns' = columns /\ unique' \in {unique, "full_name"}
        /\ index' \in BOOLEAN /\ (index => index' \/ unique' = "full_name")
        /\ entities' = entities /\ scoreOf' \in {scoreOf, NoScores}
        /\ s \in {"ensure", "index"} => unique' # "slug"
        /\ s = "ready" => unique' = "full_name" \/ index'
  <2>1. CASE Inspect(p)
    BY <2>1 DEF Inspect, InMigration, schemaVars, dataVars, TypeOK
  <2>2. CASE Rebuild(p)
    BY <2>2 DEF Rebuild, InMigration
  <2>3. CASE Ensure(p)
    BY <2>3, <1>1 DEF Ensure, InMigration, schemaVars, dataVars, TypeOK
  <2>4. CASE CreateIndex(p)
    BY <2>4 DEF CreateIndex, InMigration, dataVars, TypeOK
  <2> QED
    BY <2>1, <2>2, <2>3, <2>4
<1>4. /\ step' \in [Procs -> Steps] /\ at' \in [Procs -> 1 .. Len(Alters)] /\ faults' = faults
      /\ \A q \in Procs : q # p => step'[q] = step[q] /\ at'[q] = at[q]
      /\ step'[p] = s /\ at'[p] = 1
  BY <1>2, <1>3, GotoEffect DEF Steps, InMigration
<1>5. TypeOK'
  BY <1>3, <1>4 DEF TypeOK, NoScores
<1> QED
  BY <1>1, <1>3, <1>4, <1>5
     DEF Advances, TablesDone, ColumnsDone, KeyDone, FullNameUnique, InMigration

(* Starting, stopping and failing say nothing about the schema.            *)
LEMMA ControlSteps ==
  ASSUME IInv, NEW p \in Procs,
         \/ Start(p) \/ Stop(p) \/ Fault(p)
         \/ DuplicateColumn(p) \/ RebuildFails(p) \/ CreateIndexFails(p)
  PROVE  Advances(p)
<1> USE DEF IInv
<1>1. /\ tables' = tables /\ columns' = columns /\ unique' = unique /\ index' = index
      /\ entities' = entities /\ scoreOf' = scoreOf
  BY DEF Start, Stop, Fault, DuplicateColumn, RebuildFails, CreateIndexFails, schemaVars, dataVars
<1>2. 1 \in 1 .. Len(Alters)
  BY Scripts
<1>3. /\ step' \in [Procs -> Steps] /\ at' \in [Procs -> 1 .. Len(Alters)]
      /\ faults' \in 0 .. MaxFaults
      /\ \A q \in Procs : q # p => step'[q] = step[q] /\ at'[q] = at[q]
      /\ step'[p] \in {"stopped", "schema"} /\ at'[p] = 1
  <2>1. CASE Fault(p)
    BY <2>1, <1>2, MigrationAssumption DEF Fault, TypeOK, Steps
  <2>2. CASE Goto(p, "schema", 1) \/ Goto(p, "stopped", 1)
    BY <2>2, <1>2, GotoEffect DEF Steps, TypeOK
  <2> QED
    BY <2>1, <2>2 DEF Start, Stop, DuplicateColumn, RebuildFails, CreateIndexFails, Exit
<1> QED
  BY <1>1, <1>3 DEF Advances, TypeOK, TablesDone, ColumnsDone, KeyDone, InMigration

LEMMA DataSteps ==
  ASSUME IInv, NEW p \in Procs,
         \/ \E e \in Ids, n \in Names : Upsert(p, e, n)
         \/ \E s \in Scores, e \in Ids : SaveScore(p, s, e)
  PROVE  IInv'
<1>1. UNCHANGED <<schemaVars, step, at, faults>>
  BY DEF Upsert, SaveScore
<1>2. /\ entities' \in [Ids -> Names \cup {NoEntity}]
      /\ scoreOf' \in [Scores -> Ids \cup {NoEntity}]
  BY DEF IInv, TypeOK, Upsert, SaveScore
<1> QED
  BY <1>1, <1>2 DEF IInv, TypeOK, Progress, TablesDone, ColumnsDone, KeyDone, FullNameUnique,
     schemaVars

LEMMA NextIInv == IInv /\ [Next]_vars => IInv'
<1> SUFFICES ASSUME IInv, [Next]_vars PROVE IInv'
  OBVIOUS
<1>1. ASSUME NEW p \in Procs, Migrate(p) \/ Stop(p) \/ Fault(p)
      PROVE  IInv'
  BY <1>1, SchemaSteps, ColumnSteps, KeySteps, ControlSteps, AdvancesProgress DEF Migrate
<1>2. CASE UNCHANGED vars
  BY <1>2 DEF vars, schemaVars, dataVars, IInv, TypeOK, Progress, TablesDone, ColumnsDone,
     KeyDone, FullNameUnique
<1> QED
  BY <1>1, <1>2, DataSteps DEF Next, Work

(* Every variable keeps its type; in particular rows and scores stay well  *)
(* formed through rebuilds.                                                *)
THEOREM TypeCorrect == Spec => []TypeOK
<1>1. IInv => TypeOK
  BY DEF IInv
<1> QED
  BY InitIInv, NextIInv, <1>1, PTL DEF Spec

(* A process that has migrated works on the v2 schema, for any number of   *)
(* concurrent migrations and any faults.                                   *)
THEOREM ReadyOnV2 == Spec => []ReadyIsV2
<1>1. IInv => ReadyIsV2
  BY DEF IInv, Progress, TablesDone, ColumnsDone, KeyDone, ReadyIsV2, InMigration
<1> QED
  BY InitIInv, NextIInv, <1>1, PTL DEF Spec

(* No step of migrate, and no failed or interrupted one, changes or loses  *)
(* an entity.                                                              *)
THEOREM EntitiesAreKept == Spec => EntitiesKept
<1>1. ASSUME IInv, [Next]_vars
      PROVE  \A e \in Rows : entities'[e] = entities[e]
  <2>1. ASSUME NEW p \in Procs, NEW e \in Ids, NEW n \in Names, Upsert(p, e, n)
        PROVE  \A f \in Rows : entities'[f] = entities[f]
    BY <1>1, <2>1 DEF Upsert, IInv, TypeOK, Rows
  <2>2. CASE entities' = entities
    BY <2>2
  <2> QED
    BY <1>1, <2>1, <2>2 DEF Next, Migrate, Work, Start, CreateTable, TableExists, CheckColumn,
       AddColumn, DuplicateColumn, Inspect, Rebuild, RebuildFails, Ensure, CreateIndex,
       CreateIndexFails, SaveScore, Stop, Fault, vars, dataVars
<1>2. IInv /\ [Next]_vars => [\A e \in Rows : entities'[e] = entities[e]]_vars
  BY <1>1
<1> QED
  BY InitIInv, NextIInv, <1>2, PTL DEF Spec, EntitiesKept

(* Once settled, there is no further rebuild and no score is lost.         *)
THEOREM SettledIsSafe == Spec => SettledKeepsScores
<1> DEFINE Keeps == \A s \in Scores : scoreOf[s] # NoEntity => scoreOf'[s] = scoreOf[s]
<1>1. ASSUME IInv, Next, Settled
      PROVE  Settled' /\ Keeps
  <2>1. PICK p \in Procs : Migrate(p) \/ Work(p) \/ Fault(p)
    BY <1>1 DEF Next
  <2>2. step[p] # "rebuild" /\ unique = "full_name"
    BY <1>1 DEF Settled
  <2>3. unique' = "full_name"
    BY <2>1, <2>2 DEF Migrate, Work, Start, CreateTable, TableExists, CheckColumn, AddColumn,
       DuplicateColumn, Inspect, RebuildFails, Rebuild, Ensure, CreateIndex, CreateIndexFails,
       Upsert, SaveScore, Stop, Fault, schemaVars
  <2>4. \A q \in Procs : step'[q] = step[q] \/ (q = p /\ step'[q] # "rebuild")
    <3>1. ASSUME NEW s \in Steps, NEW i \in Nat, Goto(p, s, i), s # "rebuild"
          PROVE  \A q \in Procs : step'[q] = step[q] \/ (q = p /\ step'[q] # "rebuild")
      BY <1>1, <3>1 DEF Goto, IInv, TypeOK
    <3>2. CASE step' = step
      BY <3>2
    <3>3. CASE Fault(p)
      BY <1>1, <3>3 DEF Fault, IInv, TypeOK
    <3>4. at[p] \in Nat /\ at[p] + 1 \in Nat
      BY <1>1, Scripts DEF IInv, TypeOK
    <3>5. CASE CreateTable(p) \/ TableExists(p) \/ CheckColumn(p) \/ AddColumn(p)
      BY <3>1, <3>4, <3>5 DEF CreateTable, TableExists, CheckColumn, AddColumn, NextTable,
         NextColumn, Steps
    <3>6. CASE Inspect(p) \/ Ensure(p) \/ CreateIndex(p)
      BY <2>2, <3>1, <3>6 DEF Inspect, Ensure, CreateIndex, Steps
    <3>7. CASE \/ Start(p) \/ Stop(p) \/ DuplicateColumn(p) \/ RebuildFails(p)
               \/ CreateIndexFails(p)
      BY <3>1, <3>7 DEF Start, Stop, DuplicateColumn, RebuildFails, CreateIndexFails, Exit, Steps
    <3> QED
      BY <2>1, <2>2, <3>2, <3>3, <3>5, <3>6, <3>7 DEF Migrate, Work, Rebuild, Upsert, SaveScore
  <2>5. Keeps
    <3>1. ASSUME NEW s \in Scores, NEW e \in Ids, SaveScore(p, s, e)
          PROVE  Keeps
      BY <1>1, <3>1 DEF SaveScore, IInv, TypeOK
    <3>2. CASE scoreOf' = scoreOf
      BY <3>2
    <3> QED
      BY <2>1, <2>2, <3>1, <3>2 DEF Migrate, Work, Start, CreateTable, TableExists, CheckColumn,
         AddColumn, DuplicateColumn, Inspect, RebuildFails, Rebuild, Ensure, CreateIndex,
         CreateIndexFails, Upsert, Stop, Fault, dataVars
  <2> QED
    BY <1>1, <2>3, <2>4, <2>5 DEF Settled
<1>2. IInv /\ [Next]_vars => [Settled => Settled' /\ Keeps]_vars
  BY <1>1
<1> QED
  BY InitIInv, NextIInv, <1>2, PTL DEF Spec, SettledKeepsScores

------------------------------------------------------------------------------
(***************************************************************************)
(* How long a migration can take.  A process can only meet a duplicate     *)
(* column it has found missing, and no column is ever taken away: the      *)
(* columns that may still make it fail (MayCollide) never become more, and *)
(* each failure takes one of them.  WayToReady(p) puts that together with  *)
(* the place of p in migrate; it falls with every statement p makes while  *)
(* no two rows share a name, a failed attempt and the start of the next    *)
(* included, and nothing but a kill, a timeout or the end of a migrated    *)
(* program raises it.  This is the part of EveryoneGetsReady that is free  *)
(* of fairness.                                                            *)
(***************************************************************************)
MayCollide(p) ==
  {c \in AllColumns : c \notin columns \/ (step[p] = "alter" /\ Alters[at[p]] = c)}

Place(where, i) ==
  CASE where = "stopped" -> 12
    [] where = "schema" -> 12 - i
    [] where = "column" -> 11 - 2 * i
    [] where = "alter" -> 10 - 2 * i
    [] where = "inspect" -> 3
    [] where \in {"rebuild", "ensure"} -> 2
    [] where = "index" -> 1
    [] OTHER -> 0

WayToReady(p) == 13 * Cardinality(MayCollide(p)) + Place(step[p], at[p])

WayIsShort == \A p \in Procs : WayToReady(p) \in 0 .. 51 /\ (WayToReady(p) = 0 <=> step[p] = "ready")

GetsCloser(p) ==
  /\ MayCollide(p)' \subseteq MayCollide(p)
  /\ DuplicateColumn(p) => MayCollide(p)' # MayCollide(p)
  /\ Distinct /\ Migrate(p) => WayToReady(p)' < WayToReady(p)
  /\ Distinct /\ ~Stop(p) /\ ~Fault(p) => WayToReady(p)' <= WayToReady(p)

AllGetCloser == [][\A p \in Procs : GetsCloser(p)]_vars

(* A set of the three columns is counted.                                  *)
LEMMA ColumnCounts ==
  ASSUME NEW S \in SUBSET AllColumns
  PROVE  /\ Cardinality(S) \in 0 .. 3
         /\ Cardinality(S) = 0 <=> S = {}
         /\ \A T \in SUBSET S : /\ Cardinality(T) <= Cardinality(S)
                                /\ T # S => Cardinality(T) < Cardinality(S)
<1> DEFINE A == {"last_pushed_at"}
           B == A \cup {"open_issues"}
           C == B \cup {"release_velocity_days"}
<1>1. IsFiniteSet(A) /\ Cardinality(A) = 1
  BY FS_Singleton
<1>2. IsFiniteSet(B) /\ Cardinality(B) = 2
  BY <1>1, FS_AddElement
<1>3. IsFiniteSet(C) /\ Cardinality(C) = 3
  BY <1>2, FS_AddElement
<1>4. AllColumns = C
  BY Scripts
<1> HIDE DEF C
<1>5. IsFiniteSet(S) /\ Cardinality(S) <= 3
  BY <1>3, <1>4, FS_Subset
<1>6. Cardinality(S) \in Nat /\ (Cardinality(S) = 0 <=> S = {})
  BY <1>5, FS_CardinalityType, FS_EmptySet
<1>7. ASSUME NEW T \in SUBSET S
      PROVE  Cardinality(T) <= Cardinality(S) /\ (T # S => Cardinality(T) < Cardinality(S))
  <2>1. IsFiniteSet(T) /\ Cardinality(T) <= Cardinality(S) /\ (Cardinality(S) = Cardinality(T) => S = T)
    BY <1>5, FS_Subset
  <2>2. Cardinality(T) \in Nat
    BY <2>1, FS_CardinalityType
  <2> QED
    BY <1>6, <2>1, <2>2
<1> QED
  BY <1>5, <1>6, <1>7

LEMMA Places ==
  ASSUME NEW where \in Steps, NEW i \in 1 .. Len(Alters)
  PROVE  Place(where, i) \in 0 .. 12 /\ (Place(where, i) = 0 <=> where = "ready")
<1>1. i \in 1 .. 3
  BY Scripts
<1>2. /\ Place("schema", i) = 12 - i /\ Place("column", i) = 11 - 2 * i
      /\ Place("alter", i) = 10 - 2 * i /\ Place("stopped", i) = 12
      /\ Place("inspect", i) = 3 /\ Place("rebuild", i) = 2 /\ Place("ensure", i) = 2
      /\ Place("index", i) = 1 /\ Place("ready", i) = 0
  BY DEF Place
<1> QED
  BY <1>1, <1>2 DEF Steps

LEMMA MigrateAdvances ==
  ASSUME IInv, NEW p \in Procs, Migrate(p) \/ Stop(p) \/ Fault(p)
  PROVE  Advances(p)
BY SchemaSteps, ColumnSteps, KeySteps, ControlSteps DEF Migrate

(* A process goes to its ALTER only for a column it has just found missing.*)
LEMMA AlterOnlyMissing ==
  ASSUME IInv, NEW p \in Procs, Migrate(p) \/ Stop(p) \/ Fault(p), step'[p] = "alter"
  PROVE  Alters[at'[p]] \notin columns
<1> USE DEF IInv
<1>1. 1 \in 1 .. Len(Alters)
  BY Scripts
<1>2. CheckColumn(p) /\ Alters[at[p]] \notin columns
  BY DEF Migrate, Start, CreateTable, TableExists, NextTable, CheckColumn, AddColumn, NextColumn,
     DuplicateColumn, Inspect, Rebuild, RebuildFails, Ensure, CreateIndex, CreateIndexFails, Stop, Fault,
     Exit, Goto, TypeOK
<1>3. at'[p] = at[p]
  BY <1>2 DEF CheckColumn, Goto, TypeOK
<1> QED
  BY <1>2, <1>3

LEMMA CollisionsEnd ==
  ASSUME IInv, [Next]_vars, NEW p \in Procs
  PROVE  /\ MayCollide(p)' \subseteq MayCollide(p)
         /\ DuplicateColumn(p) => MayCollide(p)' # MayCollide(p)
<1>1. columns \subseteq columns'
  <2>1. ASSUME NEW q \in Procs, Migrate(q) \/ Stop(q) \/ Fault(q)
        PROVE  columns \subseteq columns'
    BY <2>1, MigrateAdvances DEF Advances
  <2> QED
    BY <2>1 DEF Next, Work, Upsert, SaveScore, schemaVars, vars
<1>2. ASSUME Migrate(p) \/ Stop(p) \/ Fault(p)
      PROVE  MayCollide(p)' \subseteq MayCollide(p)
  <2> SUFFICES ASSUME NEW c \in MayCollide(p)'
               PROVE  c \in MayCollide(p)
    OBVIOUS
  <2>1. c \in AllColumns /\ (c \notin columns' \/ (step'[p] = "alter" /\ Alters[at'[p]] = c))
    BY DEF MayCollide
  <2>2. c \notin columns
    BY <1>1, <1>2, <2>1, AlterOnlyMissing
  <2> QED
    BY <2>1, <2>2 DEF MayCollide
<1>3. ASSUME step'[p] = step[p], at'[p] = at[p]
      PROVE  MayCollide(p)' \subseteq MayCollide(p)
  <2> SUFFICES ASSUME NEW c \in MayCollide(p)'
               PROVE  c \in MayCollide(p)
    OBVIOUS
  <2>1. c \in AllColumns /\ (c \notin columns' \/ (step'[p] = "alter" /\ Alters[at'[p]] = c))
    BY DEF MayCollide
  <2> QED
    BY <1>1, <1>3, <2>1 DEF MayCollide
<1>4. ASSUME NEW q \in Procs, q # p, Migrate(q) \/ Stop(q) \/ Fault(q)
      PROVE  step'[p] = step[p] /\ at'[p] = at[p]
  BY <1>4, MigrateAdvances DEF Advances
<1>5. MayCollide(p)' \subseteq MayCollide(p)
  BY <1>2, <1>3, <1>4 DEF Next, Work, Upsert, SaveScore, vars
<1>6. ASSUME DuplicateColumn(p)
      PROVE  MayCollide(p)' # MayCollide(p)
  <2>1. step[p] = "alter" /\ Alters[at[p]] \in columns /\ at[p] \in {1, 2, 3} /\ step'[p] = "stopped"
    BY <1>6, Scripts DEF DuplicateColumn, Exit, Goto, IInv, TypeOK
  <2>2. Alters[at[p]] \in MayCollide(p)
    BY <2>1, Scripts DEF MayCollide
  <2>3. Alters[at[p]] \notin MayCollide(p)'
    BY <1>1, <2>1 DEF MayCollide
  <2> QED
    BY <2>2, <2>3
<1> QED
  BY <1>5, <1>6

(* Every statement that does not fail leads on.                            *)
LEMMA PlaceGoesDown ==
  ASSUME IInv, Distinct, NEW p \in Procs, Migrate(p), ~DuplicateColumn(p)
  PROVE  Place(step'[p], at'[p]) < Place(step[p], at[p])
<1> USE DEF IInv
<1>0. /\ at[p] \in 1 .. 3 /\ (step[p] = "schema" => at[p] \in 1 .. 2)
      /\ Len(Tables) = 2 /\ Len(Alters) = 3
  BY Scripts DEF TypeOK, Progress, TablesDone
<1>1. ASSUME NEW s, NEW i, Goto(p, s, i)
      PROVE  step'[p] = s /\ at'[p] = i
  BY <1>1 DEF Goto, TypeOK
<1>2. /\ \A i : /\ Place("stopped", i) = 12 /\ Place("schema", i) = 12 - i
                /\ Place("column", i) = 11 - 2 * i /\ Place("alter", i) = 10 - 2 * i
                /\ Place("inspect", i) = 3 /\ Place("rebuild", i) = 2 /\ Place("ensure", i) = 2
                /\ Place("index", i) = 1 /\ Place("ready", i) = 0
  BY DEF Place
<1>3. CASE Start(p)
  <2>1. step[p] = "stopped" /\ step'[p] = "schema" /\ at'[p] = 1
    BY <1>1, <1>3 DEF Start
  <2> QED
    BY <1>2, <2>1
<1>4. CASE CreateTable(p) \/ TableExists(p)
  <2>1. step[p] = "schema" /\ NextTable(p)
    BY <1>4 DEF CreateTable, TableExists
  <2>2. IF at[p] < 2 THEN step'[p] = "schema" /\ at'[p] = at[p] + 1 ELSE step'[p] = "column" /\ at'[p] = 1
    BY <1>0, <1>1, <2>1 DEF NextTable
  <2> QED
    BY <1>0, <1>2, <2>1, <2>2
<1>5. ASSUME step[p] \in {"column", "alter"}, NextColumn(p)
      PROVE  Place(step'[p], at'[p]) < Place(step[p], at[p])
  <2>1. IF at[p] < 3 THEN step'[p] = "column" /\ at'[p] = at[p] + 1 ELSE step'[p] = "inspect"
    BY <1>0, <1>1, <1>5 DEF NextColumn
  <2> QED
    BY <1>0, <1>2, <1>5, <2>1
<1>6. CASE CheckColumn(p) /\ Goto(p, "alter", at[p])
  <2>1. step[p] = "column" /\ step'[p] = "alter" /\ at'[p] = at[p]
    BY <1>1, <1>6 DEF CheckColumn
  <2> QED
    BY <1>0, <1>2, <2>1
<1>7. CASE CheckColumn(p) \/ AddColumn(p)
  BY <1>5, <1>6, <1>7 DEF CheckColumn, AddColumn
<1>8. CASE Inspect(p) \/ Rebuild(p) \/ Ensure(p) \/ CreateIndex(p)
  <2>1. \/ step[p] = "inspect" /\ step'[p] \in {"rebuild", "ensure"}
        \/ step[p] = "rebuild" /\ step'[p] = "ready"
        \/ step[p] = "ensure" /\ step'[p] \in {"ready", "index"}
        \/ step[p] = "index" /\ step'[p] = "ready"
    BY <1>1, <1>8 DEF Inspect, Rebuild, Ensure, CreateIndex
  <2> QED
    BY <1>2, <2>1
<1> QED
  BY <1>3, <1>4, <1>7, <1>8 DEF Migrate, RebuildFails, CreateIndexFails

LEMMA WayCounted ==
  ASSUME IInv, NEW p \in Procs
  PROVE  /\ Cardinality(MayCollide(p)) \in 0 .. 3
         /\ Place(step[p], at[p]) \in 0 .. 12
         /\ WayToReady(p) = 0 <=> step[p] = "ready"
<1>1. MayCollide(p) \in SUBSET AllColumns
  BY DEF MayCollide
<1>2. /\ Cardinality(MayCollide(p)) \in 0 .. 3
      /\ Cardinality(MayCollide(p)) = 0 <=> MayCollide(p) = {}
  BY <1>1, ColumnCounts
<1>3. Place(step[p], at[p]) \in 0 .. 12 /\ (Place(step[p], at[p]) = 0 <=> step[p] = "ready")
  BY Places DEF IInv, TypeOK
<1>4. step[p] = "ready" => MayCollide(p) = {}
  BY DEF IInv, Progress, ColumnsDone, InMigration, MayCollide
<1> QED
  BY <1>2, <1>3, <1>4 DEF WayToReady

LEMMA WayCountedNext == IInv' => (\A p \in Procs : Place(step[p], at[p]) \in 0 .. 12)'
<1>1. IInv => \A p \in Procs : Place(step[p], at[p]) \in 0 .. 12
  BY WayCounted
<1> QED
  BY <1>1, PTL

LEMMA NextCloser ==
  ASSUME IInv, [Next]_vars, NEW p \in Procs
  PROVE  GetsCloser(p)
<1> DEFINE m == Cardinality(MayCollide(p))
           n == Cardinality(MayCollide(p)')
           x == Place(step[p], at[p])
           y == Place(step'[p], at'[p])
<1>1. /\ MayCollide(p)' \subseteq MayCollide(p)
      /\ DuplicateColumn(p) => MayCollide(p)' # MayCollide(p)
  BY CollisionsEnd
<1>2. m \in 0 .. 3 /\ n \in 0 .. 3 /\ n <= m /\ (DuplicateColumn(p) => n < m)
  <2>1. MayCollide(p) \in SUBSET AllColumns /\ MayCollide(p)' \in SUBSET AllColumns
    BY DEF MayCollide
  <2> QED
    BY <1>1, <2>1, ColumnCounts
<1>3. x \in 0 .. 12 /\ y \in 0 .. 12
  BY WayCounted, WayCountedNext, NextIInv
<1>4. WayToReady(p) = 13 * m + x /\ WayToReady(p)' = 13 * n + y
  BY DEF WayToReady
<1>5. ASSUME Distinct, Migrate(p)
      PROVE  WayToReady(p)' < WayToReady(p)
  <2>1. CASE DuplicateColumn(p)
    <3> HIDE DEF m, n, x, y
    <3> QED
      BY <1>2, <1>3, <1>4, <2>1
  <2>2. CASE ~DuplicateColumn(p)
    <3>1. y < x
      BY <1>5, <2>2, PlaceGoesDown
    <3> HIDE DEF m, n, x, y
    <3> QED
      BY <1>2, <1>3, <1>4, <3>1
  <2> QED
    BY <2>1, <2>2
<1>6. ASSUME step'[p] = step[p], at'[p] = at[p]
      PROVE  WayToReady(p)' <= WayToReady(p)
  <2>1. y = x
    BY <1>6
  <2> HIDE DEF m, n, x, y
  <2> QED
    BY <1>2, <1>3, <1>4, <2>1
<1>7. Migrate(p) \/ Stop(p) \/ Fault(p) \/ (step'[p] = step[p] /\ at'[p] = at[p])
  <2>1. ASSUME NEW q \in Procs, q # p, Migrate(q) \/ Stop(q) \/ Fault(q)
        PROVE  step'[p] = step[p] /\ at'[p] = at[p]
    BY <2>1, MigrateAdvances DEF Advances
  <2> QED
    BY <2>1 DEF Next, Work, Upsert, SaveScore, vars
<1>8. WayToReady(p)' < WayToReady(p) => WayToReady(p)' <= WayToReady(p)
  <2> HIDE DEF m, n, x, y
  <2> QED
    BY <1>2, <1>3, <1>4
<1> HIDE DEF m, n, x, y
<1> QED
  BY <1>1, <1>5, <1>6, <1>7, <1>8 DEF GetsCloser

(***************************************************************************)
(* A process fails on a duplicate column at most three times ever; and     *)
(* while no two rows share a name, at most 51 steps of its own separate it *)
(* from being ready, whatever the other migrations do in between.          *)
(***************************************************************************)
THEOREM MigrationsEnd == Spec => []WayIsShort /\ AllGetCloser
<1>1. ASSUME IInv, NEW p \in Procs
      PROVE  WayToReady(p) \in 0 .. 51 /\ (WayToReady(p) = 0 <=> step[p] = "ready")
  <2> DEFINE m == Cardinality(MayCollide(p))
             x == Place(step[p], at[p])
  <2>1. m \in 0 .. 3 /\ x \in 0 .. 12 /\ WayToReady(p) = 13 * m + x
        /\ (WayToReady(p) = 0 <=> step[p] = "ready")
    BY <1>1, WayCounted DEF WayToReady
  <2> HIDE DEF m, x
  <2> QED
    BY <2>1
<1>2. IInv /\ [Next]_vars => [\A p \in Procs : GetsCloser(p)]_vars
  BY NextCloser
<1> QED
  <2>1. IInv => WayIsShort
    BY <1>1 DEF WayIsShort
  <2> QED
    BY InitIInv, NextIInv, <2>1, <1>2, PTL DEF Spec, AllGetCloser
==============================================================================
