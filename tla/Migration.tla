------------------------------ MODULE Migration ------------------------------
(***************************************************************************)
(* db::migrate (chassis/src/db.rs), run on one database file by the server *)
(* and by the ingest and score programs, each at its own start, possibly   *)
(* at the same time.                                                       *)
(*                                                                         *)
(* A statement of SQLite is atomic, and so is the transaction that         *)
(* rebuilds the entities table; what a migration read in one statement may *)
(* be stale in the next.  A process that fails - a duplicate column, a     *)
(* duplicate name, a lock held longer than busy_timeout, a kill - exits    *)
(* and is started again.  A process that is ready writes entities and      *)
(* scores.  entity_scores stands for the four tables whose rows reference  *)
(* an entity ON DELETE CASCADE.                                            *)
(***************************************************************************)
EXTENDS Naturals, Sequences

CONSTANTS
  Procs,      \* processes that open the database
  Ids,        \* entities.id
  Names,      \* (platform, full_name)
  Scores,     \* entity_scores.id
  MaxFaults,  \* bound of the run: busy timeouts and kills
  NoEntity    \* an id, or the entity of a score, that does not exist

ASSUME MigrationAssumption == MaxFaults \in Nat /\ NoEntity \notin Ids \cup Names

Tables == <<"entities", "entity_scores">>
Alters == <<"last_pushed_at", "open_issues", "release_velocity_days">>
AllTables == {Tables[i] : i \in DOMAIN Tables}
AllColumns == {Alters[i] : i \in DOMAIN Alters}

VARIABLES
  tables,    \* tables of the file
  columns,   \* columns of AllColumns that their tables have
  unique,    \* key of the entities DDL: "full_name", "slug" (pre-v2) or "none"
  index,     \* ux_entities_platform_full_name exists
  entities,  \* Names of the rows
  scoreOf,   \* entity of each entity_scores row
  step,      \* where a process is in migrate
  at,        \* its position in Tables or Alters
  faults     \* busy timeouts and kills so far

schemaVars == <<tables, columns, unique, index>>
dataVars == <<entities, scoreOf>>
vars == <<schemaVars, dataVars, step, at, faults>>

Rows == {e \in Ids : entities[e] # NoEntity}
Distinct == \A e, f \in Rows : entities[e] = entities[f] => e = f
NoScores == [s \in Scores |-> NoEntity]

\* A new file, or one that an older version left: its key is (platform, slug)
\* or none, it may lack the three columns, and it may have the unique index.
Init ==
  /\ \/ /\ tables = {} /\ columns = {} /\ unique = "none" /\ index = FALSE
        /\ entities = [e \in Ids |-> NoEntity]
        /\ scoreOf = NoScores
     \/ /\ tables = AllTables
        /\ columns \in {{}, AllColumns}
        /\ unique \in {"slug", "none"}
        /\ entities \in [Ids -> Names \cup {NoEntity}]
        /\ index \in BOOLEAN /\ (index => Distinct)
        /\ scoreOf \in [Scores -> Rows \cup {NoEntity}]
  /\ step = [p \in Procs |-> "stopped"]
  /\ at = [p \in Procs |-> 1]
  /\ faults = 0

------------------------------------------------------------------------------
Goto(p, s, i) ==
  /\ step' = [step EXCEPT ![p] = s]
  /\ at' = [at EXCEPT ![p] = i]
  /\ UNCHANGED faults

Exit(p) == Goto(p, "stopped", 1)

Start(p) ==
  /\ step[p] = "stopped"
  /\ Goto(p, "schema", 1)
  /\ UNCHANGED <<schemaVars, dataVars>>

(***************************************************************************)
(* execute_batch(SCHEMA): one CREATE TABLE IF NOT EXISTS after the other.  *)
(***************************************************************************)
NextTable(p) ==
  IF at[p] < Len(Tables) THEN Goto(p, "schema", at[p] + 1) ELSE Goto(p, "column", 1)

CreateTable(p) ==
  /\ step[p] = "schema"
  /\ Tables[at[p]] \notin tables
  /\ tables' = tables \cup {Tables[at[p]]}
  /\ IF Tables[at[p]] = "entities"
     THEN /\ unique' = "full_name"
          /\ columns' = columns \cup {"last_pushed_at", "open_issues"}
     ELSE /\ columns' = columns \cup {"release_velocity_days"}
          /\ UNCHANGED unique
  /\ NextTable(p)
  /\ UNCHANGED <<index, dataVars>>

TableExists(p) ==
  /\ step[p] = "schema"
  /\ Tables[at[p]] \in tables
  /\ NextTable(p)
  /\ UNCHANGED <<schemaVars, dataVars>>

(***************************************************************************)
(* The guarded ALTERs: column_exists is one statement, ALTER the next.     *)
(***************************************************************************)
\* MutantNextColumn: the loop runs past its last column.
MutantNextColumn(p) == Goto(p, "column", at[p] + 1)

NextColumn(p) ==
  IF at[p] < Len(Alters) THEN Goto(p, "column", at[p] + 1) ELSE Goto(p, "inspect", 1)

\* MutantCheckColumn: the ALTERs without their guard.
MutantCheckColumn(p) ==
  /\ step[p] = "column"
  /\ Goto(p, "alter", at[p])
  /\ UNCHANGED <<schemaVars, dataVars>>

CheckColumn(p) ==
  /\ step[p] = "column"
  /\ IF Alters[at[p]] \in columns THEN NextColumn(p) ELSE Goto(p, "alter", at[p])
  /\ UNCHANGED <<schemaVars, dataVars>>

AddColumn(p) ==
  /\ step[p] = "alter"
  /\ Alters[at[p]] \notin columns
  /\ columns' = columns \cup {Alters[at[p]]}
  /\ NextColumn(p)
  /\ UNCHANGED <<tables, unique, index, dataVars>>

\* Another process added the column since: "duplicate column name".
DuplicateColumn(p) ==
  /\ step[p] = "alter"
  /\ Alters[at[p]] \in columns
  /\ Exit(p)
  /\ UNCHANGED <<schemaVars, dataVars>>

(***************************************************************************)
(* rebuild_entities_if_needed: the DDL is read before the transaction.     *)
(***************************************************************************)
\* MutantInspect: the rebuild without its guard.
MutantInspect(p) ==
  /\ step[p] = "inspect"
  /\ Goto(p, "rebuild", 1)
  /\ UNCHANGED <<schemaVars, dataVars>>

Inspect(p) ==
  /\ step[p] = "inspect"
  /\ Goto(p, IF unique = "slug" THEN "rebuild" ELSE "ensure", 1)
  /\ UNCHANGED <<schemaVars, dataVars>>

\* Copy, DROP TABLE, rename.  DROP TABLE first deletes the rows, foreign keys
\* are on, and so the delete cascades.
\* MutantRebuild: INSERT OR IGNORE, which keeps one row of each name.
MutantRebuild(p) ==
  /\ step[p] = "rebuild"
  /\ entities' \in [Ids -> Names \cup {NoEntity}]
  /\ \A e \in Ids : entities'[e] \in {entities[e], NoEntity}
  /\ \A e \in Rows : \E f \in Ids : entities'[f] = entities[e]
  /\ Distinct'
  /\ unique' = "full_name"
  /\ index' = FALSE
  /\ scoreOf' = NoScores
  /\ Goto(p, "ready", 1)
  /\ UNCHANGED <<tables, columns>>

Rebuild(p) ==
  /\ step[p] = "rebuild"
  /\ Distinct
  /\ unique' = "full_name"
  /\ index' = FALSE
  /\ scoreOf' = NoScores
  /\ Goto(p, "ready", 1)
  /\ UNCHANGED <<tables, columns, entities>>

\* Two rows of one name break the new key: rolled back.
RebuildFails(p) ==
  /\ step[p] = "rebuild"
  /\ ~Distinct
  /\ Exit(p)
  /\ UNCHANGED <<schemaVars, dataVars>>

(***************************************************************************)
(* ensure_full_name_unique, after no rebuild.                              *)
(***************************************************************************)
\* MutantEnsure: no index, whatever the key is.
MutantEnsure(p) ==
  /\ step[p] = "ensure"
  /\ Goto(p, "ready", 1)
  /\ UNCHANGED <<schemaVars, dataVars>>

Ensure(p) ==
  /\ step[p] = "ensure"
  /\ Goto(p, IF unique = "full_name" THEN "ready" ELSE "index", 1)
  /\ UNCHANGED <<schemaVars, dataVars>>

CreateIndex(p) ==
  /\ step[p] = "index"
  /\ Distinct
  /\ index' = TRUE
  /\ Goto(p, "ready", 1)
  /\ UNCHANGED <<tables, columns, unique, dataVars>>

CreateIndexFails(p) ==
  /\ step[p] = "index"
  /\ ~Distinct
  /\ Exit(p)
  /\ UNCHANGED <<schemaVars, dataVars>>

------------------------------------------------------------------------------
(***************************************************************************)
(* The migrated program: a collector upserts on (platform, full_name), the *)
(* scorer adds a row per entity.  A one-shot program ends.                 *)
(***************************************************************************)
FullNameUnique == unique = "full_name" \/ index

\* ON CONFLICT(platform, full_name) needs the key; the row keeps its id.
Upsert(p, e, n) ==
  /\ step[p] = "ready"
  /\ FullNameUnique
  /\ e \notin Rows
  /\ \A f \in Rows : entities[f] # n
  /\ entities' = [entities EXCEPT ![e] = n]
  /\ UNCHANGED <<schemaVars, scoreOf, step, at, faults>>

SaveScore(p, s, e) ==
  /\ step[p] = "ready"
  /\ scoreOf[s] = NoEntity
  /\ e \in Rows
  /\ scoreOf' = [scoreOf EXCEPT ![s] = e]
  /\ UNCHANGED <<schemaVars, entities, step, at, faults>>

Stop(p) ==
  /\ step[p] = "ready"
  /\ Exit(p)
  /\ UNCHANGED <<schemaVars, dataVars>>

\* A kill, or a lock held by another process for longer than busy_timeout.
Fault(p) ==
  /\ step[p] # "stopped"
  /\ faults < MaxFaults
  /\ step' = [step EXCEPT ![p] = "stopped"]
  /\ at' = [at EXCEPT ![p] = 1]
  /\ faults' = faults + 1
  /\ UNCHANGED <<schemaVars, dataVars>>

Migrate(p) ==
  \/ Start(p)
  \/ CreateTable(p) \/ TableExists(p)
  \/ CheckColumn(p) \/ AddColumn(p) \/ DuplicateColumn(p)
  \/ Inspect(p) \/ Rebuild(p) \/ RebuildFails(p)
  \/ Ensure(p) \/ CreateIndex(p) \/ CreateIndexFails(p)

Work(p) ==
  \/ \E e \in Ids, n \in Names : Upsert(p, e, n)
  \/ \E s \in Scores, e \in Ids : SaveScore(p, s, e)
  \/ Stop(p)

Next == \E p \in Procs : Migrate(p) \/ Work(p) \/ Fault(p)

(***************************************************************************)
(* A process that exits is started again (systemd: Restart=on-failure, the *)
(* ingest timer), and a running one takes its next step.                   *)
(***************************************************************************)
Spec == Init /\ [][Next]_vars
FairSpec == Spec /\ \A p \in Procs : WF_vars(Migrate(p))

------------------------------------------------------------------------------
(***************************************************************************)
(* Types.                                                                  *)
(***************************************************************************)
Steps == {"stopped", "schema", "column", "alter", "inspect", "rebuild", "ensure", "index", "ready"}

TypeOK ==
  /\ tables \subseteq AllTables
  /\ columns \subseteq AllColumns
  /\ unique \in {"full_name", "slug", "none"}
  /\ index \in BOOLEAN
  /\ entities \in [Ids -> Names \cup {NoEntity}]
  /\ scoreOf \in [Scores -> Ids \cup {NoEntity}]
  /\ step \in [Procs -> Steps]
  /\ at \in [Procs -> 1 .. Len(Alters)]
  /\ faults \in 0 .. MaxFaults

(***************************************************************************)
(* A process that has migrated works on the v2 schema, whatever the others *)
(* did between its steps and whatever they do next: no concurrent rebuild  *)
(* takes a table, a column or the uniqueness of full_name away again.      *)
(***************************************************************************)
ReadyIsV2 ==
  \A p \in Procs : step[p] = "ready" =>
    tables = AllTables /\ columns = AllColumns /\ FullNameUnique

(***************************************************************************)
(* No migration, finished, failed or interrupted, loses, renames or merges *)
(* an entity: duplicate names make it fail instead.                        *)
(***************************************************************************)
EntitiesKept == [][\A e \in Rows : entities'[e] = entities[e]]_vars

(***************************************************************************)
(* Once the key is (platform, full_name) and nobody still acts on an older *)
(* reading of the DDL, there is no further rebuild, and so no score is     *)
(* lost: rebuilds cannot come back, however often programs are started.    *)
(***************************************************************************)
Settled == unique = "full_name" /\ \A p \in Procs : step[p] # "rebuild"

SettledKeepsScores ==
  [][Settled => /\ Settled'
                /\ \A s \in Scores : scoreOf[s] # NoEntity => scoreOf'[s] = scoreOf[s]]_vars

(***************************************************************************)
(* Two migrations of one file may make each other fail, but only for a     *)
(* time: unless two rows share a name, every process gets ready.           *)
(***************************************************************************)
EveryoneGetsReady == \A p \in Procs : Distinct ~> (step[p] = "ready")

------------------------------------------------------------------------------
(***************************************************************************)
(* What the test of the rebuild says: the data of a pre-v2 database are    *)
(* preserved - here, the rows that reference an entity too.                *)
(***************************************************************************)
DataPreserved ==
  [][/\ \A e \in Rows : entities'[e] = entities[e]
     /\ \A s \in Scores : scoreOf[s] # NoEntity => scoreOf'[s] = scoreOf[s]]_vars
==============================================================================
