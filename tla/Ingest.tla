-------------------------------- MODULE Ingest --------------------------------
(***************************************************************************)
(* The ingest job: chassis/src/collectors.rs run by the ingest programs,   *)
(* the github and depsdev collectors, the score program, and the systemd   *)
(* unit that runs the three in this order, ignoring the failure of the     *)
(* first two.  An operator may run any of the programs at any time too.    *)
(*                                                                         *)
(* A collector fetches (one GitHub search after another, from scratch      *)
(* after a failure), upserts the whole batch in one transaction, and then  *)
(* inserts its collector_runs row in a statement of its own.  The scorer   *)
(* reads an entity in several statements, then inserts its score.          *)
(* Searches answer with what GitHub knows at that moment; its knowledge is *)
(* a growing version number ("stars").  The schema is already v2.          *)
(***************************************************************************)
EXTENDS Naturals, FiniteSets, Sequences

CONSTANTS
  Names,      \* full names of repositories
  Unpushed,   \* the ones GitHub sends no pushed_at for
  Searches,   \* SEED_SEARCHES: per search its ecosystem and possible answers
  Lookups,    \* outcomes of the deps.dev lookups that occur
  Timer,      \* the process of risk-ingest.service
  Operators,  \* processes started by hand
  ByHand,     \* bound of the run: the programs that are
  MaxLaunches, \* bound of the run: starts of the unit or of a program by hand
  MaxWorld,   \* bound of the run: versions of what GitHub knows
  MaxFaults,  \* bound of the run: kills, full or busy databases
  NoRow,      \* an entity that is not stored
  NoScore,    \* an entity without entity_scores row
  NoReport    \* a run without collector_runs row

MaxAttempts == 3

Collectors == {"github", "depsdev"}
Programs == Collectors \cup {"score"}
Procs == Operators \cup {Timer}
Ecosystems == {Searches[i].ecosystem : i \in DOMAIN Searches}
Launches == 1 .. MaxLaunches

\* What became of the two deps.dev requests of enrich: no package, no answer
\* about it, no (dated) default version, no such version, no answer about the
\* version, its advisories counted.
LookupOutcomes ==
  {"no_package", "package_failed", "no_default", "no_version", "version_failed", "counted"}

ASSUME IngestAssumption ==
  /\ IsFiniteSet(Names)
  /\ Searches \in Seq([ecosystem : STRING, answers : SUBSET SUBSET Names]) /\ Searches # <<>>
  /\ Lookups \subseteq LookupOutcomes
  /\ Timer \notin Operators /\ ByHand \subseteq Programs
  /\ MaxLaunches \in Nat /\ MaxWorld \in Nat /\ MaxFaults \in Nat

\* The columns of an entity that the properties tell apart; lookup stands for the
\* depsdev_* keys of metadata, "absent" when there are none.
Row == [category : Ecosystems, stars : Nat, lookup : Lookups \cup {"absent"}]
Item == [name : Names, row : Row]
Score == [signals : Nat, popularity : Nat]
Draft == [name : Names, signals : Nat, popularity : Nat]
LogRow == [fetched : Nat, upserted : Nat, ok : BOOLEAN]
Runs == Launches \X Collectors

ASSUME IngestSentinels ==
  NoRow \notin Row /\ NoScore \notin Score \cup Draft /\ NoReport \notin LogRow \cup Nat

VARIABLES
  entities,  \* the entities table, keyed by full_name
  scores,    \* the newest entity_scores row of each entity
  log,       \* collector_runs; a run is known by its launch and its collector
  prog,      \* the program each process is running, or "idle"
  step,      \* and where in it
  launch,    \* the number of the launch it belongs to
  attempt,   \* with_retries: failed attempts so far
  search,    \* fetch: index of the next search
  batch,     \* fetch: what has been collected (out)
  outcome,   \* run_collector: "pending", "unfetched", "rolled_back" or "stored"
  todo,      \* score: entities still to be scored
  draft,     \* score: the entity in hand and the versions read of it
  world,     \* version of what GitHub knows
  launched,  \* launches so far
  faults,    \* faults so far
  wrote,     \* history: rows each run has written
  alone,     \* history: the program has run alone since it opened the database, and
             \* every score it computed was saved
  settled    \* history: nothing has been started since such a score program ended

tables == <<entities, scores, log>>
fetching == <<attempt, search, batch, outcome>>
scoring == <<todo, draft>>
outside == <<world, launched, faults>>
history == <<wrote, alone, settled>>
vars == <<entities, scores, log, prog, step, launch, attempt, search, batch, outcome, todo,
          draft, world, launched, faults, wrote, alone, settled>>

Steps == {"idle", "open", "fetch", "store", "report", "pick", "popularity", "save"}

Init ==
  /\ entities = [n \in Names |-> NoRow]
  /\ scores = [n \in Names |-> NoScore]
  /\ log = [r \in Runs |-> NoReport]
  /\ prog = [p \in Procs |-> "idle"]
  /\ step = [p \in Procs |-> "idle"]
  /\ launch = [p \in Procs |-> 0]
  /\ attempt = [p \in Procs |-> 0]
  /\ search = [p \in Procs |-> 1]
  /\ batch = [p \in Procs |-> {}]
  /\ outcome = [p \in Procs |-> "pending"]
  /\ todo = [p \in Procs |-> {}]
  /\ draft = [p \in Procs |-> NoScore]
  /\ world = 1
  /\ launched = 0
  /\ faults = 0
  /\ wrote = [r \in Runs |-> 0]
  /\ alone = [p \in Procs |-> FALSE]
  /\ settled = FALSE

------------------------------------------------------------------------------
(***************************************************************************)
(* Starting and ending programs.                                           *)
(***************************************************************************)
Busy == {p \in Procs : prog[p] # "idle"}

RunOf(p) == <<launch[p], prog[p]>>

\* The ExecStart lines of risk-ingest.service.
Following == [github |-> "depsdev", depsdev |-> "score", score |-> "idle"]

NextProgram(p) == IF p = Timer THEN Following[prog[p]] ELSE "idle"

\* Mutant: the collected batch outlives the run that collected it.
MutantForget(p) ==
  /\ attempt' = [attempt EXCEPT ![p] = 0]
  /\ search' = [search EXCEPT ![p] = 1]
  /\ outcome' = [outcome EXCEPT ![p] = "pending"]
  /\ todo' = [todo EXCEPT ![p] = {}]
  /\ draft' = [draft EXCEPT ![p] = NoScore]
  /\ alone' = [alone EXCEPT ![p] = FALSE]
  /\ UNCHANGED batch

\* What a process keeps in memory is gone when its program ends.
Forget(p) ==
  /\ attempt' = [attempt EXCEPT ![p] = 0]
  /\ search' = [search EXCEPT ![p] = 1]
  /\ batch' = [batch EXCEPT ![p] = {}]
  /\ outcome' = [outcome EXCEPT ![p] = "pending"]
  /\ todo' = [todo EXCEPT ![p] = {}]
  /\ draft' = [draft EXCEPT ![p] = NoScore]
  /\ alone' = [alone EXCEPT ![p] = FALSE]

Becomes(p, program) ==
  /\ prog' = [prog EXCEPT ![p] = program]
  /\ step' = [step EXCEPT ![p] = IF program = "idle" THEN "idle" ELSE "open"]
  /\ launch' = [launch EXCEPT ![p] = IF program = "idle" THEN 0 ELSE launch[p]]

Exit(p) == Forget(p) /\ Becomes(p, NextProgram(p))

\* The timer starts the unit, which systemd runs once at a time; an operator
\* starts any one program.
Start(p, program) ==
  /\ p \notin Busy /\ launched < MaxLaunches
  /\ IF p = Timer THEN program = "github" ELSE program \in ByHand
  /\ launched' = launched + 1
  /\ prog' = [prog EXCEPT ![p] = program]
  /\ step' = [step EXCEPT ![p] = "open"]
  /\ launch' = [launch EXCEPT ![p] = launched + 1]
  /\ alone' = [q \in Procs |-> FALSE]
  /\ settled' = FALSE
  /\ UNCHANGED <<tables, fetching, scoring, world, faults, wrote>>

OpensAlone(p) == alone' = [alone EXCEPT ![p] = Busy = {p}]

\* db::open and db::migrate; then run_all goes on to run_collector.
OpenCollector(p) ==
  /\ step[p] = "open" /\ prog[p] \in Collectors
  /\ step' = [step EXCEPT ![p] = "fetch"]
  /\ OpensAlone(p)
  /\ UNCHANGED <<tables, prog, launch, fetching, scoring, outside, wrote, settled>>

\* The program is killed or panics, or db::open, db::migrate or finish_run
\* fails: the unit goes on to its next line, an open transaction is rolled back.
Abort(p) ==
  /\ p \in Busy /\ faults < MaxFaults
  /\ faults' = faults + 1
  /\ Exit(p)
  /\ UNCHANGED <<tables, world, launched, wrote, settled>>

\* TimeoutStartSec, a stop of the unit or of the machine: no next line.
StopUnit ==
  /\ Timer \in Busy /\ faults < MaxFaults
  /\ faults' = faults + 1
  /\ Forget(Timer) /\ Becomes(Timer, "idle")
  /\ UNCHANGED <<tables, world, launched, wrote, settled>>

------------------------------------------------------------------------------
(***************************************************************************)
(* Collectors.                                                             *)
(***************************************************************************)
NamesIn(items) == {i.name : i \in items}

GitHubMoves ==
  /\ world < MaxWorld
  /\ world' = world + 1
  /\ UNCHANGED <<tables, prog, step, launch, fetching, scoring, launched, faults, history>>

\* Mutant: no dedupe across ecosystems.
MutantFresh(p, found) == found

\* map_repo, and for depsdev enrich: a lookup that fails never fails the batch.
LookupsBy(program) == IF program = "depsdev" THEN Lookups ELSE {"absent"}

\* Dedupe across ecosystems: the first search that names a repository wins.
Fresh(p, found) == found \ NamesIn(batch[p])

Mapped(p, found, lookup) ==
  {[name |-> n, row |-> [category |-> Searches[search[p]].ecosystem, stars |-> world, lookup |-> lookup[n]]] :
     n \in Fresh(p, found)}

Search(p, found, lookup) ==
  /\ step[p] = "fetch"
  /\ batch' = [batch EXCEPT ![p] = @ \cup Mapped(p, found, lookup)]
  /\ IF search[p] < Len(Searches)
       THEN search' = [search EXCEPT ![p] = @ + 1] /\ UNCHANGED step
       ELSE step' = [step EXCEPT ![p] = "store"] /\ UNCHANGED search
  /\ UNCHANGED <<tables, prog, launch, attempt, outcome, scoring, outside, history>>

\* Mutant: the last attempt is not counted as such.
MutantSearchFails(p) ==
  /\ step[p] = "fetch"
  /\ attempt' = [attempt EXCEPT ![p] = @ + 1]
  /\ search' = [search EXCEPT ![p] = 1]
  /\ batch' = [batch EXCEPT ![p] = {}]
  /\ IF attempt[p] < MaxAttempts
       THEN UNCHANGED <<step, outcome>>
       ELSE /\ step' = [step EXCEPT ![p] = "report"]
            /\ outcome' = [outcome EXCEPT ![p] = "unfetched"]
  /\ UNCHANGED <<tables, prog, launch, scoring, outside, history>>

\* Mutant: failed attempts are not counted.
MutantRetriesForever(p) ==
  /\ step[p] = "fetch"
  /\ search' = [search EXCEPT ![p] = 1]
  /\ batch' = [batch EXCEPT ![p] = {}]
  /\ UNCHANGED <<tables, prog, step, launch, attempt, outcome, scoring, outside, history>>

\* A failed search fails the attempt, which drops what it had collected.
SearchFails(p) ==
  /\ step[p] = "fetch"
  /\ attempt' = [attempt EXCEPT ![p] = @ + 1]
  /\ search' = [search EXCEPT ![p] = 1]
  /\ batch' = [batch EXCEPT ![p] = {}]
  /\ IF attempt[p] + 1 < MaxAttempts
       THEN UNCHANGED <<step, outcome>>
       ELSE /\ step' = [step EXCEPT ![p] = "report"]
            /\ outcome' = [outcome EXCEPT ![p] = "unfetched"]
  /\ UNCHANGED <<tables, prog, launch, scoring, outside, history>>

RowsOf(items, n) == {i.row : i \in {j \in items : j.name = n}}

\* upsert_all commits: a stored entity is overwritten, metadata and all.
Store(p) ==
  /\ step[p] = "store"
  /\ entities' = [n \in Names |->
       IF n \in NamesIn(batch[p]) THEN CHOOSE r \in RowsOf(batch[p], n) : TRUE ELSE entities[n]]
  /\ wrote' = [wrote EXCEPT ![RunOf(p)] = Cardinality(NamesIn(batch[p]))]
  /\ outcome' = [outcome EXCEPT ![p] = "stored"]
  /\ step' = [step EXCEPT ![p] = "report"]
  /\ UNCHANGED <<scores, log, prog, launch, attempt, search, batch, scoring, outside, alone, settled>>

\* Mutant: every upsert commits on its own, and one of them fails.
MutantStoreFails(p) ==
  /\ step[p] = "store" /\ faults < MaxFaults
  /\ faults' = faults + 1
  /\ \E i \in batch[p] : entities' = [entities EXCEPT ![i.name] = i.row]
  /\ outcome' = [outcome EXCEPT ![p] = "rolled_back"]
  /\ step' = [step EXCEPT ![p] = "report"]
  /\ UNCHANGED <<scores, log, prog, launch, attempt, search, batch, scoring, world, launched, history>>

StoreFails(p) ==
  /\ step[p] = "store" /\ faults < MaxFaults
  /\ faults' = faults + 1
  /\ outcome' = [outcome EXCEPT ![p] = "rolled_back"]
  /\ step' = [step EXCEPT ![p] = "report"]
  /\ UNCHANGED <<tables, prog, launch, attempt, search, batch, scoring, world, launched, history>>

\* RunResult and the error column.
Result(p) ==
  LET fetched == IF outcome[p] = "unfetched" THEN 0 ELSE Cardinality(batch[p])
  IN [fetched |-> fetched,
      upserted |-> IF outcome[p] = "stored" THEN fetched ELSE 0,
      ok |-> outcome[p] = "stored"]

\* finish_run, on success and on failure; its own failure is an Abort.
Report(p) ==
  /\ step[p] = "report"
  /\ log' = [log EXCEPT ![RunOf(p)] = Result(p)]
  /\ Exit(p)
  /\ UNCHANGED <<entities, scores, outside, wrote, settled>>

------------------------------------------------------------------------------
(***************************************************************************)
(* score --all.                                                            *)
(***************************************************************************)
Stored == {n \in Names : entities[n] # NoRow}

OpenScore(p) ==
  /\ step[p] = "open" /\ prog[p] = "score"
  /\ todo' = [todo EXCEPT ![p] = Stored]
  /\ step' = [step EXCEPT ![p] = "pick"]
  /\ OpensAlone(p)
  /\ UNCHANGED <<tables, prog, launch, fetching, draft, outside, wrote, settled>>

\* The entity in hand is dealt with, and the loop goes on.
Done(p, n) ==
  /\ todo' = [todo EXCEPT ![p] = @ \ {n}]
  /\ draft' = [draft EXCEPT ![p] = NoScore]
  /\ step' = [step EXCEPT ![p] = "pick"]

\* calculate_trajectory_signals, the first read of score_entity.
ReadSignals(p, n) ==
  /\ step[p] = "pick" /\ n \in todo[p] /\ n \notin Unpushed
  /\ draft' = [draft EXCEPT ![p] = [name |-> n, signals |-> entities[n].stars, popularity |-> 0]]
  /\ step' = [step EXCEPT ![p] = "popularity"]
  /\ UNCHANGED <<tables, prog, launch, fetching, todo, outside, history>>

\* Mutant: the error ends the loop, as in rescore_all.
MutantSkipUnpushed(p, n) ==
  /\ step[p] = "pick" /\ n \in todo[p] \cap Unpushed
  /\ todo' = [todo EXCEPT ![p] = {}]
  /\ UNCHANGED <<tables, prog, step, launch, fetching, draft, outside, history>>

\* A NULL last_pushed_at is an error, which is logged, and the loop continues.
SkipUnpushed(p, n) ==
  /\ step[p] = "pick" /\ n \in todo[p] \cap Unpushed
  /\ Done(p, n)
  /\ UNCHANGED <<tables, prog, launch, fetching, outside, history>>

\* The last read of score_entity, a statement of its own.
ReadPopularity(p) ==
  /\ step[p] = "popularity"
  /\ draft' = [draft EXCEPT ![p].popularity = entities[draft[p].name].stars]
  /\ step' = [step EXCEPT ![p] = "save"]
  /\ UNCHANGED <<tables, prog, launch, fetching, todo, outside, history>>

SaveScore(p) ==
  /\ step[p] = "save"
  /\ scores' = [scores EXCEPT ![draft[p].name] =
                  [signals |-> draft[p].signals, popularity |-> draft[p].popularity]]
  /\ Done(p, draft[p].name)
  /\ UNCHANGED <<entities, log, prog, launch, fetching, outside, history>>

\* A read or the insert fails (busy): logged, and the loop continues.
ScoreFails(p) ==
  /\ step[p] \in {"popularity", "save"} /\ faults < MaxFaults
  /\ faults' = faults + 1
  /\ Done(p, draft[p].name)
  /\ alone' = [alone EXCEPT ![p] = FALSE]
  /\ UNCHANGED <<tables, prog, launch, fetching, world, launched, wrote, settled>>

FinishScore(p) ==
  /\ step[p] = "pick" /\ todo[p] = {}
  /\ settled' = alone[p]
  /\ Exit(p)
  /\ UNCHANGED <<tables, outside, wrote>>

------------------------------------------------------------------------------
Proceed(p) ==
  \/ OpenCollector(p)
  \/ \E found \in Searches[search[p]].answers : \E lookup \in [found -> LookupsBy(prog[p])] : Search(p, found, lookup)
  \/ SearchFails(p)
  \/ Store(p)
  \/ Report(p)
  \/ OpenScore(p)
  \/ \E n \in Names : ReadSignals(p, n) \/ SkipUnpushed(p, n)
  \/ ReadPopularity(p)
  \/ SaveScore(p)
  \/ FinishScore(p)

Next ==
  \/ \E p \in Procs : Proceed(p) \/ Abort(p) \/ StoreFails(p) \/ ScoreFails(p)
  \/ \E p \in Procs, program \in Programs : Start(p, program)
  \/ StopUnit
  \/ GitHubMoves

Spec == Init /\ [][Next]_vars

\* Every program the timer started keeps running: its requests time out, its
\* statements fail after busy_timeout, and systemd starts the next line.
FairSpec == Spec /\ WF_vars(Proceed(Timer))

------------------------------------------------------------------------------
(***************************************************************************)
(* Properties.                                                             *)
(***************************************************************************)
\* Every variable holds values the program could give it.
TypeOK ==
  /\ entities \in [Names -> Row \cup {NoRow}]
  /\ scores \in [Names -> Score \cup {NoScore}]
  /\ log \in [Runs -> LogRow \cup {NoReport}]
  /\ prog \in [Procs -> Programs \cup {"idle"}]
  /\ step \in [Procs -> Steps]
  /\ launch \in [Procs -> 0 .. MaxLaunches]
  /\ attempt \in [Procs -> 0 .. MaxAttempts]
  /\ search \in [Procs -> DOMAIN Searches]
  /\ batch \in [Procs -> SUBSET Item]
  /\ outcome \in [Procs -> {"pending", "unfetched", "rolled_back", "stored"}]
  /\ todo \in [Procs -> SUBSET Names]
  /\ draft \in [Procs -> Draft \cup {NoScore}]
  /\ world \in Nat
  /\ launched \in 0 .. MaxLaunches
  /\ faults \in 0 .. MaxFaults
  /\ wrote \in [Runs -> Nat]
  /\ alone \in [Procs -> BOOLEAN]
  /\ settled \in BOOLEAN

\* A collector_runs row says what its run did to the entities table: as many
\* rows as it says were written, all that were fetched when it reports no
\* error, none when it does (delta 8b).  finish_run is a statement of its own,
\* after the commit or rollback, and other runs write in between.
LogHonest ==
  \A r \in Runs : log[r] # NoReport =>
    /\ log[r].upserted = wrote[r]
    /\ log[r].upserted = IF log[r].ok THEN log[r].fetched ELSE 0

\* run_collector implements Catalog: a run publishes its batch whole and once,
\* and reports afterwards, despite retries, rollbacks and kills.
CatalogReport == [r \in Runs |-> IF log[r] = NoReport THEN NoReport ELSE log[r].upserted]

Published == INSTANCE Catalog WITH Rows <- Row, published <- wrote, report <- CatalogReport

ImplementsCatalog == Published!Spec

\* What may happen to a stored entity.  It changes only when a collector commits,
\* and stays stored.  Its deps.dev keys are missing afterwards exactly when that
\* was the github collector, never because a batch fetched by one program, or
\* by an attempt that failed half-way, was published by another.  And if the
\* collector ran alone, what it replaced was not newer; with another collector
\* beside it, the last commit wins and may be the older one.
Replaced(n) == entities[n] # NoRow /\ entities'[n] # entities[n]

Refreshed ==
  [][\A n \in Names : Replaced(n) =>
       /\ n \in Stored'
       /\ \E p \in Procs :
            /\ step[p] = "store" /\ outcome'[p] = "stored"
            /\ entities'[n].lookup = "absent" <=> prog[p] = "github"
            /\ alone[p] => entities[n].stars <= entities'[n].stars]_vars

\* Once score --all has run alone and without an error of the database, and until the
\* next program is started, every entity that can be scored has a score
\* computed from its stored row, whatever happened to the entities before it
\* in the loop ("per-entity errors are LOGGED and the loop CONTINUES").
ScoresCurrent ==
  settled => \A n \in Stored \ Unpushed :
    scores[n] = [signals |-> entities[n].stars, popularity |-> entities[n].stars]

\* The job ends, after at most three attempts per collector.
JobEnds == prog[Timer] # "idle" ~> prog[Timer] = "idle"

\* depsdev.rs:176-178: failed lookups are recorded as depsdev_found = false.
DepsDevFound(row) == row.lookup \in {"no_default", "no_version", "version_failed", "counted"}

LookupFailuresShow ==
  \A n \in Stored : entities[n].lookup \in {"package_failed", "version_failed"} =>
    ~DepsDevFound(entities[n])
==============================================================================
