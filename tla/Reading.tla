-------------------------------- MODULE Reading --------------------------------
(***************************************************************************)
(* The read side of the server (entities, entity_detail, search and stats  *)
(* of handlers.rs) beside the programs that write what it reads.           *)
(*                                                                         *)
(* The mutex of the connection lets one request at a time in, but a        *)
(* request is several statements: the collectors' commits and the score    *)
(* program's inserts, made by other processes, fall in between, and each   *)
(* statement may fail (a busy database, an I/O error).  A failed prepare   *)
(* of a list is a 500 and a failed detail a 404, which change nothing; of  *)
(* every other failure the request takes no notice and goes on.  The       *)
(* scores are computed by the formulas of Scoring.  What a README or a     *)
(* category filter or a search text selects is any set of entities.        *)
(***************************************************************************)
EXTENDS Scoring, FiniteSets

CONSTANTS
  Names,      \* entities
  Rows,       \* what a collector's upsert may store
  Asked,      \* values of the limit parameter that occur
  MaxUpserts, \* bound of the run: commits of a collector
  MaxScores,  \* bound of the run: entity_scores rows
  MaxTime,    \* bound of the run: seconds
  NoPush,     \* the NULL last_pushed_at of a repository never pushed to
  NoRow,      \* an entity that is not stored
  NoDraft,    \* the score program is between two entities
  NoScore     \* an entity listed without a score

ASSUME ReadingAssumption ==
  /\ IsFiniteSet(Names)
  /\ \A r \in Rows : /\ r.stars \in Nat /\ r.issues \in Nat /\ r.described \in BOOLEAN
                     /\ r.releases \in Seq(Nat)
                     /\ r.push = NoPush \/ r.push \in [parsed : BOOLEAN, hours : Nat]
  /\ Asked \subseteq Int
  /\ NoRow \notin Rows

ASSUME BoundAssumption == MaxUpserts \in Nat /\ MaxScores \in Nat /\ MaxTime \in Nat

\* A row of entity_scores; serial stands for its id.
Score == [name : Names, serial : Nat, at : Nat, composite : 0 .. 100, verdict : Verdicts,
          trajectory : {"unknown", "accelerating", "plateauing", "declining"}]

ASSUME SentinelAssumption == NoScore \notin Score

VARIABLES
  entities, \* the entities table
  scores,   \* the entity_scores table
  now,      \* the clock, in seconds
  upserts,  \* commits so far
  draft,    \* the entity the score program has in hand
  phase,    \* where the request in progress is
  listed,   \* entities, search, detail: the rows selected, with their stars
  shown,    \* and the score found for each so far
  counts,   \* stats: what has been counted so far
  began,    \* history: the scores there were when the request began
  failed    \* history: its statements that failed, of a list by their entity

tables == <<entities, scores>>
request == <<phase, listed, shown, counts, began, failed>>
vars == <<entities, scores, now, upserts, draft, phase, listed, shown, counts, began, failed>>

NoCounts == [entities |-> 0, scores |-> 0, verdicts |-> [v \in Verdicts |-> 0]]

Init ==
  /\ entities = [n \in Names |-> NoRow]
  /\ scores = {}
  /\ now = 0 /\ upserts = 0
  /\ draft = NoDraft
  /\ phase = "idle"
  /\ listed = <<>> /\ shown = <<>>
  /\ counts = NoCounts
  /\ began = {} /\ failed = {}

Stored == {n \in Names : entities[n] # NoRow}
ScoresOf(n) == {s \in scores : s.name = n}

------------------------------------------------------------------------------
(***************************************************************************)
(* The other processes.                                                    *)
(***************************************************************************)
Tick == now < MaxTime /\ now' = now + 1 /\ UNCHANGED <<tables, upserts, draft, request>>

\* A collector's transaction commits this row; rows are never deleted.
Upsert(n, row) ==
  /\ upserts < MaxUpserts
  /\ upserts' = upserts + 1
  /\ entities' = [entities EXCEPT ![n] = row]
  /\ UNCHANGED <<scores, now, draft, request>>

\* score_entity reads the row; a NULL last_pushed_at is an error and the loop goes on.
Pick(n) ==
  /\ draft = NoDraft /\ Cardinality(scores) < MaxScores
  /\ n \in Stored /\ entities[n].push # NoPush
  /\ draft' = [name |-> n, row |-> entities[n]]
  /\ UNCHANGED <<tables, now, upserts, request>>

\* It reads the stars once more; save_score stamps the row datetime('now').
SaveScore ==
  /\ draft # NoDraft
  /\ LET result == ScoreEntity(draft.row, entities[draft.name].stars, NoDocs)
     IN scores' = scores \cup {[name |-> draft.name, serial |-> Cardinality(scores) + 1, at |-> now,
                                composite |-> result.composite, verdict |-> result.verdict,
                                trajectory |-> result.trajectory]}
  /\ draft' = NoDraft
  /\ UNCHANGED <<entities, now, upserts, request>>

------------------------------------------------------------------------------
(***************************************************************************)
(* Listing requests.                                                       *)
(***************************************************************************)
\* limit: 50 unless it is a number from 1 to 200.
Limit(asked) == IF asked \in 1 .. 200 THEN asked ELSE 50

\* ORDER BY score_value DESC LIMIT k; equal rows come in any order.
Tops(matching, k) ==
  {top \in SUBSET matching :
     /\ Cardinality(top) = AtMost(Cardinality(matching), k)
     /\ \A n \in top, m \in matching \ top : entities[n].stars >= entities[m].stars}

\* What flatten passes on: the rows, or the first of them when a step fails.
Read(matching, limit) == UNION {Tops(matching, k) : k \in 0 .. AtMost(Cardinality(matching), limit)}

\* Rows with a NULL description or category fail to map and are skipped, after
\* they have counted towards the limit.
Mapped(top) == {n \in top : entities[n].described}

Select(top) ==
  /\ phase = "idle"
  /\ phase' = "attach"
  /\ listed' = [n \in Mapped(top) |-> entities[n].stars]
  /\ shown' = <<>>
  /\ began' = scores /\ failed' = {}
  /\ UNCHANGED <<tables, now, upserts, draft, counts>>

Entities(filter, asked) == \E top \in Read(filter \cap Stored, Limit(asked)) : Select(top)

Search(matching) == \E top \in Read(matching \cap Stored, 50) : Select(top)

\* Anything but one stored row that maps is a 404.
EntityDetail(n) == n \in Stored /\ entities[n].described /\ Select({n})

\* Mutant: ORDER BY scored_at without DESC.
MutantLatest(n) == {s \in ScoresOf(n) : \A t \in ScoresOf(n) : t.at >= s.at}

\* ORDER BY scored_at DESC LIMIT 1: scored_at has one-second resolution, and rows
\* of the same second come in any order.
Latest(n) == {s \in ScoresOf(n) : \A t \in ScoresOf(n) : t.at <= s.at}

Pending == DOMAIN listed \ DOMAIN shown

\* The next entity of the list, with its score.
Show(n, score) ==
  /\ phase = "attach"
  /\ n \in Pending /\ \A m \in Pending : listed[m] <= listed[n]
  /\ shown' = [m \in DOMAIN shown \cup {n} |-> IF m = n THEN score ELSE shown[m]]
  /\ UNCHANGED <<tables, now, upserts, draft, phase, listed, counts, began>>

\* A statement of its own reads the score.
Attach(n, score) ==
  /\ score \in IF Latest(n) = {} THEN {NoScore} ELSE Latest(n)
  /\ Show(n, score)
  /\ UNCHANGED failed

\* Its error is dropped ("let _ ="): the entity keeps the empty verdict.
AttachFails(n) == Show(n, NoScore) /\ failed' = failed \cup {n}

AnswerList ==
  /\ phase = "attach" /\ Pending = {}
  /\ phase' = "idle" /\ listed' = <<>> /\ shown' = <<>> /\ began' = {} /\ failed' = {}
  /\ UNCHANGED <<tables, now, upserts, draft, counts>>

------------------------------------------------------------------------------
(***************************************************************************)
(* stats: three statements; "errors ignored -> zero values".               *)
(***************************************************************************)
CountEntities ==
  /\ phase = "idle" /\ phase' = "count_scores"
  /\ \/ counts' = [NoCounts EXCEPT !.entities = Cardinality(Stored)] /\ failed' = {}
     \/ counts' = NoCounts /\ failed' = {"entities"}
  /\ began' = scores
  /\ UNCHANGED <<tables, now, upserts, draft, listed, shown>>

CountScores ==
  /\ phase = "count_scores" /\ phase' = "count_verdicts"
  /\ \/ counts' = [counts EXCEPT !.scores = Cardinality(scores)] /\ UNCHANGED failed
     \/ UNCHANGED counts /\ failed' = failed \cup {"scores"}
  /\ UNCHANGED <<tables, now, upserts, draft, listed, shown, began>>

\* Mutant: of each entity, the latest score only.
MutantCountVerdicts ==
  /\ phase = "count_verdicts" /\ phase' = "counted"
  /\ counts' = [counts EXCEPT !.verdicts =
       [v \in Verdicts |-> Cardinality({n \in Names : \E s \in Latest(n) : s.verdict = v})]]
  /\ UNCHANGED <<tables, now, upserts, draft, listed, shown, began, failed>>

Bar(v) == Cardinality({s \in scores : s.verdict = v})

\* GROUP BY verdict ORDER BY count(*) DESC: no row of a verdict nothing has, and
\* only the first rows, if any, when the prepare, the query or a step fails.
CountVerdicts ==
  /\ phase = "count_verdicts" /\ phase' = "counted"
  /\ \E read \in SUBSET Verdicts :
       /\ \A v \in read, w \in Verdicts \ read : Bar(w) <= Bar(v)
       /\ counts' = [counts EXCEPT !.verdicts = [v \in Verdicts |-> IF v \in read THEN Bar(v) ELSE 0]]
       /\ failed' = IF \A v \in Verdicts \ read : Bar(v) = 0 THEN failed ELSE failed \cup {"verdicts"}
  /\ UNCHANGED <<tables, now, upserts, draft, listed, shown, began>>

AnswerStats ==
  /\ phase = "counted" /\ phase' = "idle"
  /\ counts' = NoCounts /\ began' = {} /\ failed' = {}
  /\ UNCHANGED <<tables, now, upserts, draft, listed, shown>>

------------------------------------------------------------------------------
Next ==
  \/ Tick
  \/ \E n \in Names, row \in Rows : Upsert(n, row)
  \/ \E n \in Names : Pick(n) \/ EntityDetail(n) \/ AttachFails(n)
  \/ SaveScore
  \/ \E matching \in SUBSET Names : Search(matching) \/ \E asked \in Asked : Entities(matching, asked)
  \/ \E n \in Names, score \in scores \cup {NoScore} : Attach(n, score)
  \/ AnswerList
  \/ CountEntities \/ CountScores \/ CountVerdicts \/ AnswerStats

Spec == Init /\ [][Next]_vars

------------------------------------------------------------------------------
(***************************************************************************)
(* Properties.                                                             *)
(***************************************************************************)
\* Every variable holds values the tables and the handlers could give it; every
\* score computed passes the CHECK of its column.
TypeOK ==
  /\ entities \in [Names -> Rows \cup {NoRow}]
  /\ scores \subseteq Score
  /\ now \in Nat /\ upserts \in 0 .. MaxUpserts
  /\ draft = NoDraft \/ (draft.name \in Stored /\ draft.row \in Rows)
  /\ phase \in {"idle", "attach", "count_scores", "count_verdicts", "counted"}
  /\ DOMAIN listed \subseteq Stored /\ \A n \in DOMAIN listed : listed[n] \in Nat
  /\ DOMAIN shown \subseteq DOMAIN listed /\ \A n \in DOMAIN shown : shown[n] \in scores \cup {NoScore}
  /\ counts \in [entities : Nat, scores : Nat, verdicts : [Verdicts -> Nat]]
  /\ began \subseteq scores
  /\ failed \subseteq Names \cup {"entities", "scores", "verdicts"}

\* An answer shows of each entity a score of its own that is no older, to the
\* second, than any the entity had when the request began, although the scores
\* are read one by one while new ones arrive.  It shows none only if the entity
\* had none or its own statement failed: the other entities' failures are not
\* seen, and a failure never brings up another or an older score.
FreshAnswers ==
  \A n \in DOMAIN shown :
    \/ shown[n] = NoScore /\ (n \in failed \/ \A old \in began : old.name # n)
    \/ shown[n] \in ScoresOf(n) /\ \A old \in began : old.name = n => shown[n].at >= old.at

\* The three statements of one answer of /stats agree on what there was when it
\* began, each unless it failed itself: total_entities covers every entity with
\* a score, total_scores every score, and the histogram every score that
\* total_scores counts.  A histogram cut short by a failure lacks verdicts, but
\* of each it has, it counts every score.
StatsAgree ==
  LET histogram == counts.verdicts
  IN phase = "counted" =>
       /\ "entities" \in failed \/ Cardinality({s.name : s \in began}) <= counts.entities
       /\ "scores" \in failed \/ Cardinality(began) <= counts.scores
       /\ \/ "verdicts" \in failed
          \/ counts.scores <= histogram["green"] + histogram["yellow"] + histogram["red"] + histogram["critical"]
       /\ \A v \in Verdicts :
            \/ Cardinality({s \in began : s.verdict = v}) <= histogram[v]
            \/ "verdicts" \in failed /\ histogram[v] = 0

\* The score program passes no README fetcher, so documentation weighs nothing
\* and no score of it is ever green, whatever the stars, pushes and releases:
\* the best verdict the site can show is yellow, with at most 63 points.
NeverGreen == \A s \in scores : s.composite <= 63 /\ s.verdict # "green"
==============================================================================
