----------------------------- MODULE IngestProofs -----------------------------
(***************************************************************************)
(* The ingest job for any repositories, searches, operators and faults:    *)
(* types, an honest run log, that collector runs implement Catalog, that   *)
(* stored entities stay and are replaced only by something as fresh and    *)
(* with the right deps.dev keys, that an undisturbed score run leaves      *)
(* current scores, and that a job is bounded work.                         *)
(***************************************************************************)
EXTENDS Ingest, FiniteSetTheorems, TLAPS

(* SEED_SEARCHES is a sequence of searches, and not empty.                 *)
LEMMA SearchesTyped ==
  /\ 1 \in DOMAIN Searches
  /\ DOMAIN Searches = 1 .. Len(Searches) /\ Len(Searches) \in Nat
  /\ \A i \in DOMAIN Searches :
       Searches[i].ecosystem \in Ecosystems /\ Searches[i].answers \subseteq SUBSET Names
<1> DEFINE Seed == [ecosystem : STRING, answers : SUBSET SUBSET Names]
<1>1. Searches \in Seq(Seed) /\ Searches # <<>>
  BY IngestAssumption
<1>2. \A i \in DOMAIN Searches : Searches[i] \in Seed
  <2> HIDE DEF Seed
  <2> QED
    BY <1>1
<1>3. 1 \in DOMAIN Searches /\ DOMAIN Searches = 1 .. Len(Searches) /\ Len(Searches) \in Nat
  <2> HIDE DEF Seed
  <2> QED
    BY <1>1
<1> QED
  BY <1>2, <1>3 DEF Ecosystems

(* What the end of a program leaves behind.                                *)
LEMMA EndsTyped ==
  ASSUME TypeOK, NEW p \in Procs, NEW program \in Programs \cup {"idle"},
         Forget(p), Becomes(p, program)
  PROVE  /\ prog' \in [Procs -> Programs \cup {"idle"}]
         /\ step' \in [Procs -> Steps]
         /\ launch' \in [Procs -> 0 .. MaxLaunches]
         /\ attempt' \in [Procs -> 0 .. MaxAttempts]
         /\ search' \in [Procs -> DOMAIN Searches]
         /\ batch' \in [Procs -> SUBSET Item]
         /\ outcome' \in [Procs -> {"pending", "unfetched", "rolled_back", "stored"}]
         /\ todo' \in [Procs -> SUBSET Names]
         /\ draft' \in [Procs -> Draft \cup {NoScore}]
         /\ alone' \in [Procs -> BOOLEAN]
<1>1. 1 \in DOMAIN Searches /\ 0 \in 0 .. MaxAttempts /\ 0 \in 0 .. MaxLaunches
  BY IngestAssumption, SearchesTyped DEF MaxAttempts
<1> QED
  BY <1>1 DEF TypeOK, Forget, Becomes, Steps

LEMMA NextProgramTyped ==
  ASSUME TypeOK, NEW p \in Busy
  PROVE  NextProgram(p) \in Programs \cup {"idle"}
BY DEF TypeOK, Busy, NextProgram, Following, Programs, Collectors

(* The result of a run is a log row: its batch is finite.                  *)
OnePerName(items) == \A i, j \in items : i.name = j.name => i = j

LEMMA BatchCount ==
  ASSUME NEW items \in SUBSET Item, OnePerName(items)
  PROVE  /\ IsFiniteSet(items)
         /\ Cardinality(items) \in Nat
         /\ Cardinality(NamesIn(items)) = Cardinality(items)
<1> DEFINE nameOf == [i \in items |-> i.name]
<1>1. NamesIn(items) \subseteq Names
  BY DEF NamesIn, Item
<1>2. IsFiniteSet(NamesIn(items))
  BY <1>1, FS_Subset, IngestAssumption
<1>3. nameOf \in [items -> NamesIn(items)]
  BY DEF NamesIn
<1>4. \A i, j \in items : nameOf[i] = nameOf[j] => i = j
  BY DEF OnePerName
<1>5. \A n \in NamesIn(items) : \E i \in items : nameOf[i] = n
  BY DEF NamesIn
<1>6. nameOf \in Injection(items, NamesIn(items)) /\ nameOf \in Surjection(items, NamesIn(items))
  BY <1>3, <1>4, <1>5 DEF Injection, Surjection, IsInjective
<1>7. /\ IsFiniteSet(items)
      /\ Cardinality(items) = Cardinality(NamesIn(items))
  BY <1>2, <1>6, FS_Injection
<1> QED
  BY <1>7, FS_CardinalityType

------------------------------------------------------------------------------
(***************************************************************************)
(* Where a process is determines what it has in its hands.                 *)
(***************************************************************************)
ControlOf(p) ==
  /\ step[p] = "idle" <=> prog[p] = "idle"
  /\ step[p] \in {"fetch", "store", "report"} => prog[p] \in Collectors
  /\ step[p] \in {"pick", "popularity", "save"} => prog[p] = "score"
  /\ step[p] = "report" <=> outcome[p] # "pending"

HoldingOf(p) ==
  /\ step[p] \in {"idle", "open"} => batch[p] = {} /\ attempt[p] = 0
  /\ step[p] = "fetch" => attempt[p] < MaxAttempts
  /\ OnePerName(batch[p])
  /\ todo[p] \subseteq Stored
  /\ step[p] \in {"popularity", "save"} => draft[p] \in Draft /\ draft[p].name \in Stored

Settled(p) == ControlOf(p) /\ HoldingOf(p)

Typed == TypeOK /\ \A p \in Procs : Settled(p)

(* A step of p, as the others see it.                                      *)
OthersStay(p) ==
  \A q \in Procs : q # p =>
    /\ prog'[q] = prog[q] /\ step'[q] = step[q] /\ launch'[q] = launch[q]
    /\ attempt'[q] = attempt[q] /\ batch'[q] = batch[q] /\ outcome'[q] = outcome[q]
    /\ todo'[q] = todo[q] /\ draft'[q] = draft[q]

Moves(p) == OthersStay(p) /\ Stored \subseteq Stored' /\ Settled(p)' /\ TypeOK'

LEMMA MovesTyped ==
  ASSUME Typed, NEW p \in Procs, Moves(p)
  PROVE  Typed'
<1> SUFFICES ASSUME NEW q \in Procs PROVE Settled(q)'
  BY DEF Typed, Moves
<1>1. CASE q = p
  BY <1>1 DEF Moves
<1>2. CASE q # p
  <2>1. Settled(q)
    BY DEF Typed
  <2>2. ControlOf(q)'
    BY <1>2, <2>1 DEF Settled, ControlOf, Moves, OthersStay
  <2>3. HoldingOf(q)'
    BY <1>2, <2>1 DEF Settled, HoldingOf, Moves, OthersStay, OnePerName
  <2> QED
    BY <2>2, <2>3 DEF Settled
<1> QED
  BY <1>1, <1>2

LEMMA InitTyped == Init => Typed
<1> SUFFICES ASSUME Init PROVE Typed
  OBVIOUS
<1>1. 1 \in DOMAIN Searches /\ 0 \in 0 .. MaxAttempts /\ 0 \in 0 .. MaxLaunches /\ 0 \in 0 .. MaxFaults
  BY IngestAssumption, SearchesTyped DEF MaxAttempts
<1>2. TypeOK
  BY <1>1 DEF Init, TypeOK, Steps
<1>3. ASSUME NEW p \in Procs PROVE Settled(p)
  BY DEF Init, Settled, ControlOf, HoldingOf, OnePerName
<1> QED
  BY <1>2, <1>3 DEF Typed

(* The end of a program, whatever the reason.                              *)
LEMMA EndMoves ==
  ASSUME Typed, NEW p \in Busy, NEW program \in Programs \cup {"idle"},
         Forget(p), Becomes(p, program), UNCHANGED <<entities, scores, world, launched, wrote>>,
         log' \in [Runs -> LogRow \cup {NoReport}], faults' \in 0 .. MaxFaults, settled' \in BOOLEAN
  PROVE  Moves(p)
<1> USE DEF Typed
<1>0. p \in Procs
  BY DEF Busy
<1>1. TypeOK'
  BY <1>0, EndsTyped DEF TypeOK
<1>2. OthersStay(p)
  BY <1>0 DEF TypeOK, Forget, Becomes, OthersStay
<1>3. ControlOf(p)'
  BY <1>0 DEF TypeOK, Forget, Becomes, ControlOf, Programs, Collectors
<1>4. HoldingOf(p)'
  BY <1>0 DEF TypeOK, Forget, Becomes, HoldingOf, OnePerName
<1> QED
  BY <1>1, <1>2, <1>3, <1>4 DEF Moves, Settled, Stored

LEMMA ExitMoves ==
  ASSUME Typed, NEW p \in Busy, Exit(p), UNCHANGED <<entities, scores, world, launched, wrote>>,
         log' \in [Runs -> LogRow \cup {NoReport}], faults' \in 0 .. MaxFaults, settled' \in BOOLEAN
  PROVE  Moves(p)
BY EndMoves, NextProgramTyped DEF Exit, Typed

LEMMA StartMoves ==
  ASSUME Typed, NEW p \in Procs, NEW program \in Programs, Start(p, program)
  PROVE  Moves(p)
<1> USE DEF Typed, Start, tables, fetching, scoring
<1>0. launched + 1 \in 0 .. MaxLaunches
  BY IngestAssumption DEF TypeOK
<1>1. TypeOK'
  BY <1>0 DEF TypeOK, Steps
<1>2. OthersStay(p) /\ Stored' = Stored
  BY DEF TypeOK, OthersStay, Stored
<1>3. Settled(p)
  OBVIOUS
<1>4. prog[p] = "idle" /\ step[p] = "idle" /\ outcome[p] = "pending"
  BY <1>3 DEF Settled, ControlOf, Busy, TypeOK
<1>5. ControlOf(p)'
  BY <1>3, <1>4 DEF TypeOK, ControlOf, Programs, Collectors
<1>6. HoldingOf(p)'
  BY <1>2, <1>3, <1>4 DEF TypeOK, Settled, HoldingOf, OnePerName
<1> QED
  BY <1>1, <1>2, <1>5, <1>6 DEF Moves, Settled

(* Steps of a collector.                                                   *)
LEMMA OpenCollectorMoves ==
  ASSUME Typed, NEW p \in Procs, OpenCollector(p)
  PROVE  Moves(p)
<1> USE DEF Typed, OpenCollector, OpensAlone, tables, fetching, scoring, outside
<1>1. TypeOK'
  BY DEF TypeOK, Steps
<1>2. OthersStay(p) /\ Stored' = Stored
  BY DEF TypeOK, OthersStay, Stored
<1>3. ControlOf(p)'
  BY DEF TypeOK, Settled, ControlOf, Collectors
<1>4. HoldingOf(p)'
  BY <1>2 DEF TypeOK, Settled, HoldingOf, OnePerName, MaxAttempts
<1> QED
  BY <1>1, <1>2, <1>3, <1>4 DEF Moves, Settled

LEMMA MappedItems ==
  ASSUME TypeOK, NEW p \in Procs, NEW found \in Searches[search[p]].answers,
         NEW lookup \in [found -> LookupsBy(prog[p])], OnePerName(batch[p])
  PROVE  /\ Mapped(p, found, lookup) \subseteq Item
         /\ OnePerName(batch[p] \cup Mapped(p, found, lookup))
<1>1. search[p] \in DOMAIN Searches
  BY DEF TypeOK
<1>2. found \subseteq Names /\ Searches[search[p]].ecosystem \in Ecosystems
  BY <1>1, SearchesTyped
<1>3. \A n \in found : lookup[n] \in Lookups \cup {"absent"}
  BY DEF LookupsBy
<1>4. Mapped(p, found, lookup) \subseteq Item
  BY <1>2, <1>3 DEF Mapped, Fresh, Item, Row, TypeOK
<1>5. \A i \in Mapped(p, found, lookup) : i.name \notin NamesIn(batch[p])
  BY DEF Mapped, Fresh
<1>6. OnePerName(Mapped(p, found, lookup))
  BY DEF OnePerName, Mapped
<1>7. OnePerName(batch[p] \cup Mapped(p, found, lookup))
  BY <1>5, <1>6 DEF OnePerName, NamesIn
<1> QED
  BY <1>4, <1>7

LEMMA SearchMoves ==
  ASSUME Typed, NEW p \in Procs, NEW found \in Searches[search[p]].answers,
         NEW lookup \in [found -> LookupsBy(prog[p])], Search(p, found, lookup)
  PROVE  Moves(p)
<1> USE DEF Typed, tables, scoring, outside, history
<1>0. Settled(p)
  OBVIOUS
<1>1. /\ Mapped(p, found, lookup) \subseteq Item
      /\ OnePerName(batch[p] \cup Mapped(p, found, lookup))
  BY <1>0, MappedItems DEF Settled, HoldingOf
<1>2. batch' = [batch EXCEPT ![p] = batch[p] \cup Mapped(p, found, lookup)]
  BY DEF Search
<1>3. batch' \in [Procs -> SUBSET Item] /\ OnePerName(batch'[p])
  BY <1>1, <1>2 DEF TypeOK
<1>4. step' \in [Procs -> Steps] /\ search' \in [Procs -> DOMAIN Searches]
  <2>1. DOMAIN Searches = 1 .. Len(Searches) /\ Len(Searches) \in Nat
    BY SearchesTyped
  <2>2. search[p] < Len(Searches) => search[p] + 1 \in DOMAIN Searches
    BY <2>1 DEF TypeOK
  <2> QED
    BY <2>2 DEF Search, TypeOK, Steps
<1>5. TypeOK'
  BY <1>3, <1>4 DEF Search, TypeOK
<1>6. OthersStay(p) /\ Stored' = Stored
  BY DEF Search, TypeOK, OthersStay, Stored
<1>7. ControlOf(p)'
  BY <1>0 DEF Search, TypeOK, Settled, ControlOf
<1>8. HoldingOf(p)'
  BY <1>0, <1>3, <1>6 DEF Search, TypeOK, Settled, HoldingOf, OnePerName
<1> QED
  BY <1>5, <1>6, <1>7, <1>8 DEF Moves, Settled

LEMMA SearchFailsMoves ==
  ASSUME Typed, NEW p \in Procs, SearchFails(p)
  PROVE  Moves(p)
<1> USE DEF Typed, SearchFails, tables, scoring, outside, history
<1>0. Settled(p) /\ attempt[p] + 1 \in 0 .. MaxAttempts
  BY DEF Settled, HoldingOf, TypeOK, MaxAttempts
<1>1. TypeOK'
  BY <1>0, SearchesTyped DEF TypeOK, Steps
<1>2. OthersStay(p) /\ Stored' = Stored
  BY DEF TypeOK, OthersStay, Stored
<1>3. ControlOf(p)'
  BY <1>0 DEF TypeOK, Settled, ControlOf
<1>4. HoldingOf(p)'
  BY <1>0, <1>2 DEF TypeOK, Settled, HoldingOf, OnePerName
<1> QED
  BY <1>1, <1>2, <1>3, <1>4 DEF Moves, Settled

(* The rows a commit writes.                                               *)
LEMMA StoredRows ==
  ASSUME Typed, NEW p \in Procs, Store(p)
  PROVE  \A n \in Names :
           IF n \in NamesIn(batch[p])
             THEN \E i \in batch[p] : i.name = n /\ entities'[n] = i.row /\ i.row \in Row
             ELSE entities'[n] = entities[n]
<1> SUFFICES ASSUME NEW n \in NamesIn(batch[p]), n \in Names
             PROVE  \E i \in batch[p] : i.name = n /\ entities'[n] = i.row /\ i.row \in Row
  BY DEF Store
<1>1. RowsOf(batch[p], n) # {}
  BY DEF NamesIn, RowsOf
<1>2. entities'[n] \in RowsOf(batch[p], n)
  BY <1>1 DEF Store
<1> QED
  BY <1>2 DEF RowsOf, Typed, TypeOK, Item

LEMMA StoreMoves ==
  ASSUME Typed, NEW p \in Procs, Store(p)
  PROVE  Moves(p)
<1> USE DEF Typed, scoring, outside
<1>0. Settled(p)
  OBVIOUS
<1>1. \A n \in Names : entities'[n] \in Row \/ entities'[n] = entities[n]
  BY StoredRows
<1>2. entities' = [n \in Names |-> entities'[n]]
  BY DEF Store
<1>3. entities' \in [Names -> Row \cup {NoRow}]
  BY <1>1, <1>2 DEF TypeOK
<1>4. Cardinality(NamesIn(batch[p])) \in Nat
  BY <1>0, BatchCount DEF TypeOK, Settled, HoldingOf
<1>5. TypeOK'
  BY <1>3, <1>4 DEF Store, TypeOK, Steps
<1>6. OthersStay(p)
  BY DEF Store, TypeOK, OthersStay
<1>7. Stored \subseteq Stored'
  BY <1>1, IngestSentinels DEF Stored
<1>8. ControlOf(p)'
  BY <1>0 DEF Store, TypeOK, Settled, ControlOf
<1>9. HoldingOf(p)'
  BY <1>0, <1>7 DEF Store, TypeOK, Settled, HoldingOf, OnePerName
<1> QED
  BY <1>5, <1>6, <1>7, <1>8, <1>9 DEF Moves, Settled

LEMMA StoreFailsMoves ==
  ASSUME Typed, NEW p \in Procs, StoreFails(p)
  PROVE  Moves(p)
<1> USE DEF Typed, StoreFails, tables, scoring, outside, history
<1>1. faults + 1 \in 0 .. MaxFaults
  BY IngestAssumption DEF TypeOK
<1>2. TypeOK'
  BY <1>1 DEF TypeOK, Steps
<1>3. OthersStay(p) /\ Stored' = Stored
  BY DEF TypeOK, OthersStay, Stored
<1>4. ControlOf(p)'
  BY DEF TypeOK, Settled, ControlOf
<1>5. HoldingOf(p)'
  BY <1>3 DEF TypeOK, Settled, HoldingOf, OnePerName
<1> QED
  BY <1>2, <1>3, <1>4, <1>5 DEF Moves, Settled

LEMMA ResultTyped ==
  ASSUME Typed, NEW p \in Procs
  PROVE  Result(p) \in LogRow
<1>1. Cardinality(batch[p]) \in Nat
  BY BatchCount DEF Typed, TypeOK, Settled, HoldingOf
<1> QED
  BY <1>1 DEF Result, LogRow

LEMMA RunningIsRun ==
  ASSUME Typed, NEW p \in Procs, step[p] \in {"fetch", "store", "report"}, launch[p] \in Launches
  PROVE  RunOf(p) \in Runs
BY DEF Typed, Settled, ControlOf, RunOf, Runs

LEMMA ReportMoves ==
  ASSUME Typed, NEW p \in Procs, Report(p)
  PROVE  Moves(p)
<1> USE DEF outside
<1>1. p \in Busy
  BY DEF Typed, Settled, ControlOf, Report, Busy, Collectors, TypeOK
<1>2. log' \in [Runs -> LogRow \cup {NoReport}]
  BY ResultTyped DEF Report, Typed, TypeOK
<1> QED
  BY <1>1, <1>2, ExitMoves DEF Report, Typed, TypeOK

(* Steps of the score program.                                             *)
LEMMA OpenScoreMoves ==
  ASSUME Typed, NEW p \in Procs, OpenScore(p)
  PROVE  Moves(p)
<1> USE DEF Typed, OpenScore, OpensAlone, tables, fetching, outside
<1>1. TypeOK'
  BY DEF TypeOK, Steps, Stored
<1>2. OthersStay(p) /\ Stored' = Stored
  BY DEF TypeOK, OthersStay, Stored
<1>3. ControlOf(p)'
  BY DEF TypeOK, Settled, ControlOf
<1>4. HoldingOf(p)'
  BY <1>2 DEF TypeOK, Settled, HoldingOf, OnePerName
<1> QED
  BY <1>1, <1>2, <1>3, <1>4 DEF Moves, Settled

LEMMA ReadMoves ==
  ASSUME Typed, NEW p \in Procs, (\E n \in Names : ReadSignals(p, n)) \/ ReadPopularity(p)
  PROVE  Moves(p)
<1> USE DEF Typed, tables, fetching, outside, history
<1>0. Settled(p)
  OBVIOUS
<1>1. /\ draft' \in [Procs -> Draft \cup {NoScore}]
      /\ draft'[p] \in Draft /\ draft'[p].name \in Stored
      /\ \A q \in Procs : q # p => draft'[q] = draft[q]
  <2>1. ASSUME NEW n \in Names, ReadSignals(p, n)
        PROVE  <1>1!:
    <3>1. n \in Stored
      BY <1>0, <2>1 DEF Settled, HoldingOf, ReadSignals
    <3>2. entities[n].stars \in Nat
      BY <3>1 DEF Stored, TypeOK, Row
    <3>3. [name |-> n, signals |-> entities[n].stars, popularity |-> 0] \in Draft
      BY <3>2 DEF Draft
    <3> QED
      BY <2>1, <3>1, <3>3 DEF ReadSignals, TypeOK
  <2>2. ASSUME ReadPopularity(p)
        PROVE  <1>1!:
    <3>1. draft[p] \in Draft /\ draft[p].name \in Stored
      BY <1>0, <2>2 DEF Settled, HoldingOf, ReadPopularity
    <3>2. entities[draft[p].name].stars \in Nat
      BY <3>1 DEF Stored, TypeOK, Row
    <3>3. /\ [draft[p] EXCEPT !.popularity = entities[draft[p].name].stars] \in Draft
          /\ [draft[p] EXCEPT !.popularity = entities[draft[p].name].stars].name = draft[p].name
      BY <3>1, <3>2 DEF Draft
    <3>4. draft' = [draft EXCEPT ![p] = [draft[p] EXCEPT !.popularity = entities[draft[p].name].stars]]
      BY <2>2 DEF ReadPopularity, TypeOK
    <3> QED
      BY <3>1, <3>3, <3>4 DEF TypeOK
  <2> QED
    BY <2>1, <2>2
<1>2. TypeOK'
  BY <1>1 DEF ReadSignals, ReadPopularity, TypeOK, Steps
<1>3. OthersStay(p) /\ Stored' = Stored
  BY <1>1 DEF ReadSignals, ReadPopularity, TypeOK, OthersStay, Stored
<1>4. ControlOf(p)'
  BY <1>0 DEF ReadSignals, ReadPopularity, TypeOK, Settled, ControlOf
<1>5. HoldingOf(p)'
  BY <1>0, <1>1, <1>3 DEF ReadSignals, ReadPopularity, TypeOK, Settled, HoldingOf, OnePerName
<1> QED
  BY <1>2, <1>3, <1>4, <1>5 DEF Moves, Settled

(* The loop of the score program goes on: saved, skipped or failed.        *)
LEMMA DoneMoves ==
  ASSUME Typed, NEW p \in Procs, NEW n \in Names, Done(p, n),
         step[p] \in {"pick", "popularity", "save"},
         scores' \in [Names -> Score \cup {NoScore}],
         faults' \in 0 .. MaxFaults, alone' \in [Procs -> BOOLEAN],
         UNCHANGED <<entities, log, prog, launch, fetching, world, launched, wrote, settled>>
  PROVE  Moves(p)
<1> USE DEF Typed, Done, fetching
<1>0. Settled(p)
  OBVIOUS
<1>1. TypeOK'
  BY DEF TypeOK, Steps
<1>2. OthersStay(p) /\ Stored' = Stored
  BY DEF TypeOK, OthersStay, Stored
<1>3. ControlOf(p)'
  BY <1>0 DEF TypeOK, Settled, ControlOf
<1>4. HoldingOf(p)'
  BY <1>0, <1>2 DEF TypeOK, Settled, HoldingOf, OnePerName
<1> QED
  BY <1>1, <1>2, <1>3, <1>4 DEF Moves, Settled

LEMMA LoopMoves ==
  ASSUME Typed, NEW p \in Procs,
         (\E n \in Names : SkipUnpushed(p, n)) \/ SaveScore(p) \/ ScoreFails(p)
  PROVE  Moves(p)
<1> USE DEF tables, outside, history
<1>0. Settled(p) /\ TypeOK
  BY DEF Typed
<1>1. ASSUME NEW n \in Names, SkipUnpushed(p, n) PROVE Moves(p)
  BY <1>0, <1>1, DoneMoves DEF SkipUnpushed, TypeOK
<1>2. ASSUME step[p] \in {"popularity", "save"} PROVE draft[p] \in Draft /\ draft[p].name \in Names
  BY <1>0, <1>2 DEF Settled, HoldingOf, Stored
<1>3. CASE SaveScore(p)
  <2>1. draft[p] \in Draft /\ draft[p].name \in Names
    BY <1>2, <1>3 DEF SaveScore
  <2>2. scores' \in [Names -> Score \cup {NoScore}]
    BY <1>0, <1>3, <2>1 DEF SaveScore, TypeOK, Draft, Score
  <2> QED
    BY <1>0, <1>3, <2>1, <2>2, DoneMoves DEF SaveScore, TypeOK
<1>4. CASE ScoreFails(p)
  <2>1. draft[p].name \in Names
    BY <1>2, <1>4 DEF ScoreFails
  <2>2. faults' \in 0 .. MaxFaults
    BY <1>0, <1>4, IngestAssumption DEF ScoreFails, TypeOK
  <2> QED
    BY <1>0, <1>4, <2>1, <2>2, DoneMoves DEF ScoreFails, TypeOK
<1> QED
  BY <1>1, <1>3, <1>4

LEMMA FinishScoreMoves ==
  ASSUME Typed, NEW p \in Procs, FinishScore(p)
  PROVE  Moves(p)
<1>1. p \in Busy /\ TypeOK
  BY DEF Typed, Settled, ControlOf, FinishScore, Busy, Programs, TypeOK
<1> QED
  BY <1>1, ExitMoves DEF FinishScore, tables, outside, TypeOK

(* Ends that nobody asked for.                                             *)
LEMMA FaultMoves ==
  ASSUME Typed, NEW p \in Procs, Abort(p) \/ (p = Timer /\ StopUnit)
  PROVE  Moves(p)
<1> USE DEF tables
<1>0. TypeOK /\ (faults < MaxFaults => faults + 1 \in 0 .. MaxFaults)
  BY IngestAssumption DEF Typed, TypeOK
<1>1. CASE Abort(p)
  BY <1>0, <1>1, ExitMoves DEF Abort, TypeOK
<1>2. CASE p = Timer /\ StopUnit
  BY <1>0, <1>2, EndMoves DEF StopUnit, TypeOK
<1> QED
  BY <1>1, <1>2

LEMMA GitHubMovesTyped ==
  ASSUME Typed, GitHubMoves
  PROVE  Typed'
<1> USE DEF GitHubMoves, tables, fetching, scoring, history
<1>1. TypeOK'
  BY DEF Typed, TypeOK
<1>2. ASSUME NEW p \in Procs PROVE Settled(p)'
  BY DEF Typed, Settled, ControlOf, HoldingOf, OnePerName, Stored
<1> QED
  BY <1>1, <1>2 DEF Typed

LEMMA NextMoves ==
  ASSUME Typed, Next
  PROVE  GitHubMoves \/ \E p \in Procs : Moves(p)
<1>1. ASSUME NEW p \in Procs, Proceed(p) PROVE Moves(p)
  BY <1>1, OpenCollectorMoves, SearchMoves, SearchFailsMoves, StoreMoves, ReportMoves,
     OpenScoreMoves, ReadMoves, LoopMoves, FinishScoreMoves DEF Proceed
<1>2. Timer \in Procs
  BY DEF Procs
<1> QED
  BY <1>1, <1>2, FaultMoves, StoreFailsMoves, LoopMoves, StartMoves DEF Next

LEMMA NextTyped ==
  ASSUME Typed, [Next]_vars
  PROVE  Typed'
<1>1. CASE Next
  BY <1>1, NextMoves, MovesTyped, GitHubMovesTyped
<1>2. CASE UNCHANGED vars
  BY <1>2 DEF Typed, TypeOK, Settled, ControlOf, HoldingOf, OnePerName, Stored, vars
<1> QED
  BY <1>1, <1>2

LEMMA AlwaysTyped == Spec => []Typed
BY InitTyped, NextTyped, PTL DEF Spec

(***************************************************************************)
(* The tables and every process's memory hold what they should, for any    *)
(* number of processes, repositories and faults.                           *)
(***************************************************************************)
THEOREM TypeCorrect == Spec => []TypeOK
BY AlwaysTyped, PTL DEF Typed

------------------------------------------------------------------------------
(***************************************************************************)
(* The run log.  A launch belongs to one process at a time, and the runs   *)
(* it may still make have neither written nor reported, except the one     *)
(* that has committed and not reported yet.                                *)
(***************************************************************************)
Coming(program) == CASE program = "github" -> Collectors
                     [] program = "depsdev" -> {"depsdev"}
                     [] OTHER -> {}

Committed(p, c) ==
  IF c = prog[p] /\ outcome[p] = "stored" THEN Cardinality(NamesIn(batch[p])) ELSE 0

AheadOf(p) ==
  \A c \in Coming(prog[p]) :
    log[<<launch[p], c>>] = NoReport /\ wrote[<<launch[p], c>>] = Committed(p, c)

LaunchesApart ==
  /\ \A p \in Busy : launch[p] \in 1 .. launched
  /\ \A p, q \in Busy : p # q => launch[p] # launch[q]

Unmade ==
  \A l \in Launches, c \in Collectors :
    l > launched => log[<<l, c>>] = NoReport /\ wrote[<<l, c>>] = 0

Books == LaunchesApart /\ Unmade /\ LogHonest /\ \A p \in Busy : AheadOf(p)

LEMMA InitBooks == Init => Books
BY DEF Init, Books, LaunchesApart, Unmade, LogHonest, Busy, Runs

(* A step of p only touches the books of its own launch.                   *)
OwnBooks(p) ==
  /\ p \in Busy /\ OthersStay(p) /\ launched' = launched
  /\ prog'[p] # "idle" => launch'[p] = launch[p] /\ AheadOf(p)'
  /\ \A r \in Runs : r[1] # launch[p] => log'[r] = log[r] /\ wrote'[r] = wrote[r]
  /\ LogHonest'

LEMMA OwnBooksKept ==
  ASSUME Typed, Books, NEW p \in Procs, OwnBooks(p)
  PROVE  Books'
<1> USE DEF Books, OwnBooks, OthersStay
<1>0. Busy' \subseteq Busy
  BY DEF Busy
<1>1. LaunchesApart'
  BY <1>0 DEF LaunchesApart, Busy
<1>2. Unmade'
  <2> SUFFICES ASSUME NEW l \in Launches, NEW c \in Collectors, l > launched
               PROVE  log'[<<l, c>>] = NoReport /\ wrote'[<<l, c>>] = 0
    BY DEF Unmade
  <2>1. l # launch[p]
    BY IngestAssumption DEF LaunchesApart, Launches, Typed, TypeOK
  <2> QED
    BY <2>1 DEF Unmade, Runs
<1>3. ASSUME NEW q \in Busy' PROVE AheadOf(q)'
  <2>1. CASE q = p
    BY <2>1 DEF Busy
  <2>2. CASE q # p
    <3>1. q \in Busy /\ launch[q] # launch[p] /\ launch[q] \in Launches
      BY <1>0, <2>2, IngestAssumption DEF LaunchesApart, Launches, Typed, TypeOK
    <3>2. \A c \in Coming(prog[q]) : <<launch[q], c>> \in Runs
      BY <3>1 DEF Coming, Runs, Collectors
    <3>3. \A c : Committed(q, c)' = Committed(q, c)
      BY <2>2, <3>1 DEF Committed, Busy
    <3> QED
      BY <2>2, <3>1, <3>2, <3>3 DEF AheadOf, Busy
  <2> QED
    BY <2>1, <2>2
<1> QED
  BY <1>1, <1>2, <1>3

(* Most steps of a program leave the books alone.                          *)
LEMMA QuietBooks ==
  ASSUME Typed, Books, NEW p \in Busy, OthersStay(p), UNCHANGED <<log, wrote, launched>>,
         prog'[p] = prog[p], launch'[p] = launch[p],
         outcome[p] # "stored", outcome'[p] # "stored"
  PROVE  Books'
<1>1. AheadOf(p)'
  BY DEF Books, AheadOf, Committed
<1>2. LogHonest'
  BY DEF Books, LogHonest
<1> QED
  BY <1>1, <1>2, OwnBooksKept DEF OwnBooks, Busy

(* The next program of the unit has its own run, which is still to come.   *)
LEMMA EndBooks ==
  ASSUME Typed, Books, NEW p \in Busy, Exit(p) \/ (Forget(p) /\ Becomes(p, "idle")),
         UNCHANGED <<wrote, launched>>,
         \A r \in Runs : r # RunOf(p) => log'[r] = log[r],
         LogHonest'
  PROVE  Books'
<1> USE DEF Exit, Forget, Becomes
<1>0. TypeOK /\ p \in Procs
  BY DEF Typed, Busy
<1>1. OthersStay(p)
  BY <1>0 DEF OthersStay, TypeOK
<1>2. prog'[p] # "idle" => prog'[p] = NextProgram(p) /\ launch'[p] = launch[p] /\ outcome'[p] = "pending"
  BY <1>0 DEF TypeOK
<1>3. prog'[p] # "idle" => Coming(prog'[p]) \subseteq Coming(prog[p]) \ {prog[p]}
  BY <1>0, <1>2 DEF NextProgram, Following, Coming, Busy, Programs, Collectors, TypeOK
<1>4. launch[p] \in Launches
  BY <1>0, IngestAssumption DEF Books, LaunchesApart, Launches, TypeOK
<1>5. \A c \in Coming(prog[p]) \ {prog[p]} :
        /\ log'[<<launch[p], c>>] = NoReport
        /\ wrote'[<<launch[p], c>>] = 0
  <2> SUFFICES ASSUME NEW c \in Coming(prog[p]), c # prog[p]
               PROVE  log'[<<launch[p], c>>] = NoReport /\ wrote'[<<launch[p], c>>] = 0
    OBVIOUS
  <2>1. <<launch[p], c>> \in Runs /\ <<launch[p], c>> # RunOf(p)
    BY <1>4 DEF Coming, Runs, Collectors, RunOf
  <2> QED
    BY <2>1 DEF Books, AheadOf, Committed
<1>6. prog'[p] # "idle" => AheadOf(p)'
  BY <1>2, <1>3, <1>5 DEF AheadOf, Committed
<1>7. \A r \in Runs : r[1] # launch[p] => r # RunOf(p)
  BY DEF RunOf
<1> QED
  BY <1>0, <1>1, <1>2, <1>6, <1>7, OwnBooksKept DEF OwnBooks

(* The two steps that write the books.                                     *)
LEMMA AtWork ==
  ASSUME Typed, Books, NEW p \in Procs, step[p] \in {"store", "report"}
  PROVE  /\ p \in Busy /\ prog[p] \in Collectors /\ RunOf(p) \in Runs
         /\ log[RunOf(p)] = NoReport
         /\ wrote[RunOf(p)] = IF outcome[p] = "stored" THEN Cardinality(batch[p]) ELSE 0
         /\ Cardinality(batch[p]) \in Nat
         /\ Cardinality(NamesIn(batch[p])) = Cardinality(batch[p])
         /\ step[p] = "store" => outcome[p] = "pending"
<1>1. Settled(p) /\ TypeOK
  BY DEF Typed
<1>2. prog[p] \in Collectors /\ p \in Busy
  BY <1>1 DEF Settled, ControlOf, Busy, Collectors
<1>3. launch[p] \in Launches
  BY <1>1, <1>2, IngestAssumption DEF Books, LaunchesApart, Launches, TypeOK
<1>4. prog[p] \in Coming(prog[p])
  BY <1>2 DEF Coming, Collectors
<1>5. Cardinality(NamesIn(batch[p])) = Cardinality(batch[p]) /\ Cardinality(batch[p]) \in Nat
  BY <1>1, BatchCount DEF TypeOK, Settled, HoldingOf
<1> QED
  BY <1>1, <1>2, <1>3, <1>4, <1>5 DEF Books, AheadOf, Committed, RunOf, Runs, Settled, ControlOf

LEMMA StoreBooks ==
  ASSUME Typed, Books, NEW p \in Procs, Store(p)
  PROVE  Books'
<1>1. /\ p \in Busy /\ RunOf(p) \in Runs /\ log[RunOf(p)] = NoReport
      /\ outcome[p] = "pending" /\ prog[p] \in Collectors
  BY AtWork DEF Store
<1>2. OthersStay(p)
  BY StoreMoves DEF Moves
<1>3. \A r \in Runs : r # RunOf(p) => wrote'[r] = wrote[r]
  BY DEF Store, Typed, TypeOK
<1>4. AheadOf(p)'
  <2> SUFFICES ASSUME NEW c \in Coming(prog[p])
               PROVE  /\ log[<<launch[p], c>>] = NoReport
                      /\ wrote'[<<launch[p], c>>] = Committed(p, c)'
    BY DEF AheadOf, Store
  <2>1. <<launch[p], c>> \in Runs
    BY <1>1 DEF Coming, Runs, Collectors, RunOf
  <2>2. CASE c = prog[p]
    BY <1>1, <2>1, <2>2 DEF Store, Books, AheadOf, Committed, RunOf, Typed, TypeOK
  <2>3. CASE c # prog[p]
    BY <1>1, <1>3, <2>1, <2>3 DEF Store, Books, AheadOf, Committed, RunOf
  <2> QED
    BY <2>2, <2>3
<1>5. LogHonest'
  BY <1>1, <1>3 DEF Store, Books, LogHonest
<1> QED
  BY <1>1, <1>2, <1>3, <1>4, <1>5, OwnBooksKept DEF OwnBooks, Store, outside, RunOf

LEMMA ReportBooks ==
  ASSUME Typed, Books, NEW p \in Procs, Report(p)
  PROVE  Books'
<1>1. /\ p \in Busy /\ RunOf(p) \in Runs
      /\ wrote[RunOf(p)] = IF outcome[p] = "stored" THEN Cardinality(batch[p]) ELSE 0
      /\ Cardinality(batch[p]) \in Nat
  BY AtWork DEF Report
<1>2. /\ log'[RunOf(p)] = Result(p)
      /\ \A r \in Runs : r # RunOf(p) => log'[r] = log[r]
  BY <1>1 DEF Report, Typed, TypeOK
<1>3. /\ Result(p).upserted = wrote[RunOf(p)]
      /\ Result(p).upserted = IF Result(p).ok THEN Result(p).fetched ELSE 0
  BY <1>1 DEF Result
<1>4. wrote' = wrote /\ launched' = launched /\ Exit(p)
  BY DEF Report, outside
<1>5. LogHonest'
  BY <1>2, <1>3, <1>4 DEF Books, LogHonest
<1> QED
  BY <1>1, <1>2, <1>4, <1>5, EndBooks

LEMMA StartBooks ==
  ASSUME Typed, Books, NEW p \in Procs, NEW program \in Programs, Start(p, program)
  PROVE  Books'
<1> USE DEF Start, tables, fetching, scoring, Books
<1>1. /\ OthersStay(p) /\ Busy' = Busy \cup {p} /\ TypeOK
  <2>1. prog'[p] # "idle"
    BY DEF Typed, TypeOK, Programs, Collectors
  <2> QED
    BY <2>1, StartMoves DEF Moves, OthersStay, Busy, Typed
<1>2. launched \in Nat /\ launched' = launched + 1 /\ launch'[p] = launched + 1 /\ launched + 1 \in Launches
  BY <1>1, IngestAssumption DEF TypeOK, Launches
<1>3. LaunchesApart'
  <2>1. \A q \in Busy : q # p => launch'[q] = launch[q]
    BY <1>1 DEF OthersStay, Busy
  <2>2. p \notin Busy
    OBVIOUS
  <2> QED
    BY <1>1, <1>2, <2>1, <2>2 DEF LaunchesApart, TypeOK, Busy
<1>4. Unmade'
  BY <1>2 DEF Unmade, Launches
<1>5. LogHonest'
  BY DEF LogHonest
<1>6. outcome'[p] = "pending"
  BY <1>1 DEF Typed, Settled, ControlOf, Busy
<1>7. ASSUME NEW q \in Busy' PROVE AheadOf(q)'
  <2>1. CASE q = p
    <3>1. \A c \in Coming(prog'[p]) : c \in Collectors
      BY DEF Coming, Collectors
    <3>2. launched + 1 > launched
      BY <1>2
    <3> QED
      BY <1>2, <1>6, <2>1, <3>1, <3>2 DEF AheadOf, Committed, Unmade
  <2>2. CASE q # p
    BY <1>1, <2>2 DEF AheadOf, Committed, OthersStay, Busy
  <2> QED
    BY <2>1, <2>2
<1> QED
  BY <1>3, <1>4, <1>5, <1>7

LEMMA NextBooks ==
  ASSUME Typed, Books, [Next]_vars
  PROVE  Books'
<1> USE DEF tables, fetching, scoring, outside, history
<1>1. ASSUME NEW p \in Procs,
             \/ OpenCollector(p) \/ SearchFails(p) \/ StoreFails(p)
             \/ \E found \in Searches[search[p]].answers :
                  \E lookup \in [found -> LookupsBy(prog[p])] : Search(p, found, lookup)
             \/ OpenScore(p)
             \/ (\E n \in Names : ReadSignals(p, n)) \/ ReadPopularity(p)
             \/ (\E n \in Names : SkipUnpushed(p, n)) \/ SaveScore(p) \/ ScoreFails(p)
      PROVE  Books'
  <2>1. OthersStay(p) /\ TypeOK /\ Settled(p)
    BY <1>1, OpenCollectorMoves, SearchFailsMoves, StoreFailsMoves, SearchMoves, OpenScoreMoves,
       ReadMoves, LoopMoves DEF Moves, Typed
  <2>2. p \in Busy /\ outcome[p] # "stored"
    BY <1>1, <2>1 DEF Settled, ControlOf, Busy, OpenCollector, Search, SearchFails, StoreFails, OpenScore,
       ReadSignals, ReadPopularity, SkipUnpushed, SaveScore, ScoreFails
  <2>3. outcome'[p] # "stored" /\ prog'[p] = prog[p] /\ launch'[p] = launch[p]
    BY <1>1, <2>1, <2>2 DEF OpenCollector, Search, SearchFails, StoreFails, OpenScore, ReadSignals,
       ReadPopularity, SkipUnpushed, SaveScore, ScoreFails, TypeOK
  <2>4. UNCHANGED <<log, wrote, launched>>
    BY <1>1 DEF OpenCollector, Search, SearchFails, StoreFails, OpenScore, ReadSignals, ReadPopularity,
       SkipUnpushed, SaveScore, ScoreFails
  <2> QED
    BY <2>1, <2>2, <2>3, <2>4, QuietBooks
<1>2. ASSUME NEW p \in Procs, Abort(p) \/ FinishScore(p) \/ (p = Timer /\ StopUnit)
      PROVE  Books'
  <2>1. p \in Busy
    BY <1>2 DEF Abort, StopUnit, FinishScore, Typed, Settled, ControlOf, Busy
  <2>2. (Exit(p) \/ (Forget(p) /\ Becomes(p, "idle"))) /\ UNCHANGED <<wrote, launched, log>>
    BY <1>2 DEF Abort, StopUnit, FinishScore
  <2>3. LogHonest'
    BY <2>2 DEF Books, LogHonest
  <2> QED
    BY <2>1, <2>2, <2>3, EndBooks
<1>3. CASE GitHubMoves \/ UNCHANGED vars
  BY <1>3 DEF GitHubMoves, vars, Books, LaunchesApart, Unmade, LogHonest, AheadOf, Committed, Busy
<1>4. Timer \in Procs
  BY DEF Procs
<1> QED
  BY <1>1, <1>2, <1>3, <1>4, StoreBooks, ReportBooks, StartBooks DEF Next, Proceed

LEMMA AlwaysBooks == Spec => [](Typed /\ Books)
BY InitTyped, NextTyped, InitBooks, NextBooks, PTL DEF Spec

(***************************************************************************)
(* Every collector_runs row says what its run did to the entities, for any *)
(* number of collectors at once, failed attempts, rollbacks and kills.     *)
(***************************************************************************)
THEOREM LogIsHonest == Spec => []LogHonest
BY AlwaysBooks, PTL DEF Books

------------------------------------------------------------------------------
(***************************************************************************)
(* Refinement: a commit publishes, a log row reports, all else stutters.   *)
(***************************************************************************)
LEMMA InitCatalog == Init => Published!Init
BY DEF Init, Published!Init, CatalogReport

LEMMA StorePublishes ==
  ASSUME Typed, Books, NEW p \in Procs, Store(p)
  PROVE  Published!Publish(RunOf(p))
<1>1. /\ RunOf(p) \in Runs /\ log[RunOf(p)] = NoReport /\ wrote[RunOf(p)] = 0
  BY AtWork DEF Store
<1>2. CatalogReport[RunOf(p)] = NoReport /\ CatalogReport' = CatalogReport
  BY <1>1 DEF CatalogReport, Store
<1>3. TypeOK /\ TypeOK'
  BY StoreMoves DEF Moves, Typed
<1>4. NamesIn(batch[p]) \in SUBSET Names
  BY <1>3 DEF NamesIn, TypeOK, Item
<1>5. \A n \in Names : IF n \in NamesIn(batch[p]) THEN entities'[n] \in Row
                                                 ELSE entities'[n] = entities[n]
  BY StoredRows
<1>6. wrote' = [wrote EXCEPT ![RunOf(p)] = Cardinality(NamesIn(batch[p]))]
  BY DEF Store
<1>7. entities' \in [Names -> Row \cup {NoRow}]
  BY <1>3 DEF TypeOK
<1>8. \E written \in SUBSET Names :
        /\ \A n \in Names : IF n \in written THEN entities'[n] \in Row
                                              ELSE entities'[n] = entities[n]
        /\ wrote' = [wrote EXCEPT ![RunOf(p)] = Published!Cardinality(written)]
  <2>1. Cardinality(NamesIn(batch[p])) = Published!Cardinality(NamesIn(batch[p]))
    BY DEF Cardinality, Published!Cardinality
  <2> WITNESS NamesIn(batch[p]) \in SUBSET Names
  <2> QED
    BY <1>5, <1>6, <2>1
<1> QED
  BY <1>1, <1>2, <1>7, <1>8 DEF Published!Publish

LEMMA ReportReports ==
  ASSUME Typed, Books, NEW p \in Procs, Report(p)
  PROVE  Published!Report(RunOf(p))
<1>1. /\ RunOf(p) \in Runs /\ log[RunOf(p)] = NoReport
      /\ wrote[RunOf(p)] = IF outcome[p] = "stored" THEN Cardinality(batch[p]) ELSE 0
  BY AtWork DEF Report
<1>2. log' = [log EXCEPT ![RunOf(p)] = Result(p)] /\ UNCHANGED <<entities, wrote>>
  BY DEF Report
<1>3. Result(p) \in LogRow /\ Result(p) # NoReport /\ Result(p).upserted = wrote[RunOf(p)]
  BY <1>1, ResultTyped, IngestSentinels DEF Result
<1>4. CatalogReport[RunOf(p)] = NoReport
  BY <1>1 DEF CatalogReport
<1>5. CatalogReport' = [CatalogReport EXCEPT ![RunOf(p)] = wrote[RunOf(p)]]
  <2>1. \A r \in Runs : log'[r] = IF r = RunOf(p) THEN Result(p) ELSE log[r]
    BY <1>2 DEF Typed, TypeOK
  <2> QED
    BY <1>3, <2>1 DEF CatalogReport
<1> QED
  BY <1>2, <1>4, <1>5 DEF Published!Report

(***************************************************************************)
(* run_collector implements Catalog: whatever fails, is retried, rolled    *)
(* back or killed, a run publishes its batch whole and at most once, and   *)
(* what it reports afterwards is what it published.                        *)
(***************************************************************************)
THEOREM RunsImplementCatalog == Spec => ImplementsCatalog
<1>1. ASSUME Typed, Books, [Next]_vars
      PROVE  [Published!Next]_(Published!vars)
  <2> USE <1>1
  <2>1. ASSUME NEW p \in Procs, Store(p) PROVE Published!Next
    BY <2>1, StorePublishes, AtWork DEF Published!Next, Store
  <2>2. ASSUME NEW p \in Procs, Report(p) PROVE Published!Next
    BY <2>2, ReportReports, AtWork DEF Published!Next, Report
  <2>3. CASE ~\E p \in Procs : Store(p) \/ Report(p)
    <3>1. UNCHANGED <<entities, wrote, log>>
      BY <2>3 DEF Next, Proceed, OpenCollector, Search, SearchFails, StoreFails, OpenScore, ReadSignals,
         ReadPopularity, SkipUnpushed, SaveScore, ScoreFails, FinishScore, Abort, StopUnit, Start,
         GitHubMoves, tables, history, vars
    <3> QED
      BY <3>1 DEF Published!vars, CatalogReport
  <2> QED
    BY <2>1, <2>2, <2>3
<1> QED
  BY <1>1, InitCatalog, AlwaysBooks, PTL DEF Spec, ImplementsCatalog, Published!Spec

(* The account of a run is closed by its report: of what the run publishes *)
(* and says it has published, nothing changes once it has reported, and    *)
(* rows are published once.  A property of Catalog, and so of the runtime. *)
AccountsClose ==
  [][\A r \in Runs :
       /\ log[r] # NoReport => wrote'[r] = wrote[r] /\ CatalogReport'[r] = CatalogReport[r]
       /\ wrote[r] # 0 => wrote'[r] = wrote[r]]_(Published!vars)

THEOREM ReportsAreFinal == Spec => AccountsClose
<1> DEFINE Closed(r) ==
             /\ log[r] # NoReport => wrote'[r] = wrote[r] /\ CatalogReport'[r] = CatalogReport[r]
             /\ wrote[r] # 0 => wrote'[r] = wrote[r]
<1>1. TypeOK => \A r \in Runs : log[r] # NoReport => CatalogReport[r] # NoReport
  BY IngestSentinels DEF TypeOK, LogRow, CatalogReport
<1>2. TypeOK => wrote \in [Runs -> Nat] /\ CatalogReport = [r \in Runs |-> CatalogReport[r]]
  BY DEF TypeOK, CatalogReport
<1>3. ASSUME TypeOK, NEW q \in Runs, Published!Publish(q), NEW r \in Runs
      PROVE  Closed(r)
  BY <1>1, <1>2, <1>3 DEF Published!Publish
<1>4. ASSUME TypeOK, NEW q \in Runs, Published!Report(q), NEW r \in Runs
      PROVE  Closed(r)
  <2>1. CatalogReport' = [CatalogReport EXCEPT ![q] = wrote[q]] /\ CatalogReport[q] = NoReport
    BY <1>4 DEF Published!Report
  <2>2. wrote' = wrote
    BY <1>4 DEF Published!Report
  <2>3. log[r] # NoReport => r # q
    BY <1>1, <1>4, <2>1
  <2> QED
    BY <1>2, <1>4, <2>1, <2>2, <2>3
<1>5. TypeOK /\ [Published!Next]_(Published!vars) => [\A r \in Runs : Closed(r)]_(Published!vars)
  BY <1>3, <1>4 DEF Published!Next
<1> QED
  BY <1>5, RunsImplementCatalog, TypeCorrect, PTL DEF ImplementsCatalog, Published!Spec, AccountsClose

------------------------------------------------------------------------------
(***************************************************************************)
(* Programs that run alone.  Nobody else is running then, so only a step   *)
(* of the program itself can change what it has read.                      *)
(***************************************************************************)
AloneMeansAlone == \A p \in Procs : alone[p] => Busy = {p}

Acts(p) == Proceed(p) \/ Abort(p) \/ StoreFails(p) \/ ScoreFails(p) \/ (p = Timer /\ StopUnit)

LEMMA NextCases ==
  ASSUME [Next]_vars
  PROVE  \/ \E p \in Procs : Acts(p)
         \/ \E p \in Procs, program \in Programs : Start(p, program)
         \/ GitHubMoves
         \/ UNCHANGED vars
BY DEF Next, Acts, Procs

LEMMA ActsBusy ==
  ASSUME Typed, NEW p \in Procs, Acts(p)
  PROVE  p \in Busy
<1>1. step[p] # "idle"
  BY DEF Acts, Proceed, OpenCollector, Search, SearchFails, Store, StoreFails, Report, OpenScore, ReadSignals,
     SkipUnpushed, ReadPopularity, SaveScore, ScoreFails, FinishScore, Abort, StopUnit, Typed, Settled,
     ControlOf, Busy
<1> QED
  BY <1>1 DEF Typed, Settled, ControlOf, Busy

LEMMA ActsMoves ==
  ASSUME Typed, NEW p \in Procs, Acts(p)
  PROVE  Moves(p)
BY OpenCollectorMoves, SearchMoves, SearchFailsMoves, StoreMoves, ReportMoves, OpenScoreMoves, ReadMoves,
   LoopMoves, FinishScoreMoves, FaultMoves, StoreFailsMoves DEF Acts, Proceed

(* Either the program ends, or it keeps its place and its companions.      *)
LEMMA ActsAlone ==
  ASSUME Typed, AloneMeansAlone, NEW p \in Procs, Acts(p)
  PROVE  /\ \A q \in Procs : alone'[q] => q = p /\ Busy' = {p}
         /\ alone'[p] => prog'[p] = prog[p] /\ (alone[p] \/ step[p] = "open")
<1>0. TypeOK /\ p \in Busy /\ OthersStay(p)
  BY ActsBusy, ActsMoves DEF Typed, Moves
<1>1. ASSUME NEW q \in Procs, q # p PROVE ~alone'[q]
  <2>1. alone'[q] = alone[q]
    BY <1>0, <1>1 DEF Acts, Proceed, OpenCollector, Search, SearchFails, Store, StoreFails, Report, OpenScore,
       ReadSignals, SkipUnpushed, ReadPopularity, SaveScore, ScoreFails, FinishScore, Abort, StopUnit,
       Exit, Forget, OpensAlone, history, TypeOK
  <2> QED
    BY <1>0, <1>1, <2>1 DEF AloneMeansAlone
<1>2. CASE \/ Report(p) \/ FinishScore(p) \/ Abort(p) \/ (p = Timer /\ StopUnit) \/ ScoreFails(p)
  <2>1. ~alone'[p]
    BY <1>0, <1>2 DEF Report, FinishScore, Abort, StopUnit, ScoreFails, Exit, Forget, TypeOK
  <2> QED
    BY <1>1, <2>1
<1>3. CASE OpenCollector(p) \/ OpenScore(p)
  <2>1. prog' = prog /\ (alone'[p] => Busy = {p}) /\ step[p] = "open"
    BY <1>0, <1>3 DEF OpenCollector, OpenScore, OpensAlone, TypeOK
  <2> QED
    BY <1>1, <2>1 DEF Busy
<1>4. CASE \/ (\E found \in Searches[search[p]].answers :
                 \E lookup \in [found -> LookupsBy(prog[p])] : Search(p, found, lookup))
           \/ SearchFails(p) \/ Store(p) \/ StoreFails(p)
           \/ (\E n \in Names : ReadSignals(p, n) \/ SkipUnpushed(p, n))
           \/ ReadPopularity(p) \/ SaveScore(p)
  <2>1. prog' = prog /\ alone' = alone
    BY <1>4 DEF Search, SearchFails, Store, StoreFails, ReadSignals, SkipUnpushed, ReadPopularity, SaveScore,
       history
  <2> QED
    BY <1>1, <2>1 DEF Busy, AloneMeansAlone
<1> QED
  BY <1>2, <1>3, <1>4 DEF Acts, Proceed

LEMMA NextAlone ==
  ASSUME Typed, AloneMeansAlone, [Next]_vars
  PROVE  AloneMeansAlone'
<1>1. ASSUME NEW p \in Procs, Acts(p) PROVE AloneMeansAlone'
  BY <1>1, ActsAlone DEF AloneMeansAlone
<1>2. ASSUME NEW p \in Procs, NEW program \in Programs, Start(p, program) PROVE AloneMeansAlone'
  BY <1>2 DEF Start, AloneMeansAlone
<1>3. CASE GitHubMoves \/ UNCHANGED vars
  BY <1>3 DEF GitHubMoves, history, vars, AloneMeansAlone, Busy
<1> QED
  BY <1>1, <1>2, <1>3, NextCases

------------------------------------------------------------------------------
(***************************************************************************)
(* What a collector that runs alone has fetched is as new as all that is   *)
(* stored.                                                                 *)
(***************************************************************************)
Known ==
  /\ \A n \in Stored : entities[n].stars <= world
  /\ \A p \in Procs : \A i \in batch[p] : i.row.stars <= world

NewerBatch(p) ==
  alone[p] /\ step[p] \in {"fetch", "store"} =>
    \A n \in Stored : \A i \in batch[p] : entities[n].stars <= i.row.stars

Ages == AloneMeansAlone /\ Known /\ \A p \in Procs : NewerBatch(p)

LEMMA InitAges == Init => Ages
BY DEF Init, Ages, AloneMeansAlone, Known, NewerBatch, Stored

LEMMA ActsKnown ==
  ASSUME Typed, Known, NEW p \in Procs, Acts(p)
  PROVE  Known'
<1>0. TypeOK /\ OthersStay(p) /\ world' = world
  BY ActsMoves DEF Typed, Moves, Acts, Proceed, OpenCollector, Search, SearchFails, Store, StoreFails, Report,
     OpenScore, ReadSignals, SkipUnpushed, ReadPopularity, SaveScore, ScoreFails, FinishScore, Abort,
     StopUnit, outside
<1>1. \A i \in batch'[p] : i.row.stars <= world
  <2>1. CASE \E found \in Searches[search[p]].answers :
               \E lookup \in [found -> LookupsBy(prog[p])] : Search(p, found, lookup)
    <3>1. PICK found \in Searches[search[p]].answers :
               \E lookup \in [found -> LookupsBy(prog[p])] : Search(p, found, lookup)
      BY <2>1
    <3>2. PICK lookup \in [found -> LookupsBy(prog[p])] : Search(p, found, lookup)
      BY <3>1
    <3>3. batch'[p] = batch[p] \cup Mapped(p, found, lookup)
      BY <1>0, <3>2 DEF Search, TypeOK
    <3>4. \A i \in Mapped(p, found, lookup) : i.row.stars = world
      BY DEF Mapped
    <3> QED
      BY <1>0, <3>3, <3>4 DEF Known, TypeOK
  <2>2. CASE ~\E found \in Searches[search[p]].answers :
                \E lookup \in [found -> LookupsBy(prog[p])] : Search(p, found, lookup)
    <3>1. batch'[p] \in {batch[p], {}}
      BY <1>0, <2>2 DEF Acts, Proceed, OpenCollector, SearchFails, Store, StoreFails, Report, OpenScore,
         ReadSignals, SkipUnpushed, ReadPopularity, SaveScore, ScoreFails, FinishScore, Abort, StopUnit,
         Exit, Forget, fetching, TypeOK
    <3> QED
      BY <3>1 DEF Known
  <2> QED
    BY <2>1, <2>2
<1>2. \A n \in Stored' : entities'[n].stars <= world
  <2>1. CASE Store(p)
    BY <2>1, StoredRows DEF Known, Stored, Typed
  <2>2. CASE ~Store(p)
    <3>1. entities' = entities
      BY <2>2 DEF Acts, Proceed, OpenCollector, Search, SearchFails, StoreFails, Report, OpenScore, ReadSignals,
         SkipUnpushed, ReadPopularity, SaveScore, ScoreFails, FinishScore, Abort, StopUnit, tables
    <3> QED
      BY <3>1 DEF Known, Stored
  <2> QED
    BY <2>1, <2>2
<1> QED
  BY <1>0, <1>1, <1>2 DEF Known, OthersStay

(* The collector itself: it opens with nothing, and fetches what is known. *)
LEMMA ActsNewer ==
  ASSUME Typed, Ages, NEW p \in Procs, Acts(p)
  PROVE  NewerBatch(p)'
<1> SUFFICES ASSUME alone'[p], step'[p] \in {"fetch", "store"}, NEW n \in Stored', NEW i \in batch'[p]
             PROVE  entities'[n].stars <= i.row.stars
  BY DEF NewerBatch
<1> DEFINE searches == \E found \in Searches[search[p]].answers :
                         \E lookup \in [found -> LookupsBy(prog[p])] : Search(p, found, lookup)
<1>0. TypeOK /\ Settled(p) /\ HoldingOf(p) /\ ControlOf(p)
  BY DEF Typed, Settled
<1>1. OpenCollector(p) \/ searches \/ SearchFails(p)
  BY <1>0 DEF Acts, Proceed, OpenCollector, SearchFails, Store, StoreFails, Report, OpenScore, ReadSignals,
     SkipUnpushed, ReadPopularity, SaveScore, ScoreFails, FinishScore, Abort, StopUnit, Exit, Forget,
     Becomes, Done, TypeOK
<1>2. batch'[p] = {} \/ searches
  BY <1>0, <1>1 DEF OpenCollector, SearchFails, HoldingOf, fetching, TypeOK
<1>3. PICK found \in Searches[search[p]].answers :
             \E lookup \in [found -> LookupsBy(prog[p])] : Search(p, found, lookup)
  BY <1>2
<1>4. PICK lookup \in [found -> LookupsBy(prog[p])] : Search(p, found, lookup)
  BY <1>3
<1>5. /\ batch'[p] = batch[p] \cup Mapped(p, found, lookup)
      /\ entities' = entities /\ alone[p] /\ step[p] = "fetch"
  BY <1>0, <1>4 DEF Search, tables, history, TypeOK
<1>6. CASE i \in batch[p]
  BY <1>5, <1>6 DEF Ages, NewerBatch, Stored
<1>7. CASE i \in Mapped(p, found, lookup)
  <2>1. i.row.stars = world
    BY <1>7 DEF Mapped
  <2> QED
    BY <1>5, <2>1 DEF Ages, Known, Stored
<1> QED
  BY <1>5, <1>6, <1>7

LEMMA NextAges ==
  ASSUME Typed, Ages, [Next]_vars
  PROVE  Ages'
<1>0. AloneMeansAlone'
  BY NextAlone DEF Ages
<1>1. ASSUME NEW p \in Procs, Acts(p) PROVE Ages'
  <2>1. Known'
    BY <1>1, ActsKnown DEF Ages
  <2>2. NewerBatch(p)'
    BY <1>1, ActsNewer
  <2>3. ASSUME NEW q \in Procs, q # p PROVE NewerBatch(q)'
    BY <1>1, <2>3, ActsAlone DEF Ages, NewerBatch
  <2> QED
    BY <1>0, <2>1, <2>2, <2>3 DEF Ages
<1>2. ASSUME NEW p \in Procs, NEW program \in Programs, Start(p, program) PROVE Ages'
  BY <1>0, <1>2 DEF Ages, Start, Known, NewerBatch, Stored, tables, fetching
<1>3. CASE GitHubMoves
  <2>1. world \in Nat /\ world' = world + 1 /\ UNCHANGED <<entities, batch, step, alone>>
    BY <1>3 DEF GitHubMoves, tables, fetching, history, Typed, TypeOK
  <2>2. \A n \in Stored : entities[n].stars \in Nat
    BY DEF Typed, TypeOK, Stored, Row
  <2>3. \A p \in Procs : \A i \in batch[p] : i.row.stars \in Nat
    BY DEF Typed, TypeOK, Item, Row
  <2>4. Known'
    BY <2>1, <2>2, <2>3 DEF Ages, Known, Stored
  <2> QED
    BY <1>0, <2>1, <2>4 DEF Ages, NewerBatch, Stored
<1>4. CASE UNCHANGED vars
  BY <1>0, <1>4 DEF vars, Ages, Known, NewerBatch, Stored
<1> QED
  BY <1>1, <1>2, <1>3, <1>4, NextCases

LEMMA AlwaysAges == Spec => [](Typed /\ Ages)
BY InitTyped, NextTyped, InitAges, NextAges, PTL DEF Spec

(***************************************************************************)
(* What a program has collected carries the deps.dev keys exactly if the   *)
(* program is the depsdev collector: a batch never outlives its program.   *)
(***************************************************************************)
OwnKeys(p) == \A i \in batch[p] : i.row.lookup = "absent" <=> prog[p] = "github"

ProperKeys == \A p \in Procs : OwnKeys(p)

LEMMA InitKeys == Init => ProperKeys
BY DEF Init, ProperKeys, OwnKeys

LEMMA MappedKeys ==
  ASSUME NEW p \in Procs, prog[p] \in Collectors, NEW found, NEW lookup \in [found -> LookupsBy(prog[p])],
         NEW i \in Mapped(p, found, lookup)
  PROVE  i.row.lookup = "absent" <=> prog[p] = "github"
<1>1. PICK n \in found : i.row.lookup = lookup[n]
  BY DEF Mapped, Fresh
<1>2. "absent" \notin Lookups
  BY IngestAssumption DEF LookupOutcomes
<1> QED
  BY <1>1, <1>2 DEF LookupsBy, Collectors

LEMMA ActsKeys ==
  ASSUME Typed, NEW p \in Procs, OwnKeys(p), Acts(p)
  PROVE  OwnKeys(p)'
<1>0. TypeOK /\ ControlOf(p) /\ HoldingOf(p)
  BY DEF Typed, Settled
<1>1. CASE \E found \in Searches[search[p]].answers :
             \E lookup \in [found -> LookupsBy(prog[p])] : Search(p, found, lookup)
  <2>1. PICK found \in Searches[search[p]].answers :
             \E lookup \in [found -> LookupsBy(prog[p])] : Search(p, found, lookup)
    BY <1>1
  <2>2. PICK lookup \in [found -> LookupsBy(prog[p])] : Search(p, found, lookup)
    BY <2>1
  <2>3. /\ batch'[p] = batch[p] \cup Mapped(p, found, lookup)
        /\ prog'[p] = prog[p] /\ prog[p] \in Collectors
    BY <1>0, <2>2 DEF Search, TypeOK, ControlOf
  <2> QED
    BY <2>3, MappedKeys DEF OwnKeys
<1>2. CASE ~\E found \in Searches[search[p]].answers :
              \E lookup \in [found -> LookupsBy(prog[p])] : Search(p, found, lookup)
  <2>1. batch'[p] = {} \/ (batch'[p] = batch[p] /\ prog'[p] = prog[p])
    BY <1>0, <1>2 DEF Acts, Proceed, OpenCollector, SearchFails, Store, StoreFails, Report, OpenScore,
       ReadSignals, SkipUnpushed, ReadPopularity, SaveScore, ScoreFails, FinishScore, Abort, StopUnit,
       Exit, Forget, fetching, TypeOK
  <2> QED
    BY <2>1 DEF OwnKeys
<1> QED
  BY <1>1, <1>2

LEMMA NextKeys ==
  ASSUME Typed, ProperKeys, [Next]_vars
  PROVE  ProperKeys'
<1>1. ASSUME NEW p \in Procs, Acts(p) PROVE ProperKeys'
  <2>1. OwnKeys(p)' /\ OthersStay(p)
    BY <1>1, ActsKeys, ActsMoves DEF ProperKeys, Moves
  <2> QED
    BY <2>1 DEF ProperKeys, OwnKeys, OthersStay
<1>2. ASSUME NEW p \in Procs, NEW program \in Programs, Start(p, program) PROVE ProperKeys'
  <2>1. batch' = batch /\ batch[p] = {}
    BY <1>2 DEF Start, fetching, Typed, Settled, ControlOf, HoldingOf, Busy
  <2>2. \A q \in Procs : q # p => prog'[q] = prog[q]
    BY <1>2 DEF Start, Typed, TypeOK
  <2> QED
    BY <2>1, <2>2 DEF ProperKeys, OwnKeys
<1>3. CASE GitHubMoves \/ UNCHANGED vars
  BY <1>3 DEF GitHubMoves, fetching, vars, ProperKeys, OwnKeys
<1> QED
  BY <1>1, <1>2, <1>3, NextCases

(* Only a commit touches the entities table.                               *)
LEMMA OnlyStoreWrites ==
  ASSUME [Next]_vars, entities' # entities
  PROVE  \E p \in Procs : Store(p)
<1>1. ASSUME NEW p \in Procs, Acts(p) PROVE Store(p)
  BY <1>1 DEF Acts, Proceed, OpenCollector, Search, SearchFails, StoreFails, Report, OpenScore, ReadSignals,
     SkipUnpushed, ReadPopularity, SaveScore, ScoreFails, FinishScore, Abort, StopUnit, tables
<1> QED
  BY <1>1, NextCases DEF Start, GitHubMoves, vars, tables

(***************************************************************************)
(* A stored entity stays stored.  It is replaced only by the commit of a   *)
(* collector, by a row with the deps.dev keys exactly if that is the       *)
(* depsdev collector, and by nothing older if that collector runs alone,   *)
(* however often its fetch failed and was made again.                      *)
(***************************************************************************)
THEOREM EntitiesAreRefreshed == Spec => Refreshed
<1> DEFINE properly(n) ==
      Replaced(n) =>
        /\ n \in Stored'
        /\ \E p \in Procs :
             /\ step[p] = "store" /\ outcome'[p] = "stored"
             /\ entities'[n].lookup = "absent" <=> prog[p] = "github"
             /\ alone[p] => entities[n].stars <= entities'[n].stars
<1>1. ASSUME Typed, Ages, ProperKeys, [Next]_vars PROVE \A n \in Names : properly(n)
  <2> SUFFICES ASSUME NEW n \in Names, Replaced(n)
               PROVE  properly(n)
    OBVIOUS
  <2>1. PICK p \in Procs : Store(p)
    BY <1>1, OnlyStoreWrites DEF Replaced
  <2>2. step[p] = "store" /\ outcome'[p] = "stored"
    BY <1>1, <2>1 DEF Store, Typed, TypeOK
  <2>3. n \in NamesIn(batch[p]) /\ n \in Stored
    BY <1>1, <2>1, StoredRows DEF Replaced, Stored
  <2>4. PICK i \in batch[p] : entities'[n] = i.row /\ i.row \in Row
    BY <1>1, <2>1, <2>3, StoredRows
  <2>5. n \in Stored'
    BY <2>4, IngestSentinels DEF Stored
  <2>6. entities'[n].lookup = "absent" <=> prog[p] = "github"
    BY <1>1, <2>4 DEF ProperKeys, OwnKeys
  <2>7. alone[p] => entities[n].stars <= entities'[n].stars
    BY <1>1, <2>2, <2>3, <2>4 DEF Ages, NewerBatch
  <2> QED
    BY <2>2, <2>5, <2>6, <2>7
<1>2. ASSUME Typed, Ages, ProperKeys, [Next]_vars PROVE [\A n \in Names : properly(n)]_vars
  BY <1>1, <1>2
<1> QED
  BY <1>2, AlwaysAges, InitKeys, NextKeys, PTL DEF Spec, Refreshed

------------------------------------------------------------------------------
(***************************************************************************)
(* A score program that runs alone: what is no longer to do is current,    *)
(* and what it has read of the entity in hand is what is stored.           *)
(***************************************************************************)
CurrentScore(n) == scores[n] = [signals |-> entities[n].stars, popularity |-> entities[n].stars]

UpToDate(p) ==
  alone[p] /\ step[p] \in {"pick", "popularity", "save"} =>
    /\ \A n \in (Stored \ Unpushed) \ todo[p] : CurrentScore(n)
    /\ step[p] \in {"popularity", "save"} => draft[p].signals = entities[draft[p].name].stars
    /\ step[p] = "save" => draft[p].popularity = entities[draft[p].name].stars

QuietWhenSettled == settled => Busy = {}

Scored == AloneMeansAlone /\ QuietWhenSettled /\ ScoresCurrent /\ \A p \in Procs : UpToDate(p)

LEMMA InitScored == Init => Scored
BY DEF Init, Scored, AloneMeansAlone, QuietWhenSettled, ScoresCurrent, UpToDate

LEMMA ActsUpToDate ==
  ASSUME Typed, Scored, NEW p \in Procs, Acts(p)
  PROVE  UpToDate(p)'
<1> SUFFICES ASSUME alone'[p], step'[p] \in {"pick", "popularity", "save"}
             PROVE  /\ \A n \in (Stored' \ Unpushed) \ todo'[p] : CurrentScore(n)'
                    /\ step'[p] \in {"popularity", "save"} => draft'[p].signals = entities'[draft'[p].name].stars
                    /\ step'[p] = "save" => draft'[p].popularity = entities'[draft'[p].name].stars
  BY DEF UpToDate
<1> USE DEF tables, fetching, outside, history
<1>0. TypeOK /\ UpToDate(p) /\ ControlOf(p) /\ HoldingOf(p)
  BY DEF Scored, Typed, Settled
<1>1. CASE OpenScore(p)
  BY <1>0, <1>1 DEF OpenScore, TypeOK, Stored
<1>2. ASSUME NEW n \in Names, ReadSignals(p, n) PROVE UpToDate(p)'
  BY <1>0, <1>2 DEF ReadSignals, TypeOK, UpToDate, CurrentScore, Stored
<1>3. ASSUME NEW n \in Names, SkipUnpushed(p, n) PROVE UpToDate(p)'
  BY <1>0, <1>3 DEF SkipUnpushed, Done, TypeOK, UpToDate, CurrentScore, Stored
<1>4. CASE ReadPopularity(p)
  <2>1. draft[p] \in Draft
    BY <1>0, <1>4 DEF ReadPopularity, HoldingOf
  <2>2. /\ draft'[p].name = draft[p].name /\ draft'[p].signals = draft[p].signals
        /\ draft'[p].popularity = entities[draft[p].name].stars
    <3>1. draft' = [draft EXCEPT ![p].popularity = entities[draft[p].name].stars]
      BY <1>4 DEF ReadPopularity
    <3>2. draft'[p] = [draft[p] EXCEPT !.popularity = entities[draft[p].name].stars]
      BY <1>0, <3>1 DEF TypeOK
    <3> QED
      BY <2>1, <3>2 DEF Draft
  <2> QED
    BY <1>0, <1>4, <2>2 DEF ReadPopularity, TypeOK, UpToDate, CurrentScore, Stored
<1>5. CASE SaveScore(p)
  <2>1. draft[p].name \in Stored
    BY <1>0, <1>5 DEF SaveScore, HoldingOf
  <2>2. UNCHANGED <<entities, alone>> /\ todo'[p] = todo[p] \ {draft[p].name} /\ step'[p] = "pick"
    BY <1>0, <1>5 DEF SaveScore, Done, TypeOK
  <2>3. \A n \in Names : scores'[n] =
           IF n = draft[p].name THEN [signals |-> draft[p].signals, popularity |-> draft[p].popularity]
                                ELSE scores[n]
    BY <1>0, <1>5, <2>1 DEF SaveScore, TypeOK
  <2>4. step[p] = "save"
    BY <1>5 DEF SaveScore
  <2> QED
    BY <1>0, <2>1, <2>2, <2>3, <2>4 DEF UpToDate, CurrentScore, Stored
<1>6. \/ OpenScore(p) \/ ReadPopularity(p) \/ SaveScore(p)
      \/ \E n \in Names : ReadSignals(p, n) \/ SkipUnpushed(p, n)
  BY <1>0 DEF Acts, Proceed, OpenCollector, Search, SearchFails, Store, StoreFails, Report, ScoreFails,
     FinishScore, Abort, StopUnit, Exit, Forget, Becomes, TypeOK
<1> QED
  BY <1>1, <1>2, <1>3, <1>4, <1>5, <1>6 DEF UpToDate

LEMMA NextScored ==
  ASSUME Typed, Scored, [Next]_vars
  PROVE  Scored'
<1>0. AloneMeansAlone'
  BY NextAlone DEF Scored
<1>1. ASSUME NEW p \in Procs, Acts(p) PROVE Scored'
  <2>0. TypeOK /\ p \in Busy /\ ~settled
    BY <1>1, ActsBusy DEF Typed, Scored, QuietWhenSettled
  <2>1. UpToDate(p)'
    BY <1>1, ActsUpToDate
  <2>2. ASSUME NEW q \in Procs, q # p PROVE UpToDate(q)'
    BY <1>1, <2>2, ActsAlone DEF Scored, UpToDate
  <2>3. CASE FinishScore(p)
    <3>1. prog[p] = "score" /\ NextProgram(p) = "idle"
      BY <2>3 DEF FinishScore, NextProgram, Following, Typed, Settled, ControlOf
    <3>2. /\ UNCHANGED <<entities, scores>> /\ settled' = alone[p] /\ step[p] = "pick" /\ todo[p] = {}
          /\ prog' = [prog EXCEPT ![p] = "idle"]
      BY <2>3, <3>1 DEF FinishScore, Exit, Becomes, tables
    <3>3. ScoresCurrent'
      BY <3>2 DEF Scored, UpToDate, ScoresCurrent, CurrentScore, Stored
    <3>4. QuietWhenSettled'
      <4>1. ASSUME settled' PROVE Busy = {p}
        BY <3>2, <4>1 DEF Scored, AloneMeansAlone
      <4>2. Busy' = Busy \ {p}
        BY <2>0, <3>2 DEF Busy, TypeOK
      <4> QED
        BY <4>1, <4>2 DEF QuietWhenSettled
    <3> QED
      BY <1>0, <2>1, <2>2, <3>3, <3>4 DEF Scored
  <2>4. CASE ~FinishScore(p)
    <3>1. settled' = settled
      BY <1>1, <2>4 DEF Acts, Proceed, OpenCollector, Search, SearchFails, Store, StoreFails, Report, OpenScore,
         ReadSignals, SkipUnpushed, ReadPopularity, SaveScore, ScoreFails, Abort, StopUnit, history
    <3> QED
      BY <1>0, <2>0, <2>1, <2>2, <3>1 DEF Scored, QuietWhenSettled, ScoresCurrent
  <2> QED
    BY <2>3, <2>4
<1>2. ASSUME NEW p \in Procs, NEW program \in Programs, Start(p, program) PROVE Scored'
  BY <1>0, <1>2 DEF Scored, Start, QuietWhenSettled, ScoresCurrent, UpToDate
<1>3. CASE GitHubMoves \/ UNCHANGED vars
  BY <1>0, <1>3 DEF GitHubMoves, tables, scoring, history, vars, Scored, QuietWhenSettled, Busy, ScoresCurrent,
     UpToDate, CurrentScore, Stored
<1> QED
  BY <1>1, <1>2, <1>3, NextCases

(***************************************************************************)
(* When score --all has run alone and saved every score it computed, every *)
(* stored entity that has a last_pushed_at has the score of its stored row *)
(* until something is started again, for any number of entities the loop   *)
(* had to skip.                                                            *)
(***************************************************************************)
THEOREM ScoresAreCurrent == Spec => []ScoresCurrent
<1>1. Typed /\ Scored /\ [Next]_vars => (Typed /\ Scored)'
  BY NextTyped, NextScored
<1>2. Scored => ScoresCurrent
  BY DEF Scored
<1> QED
  BY <1>1, <1>2, InitTyped, InitScored, PTL DEF Spec

------------------------------------------------------------------------------
(***************************************************************************)
(* The work that is left.  StepsLeft(p) bounds the steps that p's program  *)
(* and the lines of the unit after it can still take: three attempts at    *)
(* every search, a commit and a report per collector, three steps per      *)
(* entity to be scored.  It falls with every step of the process, faults   *)
(* included, and nobody else can raise it.  This is the part of JobEnds    *)
(* that is free of fairness: the process cannot run forever.               *)
(***************************************************************************)
CollectorSteps == MaxAttempts * Len(Searches) + 3
ScoreSteps == 3 * Cardinality(Names) + 2

After(program) == CASE program = "github" -> CollectorSteps + ScoreSteps
                    [] program = "depsdev" -> ScoreSteps
                    [] OTHER -> 0

Remaining(program, where, failed, next, toScore) ==
  CASE where = "open" -> IF program = "score" THEN ScoreSteps ELSE CollectorSteps
    [] where = "fetch" -> (MaxAttempts - failed) * Len(Searches) - next + 3
    [] where = "store" -> 2
    [] where = "report" -> 1
    [] where = "pick" -> 3 * toScore + 1
    [] where = "popularity" -> 3 * toScore
    [] where = "save" -> 3 * toScore - 1
    [] OTHER -> 0

StepsLeft(p) ==
  Remaining(prog[p], step[p], attempt[p], search[p], Cardinality(todo[p])) + After(prog[p])

JobSteps == 2 * CollectorSteps + ScoreSteps

WorkBounded == \A p \in Procs : StepsLeft(p) \in 0 .. JobSteps

WorkShrinks(p) ==
  /\ Acts(p) => StepsLeft(p)' < StepsLeft(p)
  /\ p \in Busy => StepsLeft(p)' <= StepsLeft(p)

WorkOnlyShrinks == [][\A p \in Procs : WorkShrinks(p)]_vars

(* The entity in hand is one of those still to be scored.                  *)
InHand(p) == step[p] \in {"popularity", "save"} => draft[p].name \in todo[p]

HandsFull == \A p \in Procs : InHand(p)

LEMMA WorkSizes ==
  /\ Len(Searches) \in Nat \ {0}
  /\ CollectorSteps \in Nat /\ CollectorSteps = 3 * Len(Searches) + 3
  /\ ScoreSteps \in Nat
  /\ \A S \in SUBSET Names :
       /\ Cardinality(S) \in Nat /\ 3 * Cardinality(S) + 2 <= ScoreSteps
       /\ \A n \in S : Cardinality(S) > 0 /\ Cardinality(S \ {n}) = Cardinality(S) - 1
<1>1. Len(Searches) \in Nat \ {0}
  BY SearchesTyped
<1>2. Cardinality(Names) \in Nat
  BY IngestAssumption, FS_CardinalityType
<1>3. ASSUME NEW S \in SUBSET Names
      PROVE  /\ IsFiniteSet(S) /\ Cardinality(S) \in Nat /\ Cardinality(S) <= Cardinality(Names)
             /\ \A n \in S : Cardinality(S \ {n}) = Cardinality(S) - 1
  BY IngestAssumption, FS_Subset, FS_CardinalityType, FS_RemoveElement
<1>4. ASSUME NEW S \in SUBSET Names, NEW n \in S
      PROVE  Cardinality(S) > 0
  <2>1. Cardinality(S \ {n}) \in Nat /\ Cardinality(S \ {n}) = Cardinality(S) - 1 /\ Cardinality(S) \in Nat
    BY <1>3
  <2> QED
    BY <2>1
<1>5. /\ CollectorSteps \in Nat /\ CollectorSteps = 3 * Len(Searches) + 3
      /\ ScoreSteps \in Nat /\ ScoreSteps = 3 * Cardinality(Names) + 2
  BY <1>1, <1>2 DEF CollectorSteps, ScoreSteps, MaxAttempts
<1>6. \A S \in SUBSET Names : 3 * Cardinality(S) + 2 <= ScoreSteps
  BY <1>2, <1>3, <1>5
<1> QED
  BY <1>1, <1>3, <1>4, <1>5, <1>6

(* A search shortens the fetch, a failed attempt too.                      *)
LEMMA FetchSteps ==
  ASSUME NEW a \in 0 .. 2, NEW s \in DOMAIN Searches, NEW program, NEW k
  PROVE  /\ Remaining(program, "fetch", a, s, k) \in 3 .. CollectorSteps - 1
         /\ s < Len(Searches) =>
              Remaining(program, "fetch", a, s + 1, k) < Remaining(program, "fetch", a, s, k)
         /\ a + 1 < 3 =>
              Remaining(program, "fetch", a + 1, 1, k) < Remaining(program, "fetch", a, s, k)
<1>1. s \in 1 .. Len(Searches) /\ Len(Searches) \in Nat \ {0}
  BY SearchesTyped, WorkSizes
<1>2. CollectorSteps = 3 * Len(Searches) + 3
  BY WorkSizes
<1>3. ASSUME NEW b \in 0 .. 2, NEW t
      PROVE  Remaining(program, "fetch", b, t, k) = (3 - b) * Len(Searches) - t + 3
  BY DEF Remaining, MaxAttempts
<1>4. CASE a = 0
  <2>1. /\ Remaining(program, "fetch", a, s, k) = 3 * Len(Searches) - s + 3
        /\ Remaining(program, "fetch", a, s + 1, k) = 3 * Len(Searches) - (s + 1) + 3
        /\ Remaining(program, "fetch", a + 1, 1, k) = 2 * Len(Searches) - 1 + 3
    BY <1>3, <1>4
  <2> QED
    BY <1>1, <1>2, <1>4, <2>1, SMTT(30)
<1>5. CASE a = 1
  <2>1. /\ Remaining(program, "fetch", a, s, k) = 2 * Len(Searches) - s + 3
        /\ Remaining(program, "fetch", a, s + 1, k) = 2 * Len(Searches) - (s + 1) + 3
        /\ Remaining(program, "fetch", a + 1, 1, k) = 1 * Len(Searches) - 1 + 3
    BY <1>3, <1>5
  <2> QED
    BY <1>1, <1>2, <1>5, <2>1, SMTT(30)
<1>6. CASE a = 2
  <2>1. /\ Remaining(program, "fetch", a, s, k) = 1 * Len(Searches) - s + 3
        /\ Remaining(program, "fetch", a, s + 1, k) = 1 * Len(Searches) - (s + 1) + 3
    BY <1>3, <1>6
  <2> QED
    BY <1>1, <1>2, <1>6, <2>1, SMTT(30)
<1> QED
  BY <1>4, <1>5, <1>6

(* A running program has something left to do, and no more than it had     *)
(* when it was opened.                                                     *)
LEMMA RunningHasWork ==
  ASSUME Typed, NEW p \in Procs, InHand(p)
  PROVE  LET left == Remaining(prog[p], step[p], attempt[p], search[p], Cardinality(todo[p]))
         IN IF p \in Busy
              THEN left \in 1 .. (IF prog[p] = "score" THEN ScoreSteps ELSE CollectorSteps)
              ELSE left = 0
<1> DEFINE left == Remaining(prog[p], step[p], attempt[p], search[p], Cardinality(todo[p]))
<1>0. TypeOK /\ ControlOf(p) /\ HoldingOf(p)
  BY DEF Typed, Settled
<1>1. /\ CollectorSteps \in Nat /\ CollectorSteps >= 6
      /\ ScoreSteps \in Nat /\ ScoreSteps >= 2
      /\ Cardinality(todo[p]) \in Nat /\ 3 * Cardinality(todo[p]) + 2 <= ScoreSteps
  <2>1. todo[p] \in SUBSET Names
    BY <1>0 DEF TypeOK
  <2>2. Cardinality(todo[p]) \in Nat /\ 3 * Cardinality(todo[p]) + 2 <= ScoreSteps
    BY <2>1, WorkSizes
  <2> QED
    BY <2>2, WorkSizes
<1>2. CASE step[p] = "idle"
  BY <1>0, <1>2 DEF Remaining, Busy, ControlOf
<1>3. CASE step[p] = "open"
  BY <1>0, <1>1, <1>3 DEF Remaining, Busy, ControlOf
<1>4. CASE step[p] = "fetch"
  <2>1. attempt[p] \in 0 .. 2 /\ search[p] \in DOMAIN Searches
    BY <1>0, <1>4 DEF TypeOK, HoldingOf, MaxAttempts
  <2>2. left \in 3 .. CollectorSteps - 1
    BY <1>4, <2>1, FetchSteps
  <2>3. p \in Busy /\ prog[p] # "score"
    BY <1>0, <1>4 DEF ControlOf, Busy, Collectors
  <2> QED
    BY <1>1, <2>2, <2>3
<1>5. CASE step[p] \in {"store", "report"}
  <2>1. p \in Busy /\ prog[p] # "score"
    BY <1>0, <1>5 DEF ControlOf, Busy, Collectors
  <2>2. left \in 1 .. 2
    BY <1>5 DEF Remaining
  <2> QED
    BY <1>1, <2>1, <2>2
<1>6. CASE step[p] \in {"pick", "popularity", "save"}
  <2>1. p \in Busy /\ prog[p] = "score"
    BY <1>0, <1>6 DEF ControlOf, Busy
  <2>2. step[p] # "pick" => Cardinality(todo[p]) > 0
    BY <1>0, <1>6, WorkSizes DEF InHand, TypeOK
  <2>3. left = 3 * Cardinality(todo[p]) + (IF step[p] = "pick" THEN 1 ELSE IF step[p] = "popularity" THEN 0 ELSE -1)
    BY <1>1, <1>6 DEF Remaining
  <2> QED
    BY <1>1, <1>6, <2>1, <2>2, <2>3
<1>7. step[p] \in Steps
  BY <1>0 DEF TypeOK
<1> HIDE DEF left
<1> QED
  BY <1>2, <1>3, <1>4, <1>5, <1>6, <1>7 DEF Steps, left

(* What a process has before it and what follows make one number.          *)
LEMMA AfterSizes ==
  ASSUME Typed, NEW p \in Procs
  PROVE  /\ After(prog[p]) \in Nat
         /\ prog[p] = "idle" => After(prog[p]) = 0
         /\ (IF prog[p] = "score" THEN ScoreSteps ELSE CollectorSteps) + After(prog[p]) <= JobSteps
<1>1. prog[p] \in {"github", "depsdev", "score", "idle"}
  BY DEF Typed, TypeOK, Programs, Collectors
<1> QED
  BY <1>1, WorkSizes DEF After, JobSteps

(* The end of a program leaves at most what follows it.                    *)
LEMMA EndShortens ==
  ASSUME Typed, NEW p \in Busy, InHand(p), NEW program \in {NextProgram(p), "idle"},
         Forget(p), Becomes(p, program)
  PROVE  StepsLeft(p)' < StepsLeft(p)
<1> USE DEF Busy
<1>1. /\ prog'[p] = program
      /\ step'[p] = IF program = "idle" THEN "idle" ELSE "open"
  BY DEF Becomes, Typed, TypeOK
<1>2. program \in {Following[prog[p]], "idle"}
  BY DEF NextProgram
<1>3. prog[p] \in {"github", "depsdev", "score"}
  BY DEF Typed, TypeOK, Programs, Collectors
<1>4. StepsLeft(p)' <= After(prog[p])
  BY <1>1, <1>2, <1>3, WorkSizes DEF StepsLeft, Remaining, After, Following
<1>5. StepsLeft(p) \in Nat /\ StepsLeft(p)' \in Nat /\ StepsLeft(p) > After(prog[p])
  <2>1. Remaining(prog[p], step[p], attempt[p], search[p], Cardinality(todo[p])) \in Nat \ {0}
    BY RunningHasWork, WorkSizes
  <2>2. StepsLeft(p)' \in Nat
    BY <1>1, <1>2, <1>3, WorkSizes DEF StepsLeft, Remaining, After, Following
  <2> QED
    BY <2>1, <2>2, AfterSizes DEF StepsLeft
<1> QED
  BY <1>4, <1>5, AfterSizes

(* Inside a program only what it still has to do counts.                   *)
LEMMA InsideShortens ==
  ASSUME Typed, NEW p \in Procs, InHand(p), prog'[p] = prog[p],
         NEW later \in Int,
         later = Remaining(prog[p], step'[p], attempt'[p], search'[p], Cardinality(todo'[p])),
         later < Remaining(prog[p], step[p], attempt[p], search[p], Cardinality(todo[p]))
  PROVE  StepsLeft(p)' < StepsLeft(p)
<1>1. Remaining(prog[p], step[p], attempt[p], search[p], Cardinality(todo[p])) \in Nat
  BY RunningHasWork, WorkSizes
<1> QED
  BY <1>1, AfterSizes DEF StepsLeft

LEMMA CollectorShortens ==
  ASSUME Typed, NEW p \in Procs, InHand(p),
         \/ OpenCollector(p) \/ SearchFails(p) \/ Store(p) \/ StoreFails(p)
         \/ \E found \in Searches[search[p]].answers :
              \E lookup \in [found -> LookupsBy(prog[p])] : Search(p, found, lookup)
  PROVE  StepsLeft(p)' < StepsLeft(p)
<1> USE WorkSizes
<1>0. /\ TypeOK /\ ControlOf(p) /\ HoldingOf(p) /\ prog'[p] = prog[p]
  BY DEF Typed, Settled, OpenCollector, SearchFails, Store, StoreFails, Search
<1>1. CASE OpenCollector(p)
  <2>1. step[p] = "open" /\ step'[p] = "fetch" /\ prog[p] # "score"
    BY <1>0, <1>1 DEF OpenCollector, TypeOK, Collectors
  <2>2. attempt[p] = 0 /\ attempt'[p] = 0 /\ search'[p] = search[p] /\ search[p] \in DOMAIN Searches
    BY <1>0, <1>1 DEF OpenCollector, TypeOK, HoldingOf, fetching
  <2>3. Remaining(prog[p], "fetch", 0, search[p], Cardinality(todo'[p])) \in 3 .. CollectorSteps - 1
    BY <2>2, FetchSteps
  <2>4. Remaining(prog[p], "open", 0, search[p], Cardinality(todo[p])) = CollectorSteps
    BY <2>1 DEF Remaining
  <2> QED
    BY <1>0, <2>1, <2>2, <2>3, <2>4, InsideShortens
<1>2. ASSUME step[p] = "fetch"
      PROVE  attempt[p] \in 0 .. 2 /\ search[p] \in DOMAIN Searches
  BY <1>0, <1>2 DEF TypeOK, HoldingOf, MaxAttempts
<1>3. CASE SearchFails(p)
  <2>1. /\ step[p] = "fetch" /\ attempt'[p] = attempt[p] + 1 /\ search'[p] = 1 /\ todo' = todo
        /\ step'[p] = IF attempt[p] + 1 < 3 THEN "fetch" ELSE "report"
    BY <1>0, <1>3 DEF SearchFails, scoring, TypeOK, MaxAttempts
  <2>2. attempt[p] \in 0 .. 2 /\ search[p] \in DOMAIN Searches /\ 1 \in DOMAIN Searches
    BY <1>2, <2>1, SearchesTyped
  <2>3. CASE attempt[p] + 1 < 3
    <3> DEFINE later == Remaining(prog[p], "fetch", attempt[p] + 1, 1, Cardinality(todo[p]))
    <3>1. attempt[p] + 1 \in 0 .. 2
      BY <2>2, <2>3
    <3>2. later \in Int
      BY <2>2, <3>1, FetchSteps
    <3>3. later < Remaining(prog[p], "fetch", attempt[p], search[p], Cardinality(todo[p]))
      BY <2>2, <2>3, FetchSteps
    <3> HIDE DEF later
    <3> QED
      BY <1>0, <2>1, <2>3, <3>2, <3>3, InsideShortens DEF later
  <2>4. CASE ~(attempt[p] + 1 < 3)
    <3>1. Remaining(prog[p], "report", attempt'[p], 1, Cardinality(todo[p])) = 1
      BY DEF Remaining
    <3>2. Remaining(prog[p], "fetch", attempt[p], search[p], Cardinality(todo[p])) \in 3 .. CollectorSteps - 1
      BY <2>2, FetchSteps
    <3> QED
      BY <1>0, <2>1, <2>4, <3>1, <3>2, InsideShortens
  <2> QED
    BY <2>3, <2>4
<1>4. CASE Store(p) \/ StoreFails(p)
  <2>1. step[p] = "store" /\ step'[p] = "report"
    BY <1>0, <1>4 DEF Store, StoreFails, TypeOK
  <2>2. /\ Remaining(prog[p], "store", attempt[p], search[p], Cardinality(todo[p])) = 2
        /\ Remaining(prog[p], "report", attempt'[p], search'[p], Cardinality(todo'[p])) = 1
    BY DEF Remaining
  <2> QED
    BY <1>0, <2>1, <2>2, InsideShortens
<1>5. ASSUME NEW found \in Searches[search[p]].answers, NEW lookup \in [found -> LookupsBy(prog[p])],
             Search(p, found, lookup)
      PROVE  StepsLeft(p)' < StepsLeft(p)
  <2>1. step[p] = "fetch" /\ attempt' = attempt /\ todo' = todo
    BY <1>5 DEF Search, scoring
  <2>2. attempt[p] \in 0 .. 2 /\ search[p] \in DOMAIN Searches
    BY <1>2, <2>1
  <2>3. CASE search[p] < Len(Searches)
    <3>1. step'[p] = "fetch" /\ search'[p] = search[p] + 1
      BY <1>0, <1>5, <2>1, <2>3 DEF Search, TypeOK
    <3> DEFINE later == Remaining(prog[p], "fetch", attempt[p], search[p] + 1, Cardinality(todo[p]))
    <3>2. search[p] + 1 \in DOMAIN Searches
      BY <2>2, <2>3, SearchesTyped
    <3>3. later \in Int
      BY <2>2, <3>2, FetchSteps
    <3>4. later < Remaining(prog[p], "fetch", attempt[p], search[p], Cardinality(todo[p]))
      BY <2>2, <2>3, FetchSteps
    <3> HIDE DEF later
    <3> QED
      BY <1>0, <2>1, <3>1, <3>3, <3>4, InsideShortens DEF later
  <2>4. CASE ~(search[p] < Len(Searches))
    <3>1. step'[p] = "store"
      BY <1>0, <1>5, <2>4 DEF Search, TypeOK
    <3>2. Remaining(prog[p], "store", attempt'[p], search'[p], Cardinality(todo'[p])) = 2
      BY DEF Remaining
    <3>3. Remaining(prog[p], "fetch", attempt[p], search[p], Cardinality(todo[p])) \in 3 .. CollectorSteps - 1
      BY <2>2, FetchSteps
    <3> QED
      BY <1>0, <2>1, <3>1, <3>2, <3>3, InsideShortens
  <2> QED
    BY <2>3, <2>4
<1> QED
  BY <1>1, <1>3, <1>4, <1>5

LEMMA ScorerShortens ==
  ASSUME Typed, NEW p \in Procs, InHand(p),
         \/ OpenScore(p) \/ ReadPopularity(p) \/ SaveScore(p) \/ ScoreFails(p)
         \/ \E n \in Names : ReadSignals(p, n) \/ SkipUnpushed(p, n)
  PROVE  StepsLeft(p)' < StepsLeft(p) /\ InHand(p)'
<1> USE WorkSizes
<1> DEFINE k == Cardinality(todo[p])
           later == Remaining(prog[p], step'[p], attempt'[p], search'[p], Cardinality(todo'[p]))
           now == Remaining(prog[p], step[p], attempt[p], search[p], k)
<1>0. /\ TypeOK /\ ControlOf(p) /\ HoldingOf(p) /\ prog'[p] = prog[p] /\ k \in Nat
  BY DEF Typed, Settled, TypeOK, OpenScore, ReadPopularity, SaveScore, ScoreFails, ReadSignals, SkipUnpushed
<1> SUFFICES later \in Int /\ later < now /\ InHand(p)'
  BY <1>0, InsideShortens
<1>1. CASE OpenScore(p)
  <2>1. step[p] = "open" /\ prog[p] = "score" /\ step'[p] = "pick" /\ todo'[p] = Stored
    BY <1>0, <1>1 DEF OpenScore, TypeOK
  <2>2. Cardinality(Stored) \in Nat /\ 3 * Cardinality(Stored) + 2 <= ScoreSteps
    BY DEF Stored
  <2>3. now = ScoreSteps /\ later = 3 * Cardinality(Stored) + 1
    BY <2>1 DEF Remaining
  <2> QED
    BY <2>1, <2>2, <2>3 DEF InHand
<1>2. ASSUME NEW n \in Names, ReadSignals(p, n)
      PROVE  later \in Int /\ later < now /\ InHand(p)'
  <2>1. step[p] = "pick" /\ step'[p] = "popularity" /\ todo' = todo /\ n \in todo[p] /\ draft'[p].name = n
    BY <1>0, <1>2 DEF ReadSignals, TypeOK
  <2>2. now = 3 * k + 1 /\ later = 3 * k
    BY <2>1 DEF Remaining
  <2> QED
    BY <1>0, <2>1, <2>2 DEF InHand
<1>3. CASE ReadPopularity(p)
  <2>1. step[p] = "popularity" /\ step'[p] = "save" /\ todo' = todo
    BY <1>0, <1>3 DEF ReadPopularity, TypeOK
  <2>2. draft[p] \in Draft
    BY <1>0, <2>1 DEF HoldingOf
  <2>3. draft'[p].name = draft[p].name
    BY <1>0, <1>3, <2>2 DEF ReadPopularity, TypeOK, Draft
  <2>4. now = 3 * k /\ later = 3 * k - 1
    BY <2>1 DEF Remaining
  <2> QED
    BY <1>0, <2>1, <2>3, <2>4 DEF InHand
<1>4. ASSUME NEW n \in todo[p], Done(p, n), step[p] \in {"pick", "popularity", "save"}
      PROVE  later \in Int /\ later < now /\ InHand(p)'
  <2>1. step'[p] = "pick" /\ todo'[p] = todo[p] \ {n}
    BY <1>0, <1>4 DEF Done, TypeOK
  <2>2. Cardinality(todo'[p]) = k - 1 /\ k > 0
    BY <1>0, <2>1 DEF TypeOK
  <2>3. later = 3 * (k - 1) + 1 /\ now \in {3 * k + 1, 3 * k, 3 * k - 1}
    BY <1>4, <2>1, <2>2 DEF Remaining
  <2> QED
    BY <1>0, <2>1, <2>2, <2>3 DEF InHand
<1>5. ASSUME NEW n \in Names, SkipUnpushed(p, n)
      PROVE  later \in Int /\ later < now /\ InHand(p)'
  BY <1>4, <1>5 DEF SkipUnpushed
<1>6. CASE SaveScore(p) \/ ScoreFails(p)
  BY <1>4, <1>6 DEF SaveScore, ScoreFails, InHand
<1> QED
  BY <1>1, <1>2, <1>3, <1>5, <1>6

LEMMA ActsShorten ==
  ASSUME Typed, NEW p \in Procs, InHand(p), Acts(p)
  PROVE  StepsLeft(p)' < StepsLeft(p) /\ InHand(p)'
<1>0. TypeOK /\ p \in Busy /\ ControlOf(p)
  BY ActsBusy DEF Typed, Settled
<1>1. CASE \/ OpenCollector(p) \/ SearchFails(p) \/ Store(p) \/ StoreFails(p)
           \/ \E found \in Searches[search[p]].answers :
                \E lookup \in [found -> LookupsBy(prog[p])] : Search(p, found, lookup)
  <2>1. step'[p] \notin {"popularity", "save"}
    BY <1>0, <1>1 DEF OpenCollector, SearchFails, Store, StoreFails, Search, TypeOK
  <2> QED
    BY <1>1, <2>1, CollectorShortens DEF InHand
<1>2. CASE \/ OpenScore(p) \/ ReadPopularity(p) \/ SaveScore(p) \/ ScoreFails(p)
           \/ \E n \in Names : ReadSignals(p, n) \/ SkipUnpushed(p, n)
  BY <1>2, ScorerShortens
<1>3. ASSUME NEW program \in {NextProgram(p), "idle"}, Forget(p), Becomes(p, program)
      PROVE  StepsLeft(p)' < StepsLeft(p) /\ InHand(p)'
  <2>1. step'[p] \in {"idle", "open"}
    BY <1>0, <1>3 DEF Becomes, TypeOK
  <2> QED
    BY <1>0, <1>3, <2>1, EndShortens DEF InHand
<1>4. CASE Report(p) \/ FinishScore(p) \/ Abort(p) \/ (p = Timer /\ StopUnit)
  BY <1>3, <1>4 DEF Report, FinishScore, Abort, StopUnit, Exit
<1> QED
  BY <1>1, <1>2, <1>4 DEF Acts, Proceed

LEMMA StepsCounted == Typed /\ HandsFull => \A p \in Procs : StepsLeft(p) \in Nat
BY RunningHasWork, AfterSizes, WorkSizes DEF HandsFull, StepsLeft

LEMMA StepsCountedNext == Typed' /\ HandsFull' => (\A p \in Procs : StepsLeft(p) \in Nat)'
BY StepsCounted, PTL

(* The other processes' work stays as it is.                               *)
LEMMA NextHandsFull ==
  ASSUME Typed, HandsFull, [Next]_vars
  PROVE  HandsFull' /\ \A p \in Procs : WorkShrinks(p)
<1>0. ASSUME NEW p \in Procs
      PROVE  StepsLeft(p) \in Int
  BY StepsCounted
<1>1. ASSUME NEW p \in Procs,
             prog'[p] = prog[p], step'[p] = step[p], attempt'[p] = attempt[p], todo'[p] = todo[p],
             draft'[p] = draft[p], step[p] = "fetch" => search'[p] = search[p]
      PROVE  InHand(p)' /\ StepsLeft(p)' = StepsLeft(p)
  BY <1>1 DEF HandsFull, InHand, StepsLeft, Remaining
<1>2. ASSUME NEW q \in Procs, Acts(q)
      PROVE  HandsFull' /\ \A p \in Procs : WorkShrinks(p)
  <2>1. ASSUME NEW p \in Procs, p # q
        PROVE  InHand(p)' /\ StepsLeft(p)' = StepsLeft(p)
    <3>1. search'[p] = search[p]
      BY <1>2, <2>1 DEF Acts, Proceed, OpenCollector, Search, SearchFails, Store, StoreFails, Report, OpenScore,
         ReadSignals, SkipUnpushed, ReadPopularity, SaveScore, ScoreFails, FinishScore, Abort, StopUnit,
         Exit, Forget, fetching, Typed, TypeOK
    <3> QED
      BY <1>1, <1>2, <2>1, <3>1, ActsMoves DEF Moves, OthersStay
  <2>2. StepsLeft(q)' < StepsLeft(q) /\ InHand(q)'
    BY <1>2, ActsShorten DEF HandsFull
  <2>3. ASSUME NEW p \in Procs, p # q
        PROVE  ~Acts(p)
    <3>1. ASSUME Acts(p) PROVE StepsLeft(p)' < StepsLeft(p)
      BY <3>1, ActsShorten DEF HandsFull
    <3> QED
      BY <1>0, <2>1, <2>3, <3>1
  <2>4. HandsFull'
    BY <2>1, <2>2 DEF HandsFull
  <2>5. ASSUME NEW p \in Procs
        PROVE  StepsLeft(p)' <= StepsLeft(p) /\ (Acts(p) => StepsLeft(p)' < StepsLeft(p))
    <3>1. CASE p = q
      <4>1. StepsLeft(p) \in Int /\ StepsLeft(p)' < StepsLeft(p) /\ StepsLeft(p)' \in Int
        BY <1>0, <2>2, <2>4, <3>1, NextTyped, StepsCountedNext
      <4> QED
        BY <4>1
    <3>2. CASE p # q
      BY <1>0, <2>1, <2>3, <3>2
    <3> QED
      BY <3>1, <3>2
  <2> QED
    BY <2>4, <2>5 DEF WorkShrinks
<1>3. ASSUME HandsFull, \A p \in Procs : InHand(p)' /\ (p \in Busy => StepsLeft(p)' = StepsLeft(p))
      PROVE  HandsFull' /\ \A p \in Procs : WorkShrinks(p)
  <2>1. ASSUME NEW p \in Procs, Acts(p) PROVE p \in Busy /\ StepsLeft(p)' < StepsLeft(p)
    BY <1>3, <2>1, ActsBusy, ActsShorten DEF HandsFull
  <2> QED
    BY <1>0, <1>3, <2>1 DEF HandsFull, WorkShrinks
<1>4. ASSUME NEW q \in Procs, NEW program \in Programs, Start(q, program)
      PROVE  HandsFull' /\ \A p \in Procs : WorkShrinks(p)
  <2>1. /\ q \notin Busy
        /\ UNCHANGED <<attempt, search, todo, draft>>
        /\ \A p \in Procs : p # q => prog'[p] = prog[p] /\ step'[p] = step[p]
        /\ step'[q] = "open"
    BY <1>4 DEF Start, fetching, scoring, Typed, TypeOK
  <2>2. \A p \in Procs : InHand(p)' /\ (p \in Busy => StepsLeft(p)' = StepsLeft(p))
    BY <1>1, <2>1 DEF InHand
  <2> QED
    BY <1>3, <2>2
<1>5. CASE GitHubMoves \/ UNCHANGED vars
  <2>1. UNCHANGED <<prog, step, attempt, search, todo, draft>>
    BY <1>5 DEF GitHubMoves, fetching, scoring, vars
  <2> QED
    BY <1>1, <1>3, <2>1
<1> QED
  BY <1>2, <1>4, <1>5, NextCases

(***************************************************************************)
(* A job takes at most 6 |SEED_SEARCHES| + 3 |entities| + 8 steps of its   *)
(* own, whatever fails, and whatever others do meanwhile: retries are      *)
(* counted, each entity is dealt with once, and no program comes back.     *)
(***************************************************************************)
THEOREM JobIsBounded ==
  Spec => [](WorkBounded /\ JobSteps = 6 * Len(Searches) + 3 * Cardinality(Names) + 8) /\ WorkOnlyShrinks
<1>1. Init => HandsFull
  BY DEF Init, HandsFull, InHand
<1>2. Typed /\ HandsFull => WorkBounded /\ JobSteps = 6 * Len(Searches) + 3 * Cardinality(Names) + 8
  <2>1. Len(Searches) \in Nat /\ Cardinality(Names) \in Nat
    BY WorkSizes, IngestAssumption, FS_CardinalityType
  <2>2. JobSteps = 6 * Len(Searches) + 3 * Cardinality(Names) + 8
    BY <2>1 DEF JobSteps, CollectorSteps, ScoreSteps, MaxAttempts
  <2>3. ASSUME Typed, HandsFull, NEW p \in Procs
        PROVE  StepsLeft(p) \in 0 .. JobSteps
    BY <2>3, RunningHasWork, AfterSizes, WorkSizes DEF HandsFull, StepsLeft, Busy, JobSteps
  <2> QED
    BY <2>2, <2>3 DEF WorkBounded
<1>3. Typed /\ HandsFull /\ [Next]_vars => HandsFull' /\ [\A p \in Procs : WorkShrinks(p)]_vars
  BY NextHandsFull
<1> QED
  BY <1>1, <1>2, <1>3, AlwaysTyped, PTL DEF Spec, WorkOnlyShrinks
==============================================================================
