----------------------------- MODULE ReadingProofs -----------------------------
(***************************************************************************)
(* Reading, for any entities, rows and numbers of requests and writes.     *)
(* Rows and scores are never deleted, so what a request has read stays     *)
(* there, and what it reads later can only be newer; what a failed         *)
(* statement did not read stays empty.                                     *)
(***************************************************************************)
EXTENDS Reading, ScoringProofs, FiniteSetTheorems

\* The entities that had a score when the request began.
Scored == {s.name : s \in began}

\* Between the statements of /stats: what is counted was there, and what was
\* there is counted unless the statement failed.
Counting ==
  /\ IsFiniteSet(scores) /\ \A s \in scores : s.name \in Stored
  /\ phase \in {"count_scores", "count_verdicts", "counted"} =>
       /\ "entities" \in failed \/ Cardinality(Scored) <= counts.entities
       /\ counts.scores <= Cardinality(scores)
  /\ phase \in {"count_verdicts", "counted"} => "scores" \in failed \/ Cardinality(began) <= counts.scores

\* The clock does not go back, so an entity with scores has a latest one.
Dated ==
  /\ \A s \in scores : s.at <= now
  /\ \A n \in Names : ScoresOf(n) # {} => Latest(n) # {}

\* Scores are attached in the phase of that name only.
Phased == phase # "attach" => DOMAIN shown = {}

IInv == TypeOK /\ Dated /\ Phased /\ FreshAnswers /\ NeverGreen /\ Counting /\ StatsAgree

USE ReadingAssumption, BoundAssumption, SentinelAssumption

LEMMA InitIInv == Init => IInv
<1> SUFFICES ASSUME Init PROVE IInv
  OBVIOUS
<1>1. TypeOK
  BY DEF Init, TypeOK, NoCounts, Stored
<1>2. FreshAnswers /\ NeverGreen /\ StatsAgree
  BY DEF Init, FreshAnswers, NeverGreen, StatsAgree
<1>3. Counting /\ Dated /\ Phased
  BY FS_EmptySet DEF Init, Counting, Dated, Phased, ScoresOf
<1> QED
  BY <1>1, <1>2, <1>3 DEF IInv

\* A score the program computes: its columns, and never green.
LEMMA Computed ==
  ASSUME NEW repo, NEW stars \in Nat
  PROVE  LET result == ScoreEntity(repo, stars, NoDocs)
         IN /\ result.composite \in 0 .. 100 /\ result.composite <= 63
            /\ result.verdict \in Verdicts \ {"green"}
            /\ result.trajectory \in {"unknown", "accelerating", "plateauing", "declining"}
<1>1. ScoreEntity(repo, stars, NoDocs).trajectory \in {"unknown", "accelerating", "plateauing", "declining"}
  BY DEF ScoreEntity, Trajectory
<1> QED
  BY <1>1, NoDocsNoGreen, CompositeInRange DEF Verdicts

\* The row SaveScore inserts.
LEMMA Inserted ==
  ASSUME TypeOK, IsFiniteSet(scores), SaveScore
  PROVE  /\ IsFiniteSet(scores') /\ scores \subseteq scores'
         /\ \A s \in scores' \ scores :
              s \in Score /\ s.name \in Stored /\ s.composite <= 63 /\ s.verdict # "green"
<1> DEFINE result == ScoreEntity(draft.row, entities[draft.name].stars, NoDocs)
           row == [name |-> draft.name, serial |-> Cardinality(scores) + 1, at |-> now,
                   composite |-> result.composite, verdict |-> result.verdict, trajectory |-> result.trajectory]
<1>1. scores' = scores \cup {row}
  BY DEF SaveScore
<1>2. draft.name \in Names /\ draft.name \in Stored /\ entities[draft.name].stars \in Nat
  BY DEF SaveScore, TypeOK, Stored
<1>3. /\ result.composite \in 0 .. 100 /\ result.composite <= 63
      /\ result.verdict \in Verdicts \ {"green"}
      /\ result.trajectory \in {"unknown", "accelerating", "plateauing", "declining"}
  BY <1>2, Computed
<1>4. Cardinality(scores) + 1 \in Nat /\ now \in Nat
  BY FS_CardinalityType DEF TypeOK
<1>5. IsFiniteSet(scores')
  BY <1>1, FS_AddElement
<1> HIDE DEF result
<1>6. row \in Score /\ row.name \in Stored /\ row.composite <= 63 /\ row.verdict # "green"
  BY <1>2, <1>3, <1>4 DEF Score
<1> QED
  BY <1>1, <1>5, <1>6

LEMMA Written ==
  ASSUME IInv, [Next]_vars
  PROVE  /\ IsFiniteSet(scores') /\ scores \subseteq scores'
         /\ \A s \in scores' \ scores :
              s \in Score /\ s.name \in Stored /\ s.composite <= 63 /\ s.verdict # "green"
<1>1. CASE SaveScore
  BY <1>1, Inserted DEF IInv, Counting
<1>2. CASE ~SaveScore
  <2>1. scores' = scores
    BY <1>2 DEF Next, vars, Tick, Upsert, Pick, EntityDetail, Search, Entities, Select, Attach, AttachFails, Show, AnswerList,
       CountEntities, CountScores, CountVerdicts, AnswerStats, tables
  <2> QED
    BY <2>1 DEF IInv, Counting
<1> QED
  BY <1>1, <1>2

LEMMA NeverGreenStep ==
  ASSUME IInv, [Next]_vars
  PROVE  NeverGreen'
BY Written DEF IInv, NeverGreen

------------------------------------------------------------------------------
LEMMA TypeStep ==
  ASSUME IInv, [Next]_vars
  PROVE  TypeOK'
<1> USE DEF TypeOK, IInv
<1>1. CASE UNCHANGED vars
  BY <1>1 DEF vars, Stored
<1>2. CASE Tick
  BY <1>2 DEF Tick, tables, request, Stored
<1>3. ASSUME NEW n \in Names, NEW row \in Rows, Upsert(n, row) PROVE TypeOK'
  <2>1. Stored \subseteq Stored'
    BY <1>3 DEF Upsert, Stored
  <2>2. entities' \in [Names -> Rows \cup {NoRow}] /\ upserts' \in 0 .. MaxUpserts
    BY <1>3 DEF Upsert
  <2> QED
    BY <1>3, <2>1, <2>2 DEF Upsert, request
<1>4. ASSUME NEW n \in Names, Pick(n) PROVE TypeOK'
  BY <1>4 DEF Pick, tables, request, Stored
<1>5. CASE SaveScore
  <2>1. scores' \subseteq Score /\ scores \subseteq scores'
    BY <1>5, Inserted DEF Counting
  <2> QED
    BY <1>5, <2>1 DEF SaveScore, request, Stored
<1>6. ASSUME NEW top \in SUBSET Stored, Select(top) PROVE TypeOK'
  <2>1. /\ listed' = [n \in Mapped(top) |-> entities[n].stars] /\ shown' = <<>> /\ began' = scores
        /\ failed' = {} /\ phase' = "attach" /\ UNCHANGED <<tables, now, upserts, draft, counts>>
    BY <1>6 DEF Select
  <2>2. \A n \in Mapped(top) : n \in Stored /\ entities[n].stars \in Nat
    BY DEF Mapped, Stored
  <2> QED
    BY <2>1, <2>2 DEF tables, Stored
<1>7. ASSUME NEW n \in Names, NEW score \in scores \cup {NoScore}, Show(n, score),
             failed' = failed \/ failed' = failed \cup {n}
      PROVE  TypeOK'
  <2>1. /\ DOMAIN shown' \subseteq DOMAIN listed
        /\ \A m \in DOMAIN shown' : shown'[m] \in scores \cup {NoScore}
    BY <1>7 DEF Show, Pending
  <2>2. UNCHANGED <<tables, now, upserts, draft, phase, listed, counts, began>>
    BY <1>7 DEF Show
  <2>3. failed' \subseteq Names \cup {"entities", "scores", "verdicts"}
    BY <1>7
  <2> QED
    BY <2>1, <2>2, <2>3 DEF tables, Stored
<1>8. CASE AnswerList
  BY <1>8 DEF AnswerList, tables, Stored
<1>9. CASE CountEntities
  <2>1. Cardinality(Stored) \in Nat
    BY FS_Subset, FS_CardinalityType DEF Stored
  <2>2. counts' \in [entities : Nat, scores : Nat, verdicts : [Verdicts -> Nat]]
    BY <1>9, <2>1 DEF CountEntities, NoCounts
  <2> QED
    BY <1>9, <2>2 DEF CountEntities, tables, Stored
<1>10. CASE CountScores
  BY <1>10, FS_CardinalityType DEF CountScores, Counting, tables, Stored
<1>11. CASE CountVerdicts
  <2>1. \A v \in Verdicts : Bar(v) \in Nat
    BY FS_Subset, FS_CardinalityType DEF Counting, Bar
  <2>2. counts' \in [entities : Nat, scores : Nat, verdicts : [Verdicts -> Nat]]
    <3>1. PICK read \in SUBSET Verdicts :
            counts' = [counts EXCEPT !.verdicts = [v \in Verdicts |-> IF v \in read THEN Bar(v) ELSE 0]]
      BY <1>11 DEF CountVerdicts
    <3>2. [v \in Verdicts |-> IF v \in read THEN Bar(v) ELSE 0] \in [Verdicts -> Nat]
      BY <2>1
    <3> QED
      BY <3>1, <3>2
  <2>3. failed' \subseteq Names \cup {"entities", "scores", "verdicts"}
    BY <1>11 DEF CountVerdicts
  <2>4. /\ phase' = "counted" /\ UNCHANGED <<tables, now, upserts, draft, listed, shown, began>>
    BY <1>11 DEF CountVerdicts
  <2> QED
    BY <2>2, <2>3, <2>4 DEF tables, Stored
<1>12. CASE AnswerStats
  BY <1>12 DEF AnswerStats, NoCounts, tables, Stored
<1>13. ASSUME NEW n \in Names, EntityDetail(n) PROVE TypeOK'
  <2>1. {n} \in SUBSET Stored /\ Select({n})
    BY <1>13 DEF EntityDetail
  <2> QED
    BY <1>6, <2>1
<1>14. ASSUME NEW matching \in SUBSET Names, Search(matching) PROVE TypeOK'
  <2>1. PICK top \in Read(matching \cap Stored, 50) : Select(top)
    BY <1>14 DEF Search
  <2>2. top \in SUBSET Stored
    BY DEF Read, Tops
  <2> QED
    BY <1>6, <2>1, <2>2
<1>15. ASSUME NEW matching \in SUBSET Names, NEW asked \in Asked, Entities(matching, asked) PROVE TypeOK'
  <2>1. PICK top \in Read(matching \cap Stored, Limit(asked)) : Select(top)
    BY <1>15 DEF Entities
  <2>2. top \in SUBSET Stored
    BY DEF Read, Tops
  <2> QED
    BY <1>6, <2>1, <2>2
<1>16. ASSUME NEW n \in Names, NEW score \in scores \cup {NoScore}, Attach(n, score) PROVE TypeOK'
  BY <1>7, <1>16 DEF Attach
<1>17. ASSUME NEW n \in Names, AttachFails(n) PROVE TypeOK'
  BY <1>7, <1>17 DEF AttachFails
<1> HIDE DEF TypeOK, IInv
<1> QED
  BY <1>1, <1>2, <1>3, <1>4, <1>5, <1>8, <1>9, <1>10, <1>11, <1>12, <1>13, <1>14, <1>15, <1>16, <1>17 DEF Next

------------------------------------------------------------------------------
\* Only SaveScore inserts, and it inserts a row of this second.
LEMMA DatedStep ==
  ASSUME IInv, [Next]_vars
  PROVE  Dated'
<1> USE DEF Dated, Latest, ScoresOf
<1>1. CASE SaveScore
  <2>1. PICK row : scores' = scores \cup {row} /\ row.at = now /\ now' = now
    <3> DEFINE result == ScoreEntity(draft.row, entities[draft.name].stars, NoDocs)
               inserted == [name |-> draft.name, serial |-> Cardinality(scores) + 1, at |-> now,
                            composite |-> result.composite, verdict |-> result.verdict,
                            trajectory |-> result.trajectory]
    <3>1. scores' = scores \cup {inserted} /\ now' = now
      BY <1>1 DEF SaveScore
    <3>2. inserted.at = now
      OBVIOUS
    <3> HIDE DEF inserted
    <3> QED
      BY <3>1, <3>2
  <2>2. \A s \in scores : s.at \in Nat /\ s.at <= now /\ now \in Nat
    BY DEF IInv, TypeOK, Score
  <2>3. now \in Nat
    BY DEF IInv, TypeOK
  <2>4. ASSUME NEW n \in Names, ScoresOf(n)' # {} PROVE Latest(n)' # {}
    <3>1. CASE row.name = n
      <4>1. row \in Latest(n)'
        <5>1. row \in ScoresOf(n)'
          BY <2>1, <3>1
        <5>2. \A t \in scores' : t.at <= row.at
          BY <2>1, <2>2, <2>3
        <5> QED
          BY <5>1, <5>2
      <4> QED
        BY <4>1
    <3>2. CASE row.name # n
      <4>1. ScoresOf(n)' = ScoresOf(n)
        BY <2>1, <3>2
      <4>2. Latest(n)' = Latest(n)
        BY <4>1
      <4> QED
        BY <2>4, <4>1, <4>2 DEF IInv
    <3> QED
      BY <3>1, <3>2
  <2>5. \A s \in scores' : s.at <= now'
    BY <2>1, <2>2, <2>3
  <2> QED
    BY <2>4, <2>5
<1>2. CASE Tick
  <2>1. scores' = scores /\ now \in Nat /\ now' = now + 1 /\ \A s \in scores : s.at \in Nat
    BY <1>2 DEF Tick, tables, IInv, TypeOK, Score
  <2> QED
    BY <2>1 DEF IInv
<1>3. CASE UNCHANGED <<scores, now>>
  BY <1>3 DEF IInv
<1> QED
  BY <1>1, <1>2, <1>3 DEF Next, vars, Upsert, Pick, EntityDetail, Search, Entities, Select, Attach, AttachFails, Show, AnswerList,
     CountEntities, CountScores, CountVerdicts, AnswerStats, tables

\* What FreshAnswers asks of the score shown for one entity.
FreshFor(n, score) ==
  \/ score = NoScore /\ (n \in failed \/ \A old \in began : old.name # n)
  \/ score \in ScoresOf(n) /\ \A old \in began : old.name = n => score.at >= old.at

\* What one statement reads is at least as new as what the request began with.
LEMMA AttachIsFresh ==
  ASSUME IInv, NEW n \in Names, NEW score, Attach(n, score)
  PROVE  FreshFor(n, score)
<1>1. /\ began \subseteq scores /\ scores \subseteq Score
      /\ score \in IF Latest(n) = {} THEN {NoScore} ELSE Latest(n)
  BY DEF Attach, IInv, TypeOK
<1>2. CASE Latest(n) = {}
  <2>1. ScoresOf(n) = {}
    BY <1>2 DEF IInv, Dated
  <2> QED
    BY <1>1, <1>2, <2>1 DEF FreshFor, ScoresOf
<1>3. CASE Latest(n) # {}
  <2>1. score \in ScoresOf(n) /\ \A t \in ScoresOf(n) : t.at <= score.at
    BY <1>1, <1>3 DEF Latest
  <2>2. ASSUME NEW old \in began, old.name = n PROVE score.at >= old.at
    <3>1. old \in ScoresOf(n) /\ old.at \in Nat /\ score.at \in Nat
      BY <1>1, <2>1, <2>2 DEF ScoresOf, Score
    <3> QED
      BY <2>1, <3>1
  <2> QED
    BY <2>1, <2>2 DEF FreshFor
<1> QED
  BY <1>2, <1>3

\* Showing one more score leaves the others as they were.
LEMMA ShowIsFresh ==
  ASSUME IInv, NEW n \in Names, NEW score, Show(n, score), failed \subseteq failed',
         FreshFor(n, score) \/ (score = NoScore /\ n \in failed')
  PROVE  FreshAnswers'
<1>1. /\ UNCHANGED <<scores, began>>
      /\ shown' = [m \in DOMAIN shown \cup {n} |-> IF m = n THEN score ELSE shown[m]]
  BY DEF Show, tables
<1>2. ASSUME NEW m \in DOMAIN shown'
      PROVE  \/ shown'[m] = NoScore /\ (m \in failed' \/ \A old \in began : old.name # m)
             \/ shown'[m] \in ScoresOf(m) /\ \A old \in began : old.name = m => shown'[m].at >= old.at
  <2>1. CASE m = n
    BY <1>1, <1>2, <2>1 DEF FreshFor
  <2>2. CASE m # n
    BY <1>1, <1>2, <2>2 DEF IInv, FreshAnswers
  <2> QED
    BY <2>1, <2>2
<1> QED
  BY <1>1, <1>2 DEF FreshAnswers, ScoresOf

LEMMA PhasedStep ==
  ASSUME IInv, [Next]_vars
  PROVE  Phased'
<1>1. CASE shown' = <<>> \/ phase' = "attach"
  BY <1>1 DEF Phased
<1>2. CASE UNCHANGED shown /\ (UNCHANGED phase \/ phase # "attach")
  BY <1>2 DEF IInv, Phased
<1> QED
  BY <1>1, <1>2 DEF Next, vars, Tick, Upsert, Pick, SaveScore, EntityDetail, Search, Entities, Select, Attach, AttachFails, Show,
     AnswerList, CountEntities, CountScores, CountVerdicts, AnswerStats, request

LEMMA FreshStep ==
  ASSUME IInv, [Next]_vars
  PROVE  FreshAnswers'
<1>1. CASE UNCHANGED <<shown, began, failed>>
  <2>1. \A n : ScoresOf(n) \subseteq ScoresOf(n)'
    BY Written DEF ScoresOf
  <2> QED
    BY <1>1, <2>1 DEF IInv, FreshAnswers
<1>2. CASE shown' = <<>>
  BY <1>2 DEF FreshAnswers
<1>3. ASSUME NEW top, Select(top) PROVE shown' = <<>>
  BY <1>3 DEF Select
<1>4. CASE UNCHANGED vars \/ Tick \/ SaveScore
  BY <1>1, <1>4 DEF vars, Tick, SaveScore, request
<1>5. CASE \E n \in Names, row \in Rows : Upsert(n, row)
  BY <1>1, <1>5 DEF Upsert, request
<1>6. CASE \E n \in Names : Pick(n)
  BY <1>1, <1>6 DEF Pick, request
<1>7. CASE \E n \in Names : EntityDetail(n)
  BY <1>2, <1>3, <1>7 DEF EntityDetail
<1>8. CASE \E matching \in SUBSET Names : Search(matching) \/ \E asked \in Asked : Entities(matching, asked)
  BY <1>2, <1>3, <1>8 DEF Search, Entities
<1>9. CASE \E n \in Names, score \in scores \cup {NoScore} : Attach(n, score)
  BY <1>9, AttachIsFresh, ShowIsFresh DEF Attach
<1>10. CASE \E n \in Names : AttachFails(n)
  BY <1>10, ShowIsFresh DEF AttachFails
<1>11. CASE AnswerList
  BY <1>2, <1>11 DEF AnswerList
<1>12. CASE CountEntities \/ CountScores \/ CountVerdicts \/ AnswerStats
  <2>1. UNCHANGED shown /\ phase # "attach"
    BY <1>12 DEF CountEntities, CountScores, CountVerdicts, AnswerStats
  <2> QED
    BY <2>1 DEF IInv, Phased, FreshAnswers
<1> QED
  BY <1>4, <1>5, <1>6, <1>7, <1>8, <1>9, <1>10, <1>11, <1>12 DEF Next

------------------------------------------------------------------------------
\* Every score is in one bar of the histogram.
LEMMA HistogramIsWhole ==
  ASSUME IsFiniteSet(scores), scores \subseteq Score
  PROVE  /\ \A v \in Verdicts : Bar(v) \in Nat
         /\ Cardinality(scores) <= Bar("green") + Bar("yellow") + Bar("red") + Bar("critical")
<1> DEFINE with(v) == {s \in scores : s.verdict = v}
<1>1. \A v : IsFiniteSet(with(v)) /\ Cardinality(with(v)) \in Nat
  BY FS_Subset, FS_CardinalityType
<1>2. scores = (with("green") \cup with("yellow")) \cup (with("red") \cup with("critical"))
  BY DEF Score, Verdicts
<1> HIDE DEF with
<1>3. ASSUME NEW S, NEW T, IsFiniteSet(S), IsFiniteSet(T)
      PROVE  /\ IsFiniteSet(S \cup T) /\ Cardinality(S \cup T) \in Nat
             /\ Cardinality(S \cup T) <= Cardinality(S) + Cardinality(T)
  <2>1. IsFiniteSet(S \cup T) /\ IsFiniteSet(S \cap T)
    BY <1>3, FS_Union, FS_Intersection
  <2>2. Cardinality(S \cup T) = Cardinality(S) + Cardinality(T) - Cardinality(S \cap T)
    BY <1>3, FS_Union
  <2> QED
    BY <1>3, <2>1, <2>2, FS_CardinalityType
<1>4. /\ IsFiniteSet(with("green") \cup with("yellow"))
      /\ Cardinality(with("green") \cup with("yellow")) \in Nat
      /\ Cardinality(with("green") \cup with("yellow")) <= Cardinality(with("green")) + Cardinality(with("yellow"))
  BY <1>1, <1>3
<1>5. /\ IsFiniteSet(with("red") \cup with("critical"))
      /\ Cardinality(with("red") \cup with("critical")) \in Nat
      /\ Cardinality(with("red") \cup with("critical")) <= Cardinality(with("red")) + Cardinality(with("critical"))
  BY <1>1, <1>3
<1>6. Cardinality(scores)
        <= Cardinality(with("green") \cup with("yellow")) + Cardinality(with("red") \cup with("critical"))
  BY <1>2, <1>3, <1>4, <1>5
<1>7. Cardinality(scores)
        <= Cardinality(with("green")) + Cardinality(with("yellow")) + Cardinality(with("red")) + Cardinality(with("critical"))
  BY <1>1, <1>4, <1>5, <1>6, FS_CardinalityType
<1> QED
  BY <1>1, <1>7 DEF with, Bar

\* A row is never deleted, so a score's entity stays stored.
LEMMA StoredStep ==
  ASSUME IInv, [Next]_vars
  PROVE  Stored \subseteq Stored'
<1>1. CASE UNCHANGED entities
  BY <1>1 DEF Stored
<1>2. ASSUME NEW n \in Names, NEW row \in Rows, Upsert(n, row) PROVE Stored \subseteq Stored'
  BY <1>2 DEF Upsert, Stored, IInv, TypeOK
<1> QED
  BY <1>1, <1>2 DEF Next, vars, Tick, Pick, SaveScore, EntityDetail, Search, Entities, Select, Attach, AttachFails,
     Show, AnswerList, CountEntities, CountScores, CountVerdicts, AnswerStats, tables

LEMMA CountingStep ==
  ASSUME IInv, [Next]_vars
  PROVE  Counting'
<1>1. /\ IsFiniteSet(scores') /\ Cardinality(scores) <= Cardinality(scores')
      /\ Cardinality(scores) \in Nat /\ Cardinality(scores') \in Nat
  BY Written, FS_Subset, FS_CardinalityType DEF IInv, Counting
<1>2. \A s \in scores' : s.name \in Stored'
  BY Written, StoredStep DEF IInv, Counting
<1>3. counts.scores \in Nat /\ began \subseteq scores
  BY DEF IInv, TypeOK
<1>4. CASE UNCHANGED <<phase, counts, began, failed>>
  BY <1>1, <1>2, <1>3, <1>4 DEF IInv, Counting, Scored
<1>5. CASE phase' \in {"idle", "attach"}
  BY <1>1, <1>2, <1>5 DEF Counting
<1>6. CASE CountEntities
  <2>1. Cardinality({s.name : s \in scores}) <= Cardinality(Stored) /\ Cardinality(Stored) \in Nat
    <3>1. {s.name : s \in scores} \subseteq Stored
      BY DEF IInv, Counting
    <3>2. IsFiniteSet(Stored)
      BY FS_Subset DEF Stored
    <3> QED
      BY <3>1, <3>2, FS_Subset, FS_CardinalityType
  <2>2. /\ counts'.scores = 0 /\ began' = scores
        /\ "entities" \in failed' \/ counts'.entities = Cardinality(Stored)
    BY <1>6 DEF CountEntities, NoCounts
  <2>3. "entities" \in failed' \/ Cardinality(Scored') <= counts'.entities
    BY <2>1, <2>2 DEF Scored
  <2>4. phase' = "count_scores"
    BY <1>6 DEF CountEntities
  <2> QED
    BY <1>1, <1>2, <2>2, <2>3, <2>4 DEF Counting
<1>7. CASE CountScores
  <2>1. Cardinality(began) <= Cardinality(scores)
    BY <1>3, FS_Subset DEF IInv, Counting
  <2>2. /\ counts'.entities = counts.entities /\ failed \subseteq failed'
        /\ counts'.scores = Cardinality(scores) \/ (counts'.scores = counts.scores /\ "scores" \in failed')
        /\ scores' = scores /\ began' = began /\ phase = "count_scores"
    BY <1>7 DEF CountScores, tables, IInv, TypeOK
  <2>3. Scored' = Scored
    BY <2>2 DEF Scored
  <2>4. /\ "entities" \in failed \/ Cardinality(Scored) <= counts.entities
        /\ counts.scores <= Cardinality(scores)
    BY <2>2 DEF IInv, Counting
  <2> QED
    BY <1>1, <1>2, <2>1, <2>2, <2>3, <2>4 DEF Counting
<1>8. CASE CountVerdicts
  <2>1. /\ counts'.scores = counts.scores /\ counts'.entities = counts.entities /\ failed \subseteq failed'
        /\ scores' = scores /\ began' = began /\ phase = "count_verdicts"
    BY <1>8 DEF CountVerdicts, tables, IInv, TypeOK
  <2>2. Scored' = Scored
    BY <2>1 DEF Scored
  <2> QED
    BY <1>1, <1>2, <2>1, <2>2 DEF IInv, Counting
<1> QED
  BY <1>4, <1>5, <1>6, <1>7, <1>8 DEF Next, vars, Tick, Upsert, Pick, SaveScore, EntityDetail, Search, Entities,
     Select, Attach, AttachFails, Show, AnswerList, AnswerStats, request, Counting, IInv

\* The histogram, whole or cut short.
LEMMA HistogramAgrees ==
  ASSUME IInv, CountVerdicts
  PROVE  LET histogram == counts'.verdicts
         IN /\ \/ "verdicts" \in failed'
               \/ counts.scores <= histogram["green"] + histogram["yellow"] + histogram["red"] + histogram["critical"]
            /\ \A v \in Verdicts :
                 \/ Cardinality({s \in began : s.verdict = v}) <= histogram[v]
                 \/ "verdicts" \in failed' /\ histogram[v] = 0
<1>1. /\ \A v \in Verdicts : Bar(v) \in Nat
      /\ Cardinality(scores) <= Bar("green") + Bar("yellow") + Bar("red") + Bar("critical")
  BY HistogramIsWhole DEF IInv, TypeOK, Counting
<1>2. counts.scores \in Nat /\ Cardinality(scores) \in Nat /\ counts.scores <= Cardinality(scores)
  BY FS_CardinalityType DEF CountVerdicts, IInv, TypeOK, Counting
<1>3. \A v \in Verdicts : Cardinality({s \in began : s.verdict = v}) <= Bar(v)
  BY FS_Subset DEF IInv, TypeOK, Counting, Bar
<1>4. PICK read \in SUBSET Verdicts :
        /\ counts' = [counts EXCEPT !.verdicts = [v \in Verdicts |-> IF v \in read THEN Bar(v) ELSE 0]]
        /\ failed' = IF \A v \in Verdicts \ read : Bar(v) = 0 THEN failed ELSE failed \cup {"verdicts"}
  BY DEF CountVerdicts
<1>5. counts'.verdicts = [v \in Verdicts |-> IF v \in read THEN Bar(v) ELSE 0]
  BY <1>4 DEF IInv, TypeOK
<1>6. CASE \A v \in Verdicts \ read : Bar(v) = 0
  <2>1. \A v \in Verdicts : counts'.verdicts[v] = Bar(v)
    BY <1>5, <1>6
  <2>2. /\ Bar("green") \in Nat /\ Bar("yellow") \in Nat /\ Bar("red") \in Nat /\ Bar("critical") \in Nat
        /\ counts'.verdicts["green"] = Bar("green") /\ counts'.verdicts["yellow"] = Bar("yellow")
        /\ counts'.verdicts["red"] = Bar("red") /\ counts'.verdicts["critical"] = Bar("critical")
    BY <1>1, <2>1 DEF Verdicts
  <2>3. counts.scores <= Bar("green") + Bar("yellow") + Bar("red") + Bar("critical")
    BY <1>1, <1>2, <2>2
  <2> QED
    BY <1>3, <2>1, <2>2, <2>3
<1>7. CASE ~\A v \in Verdicts \ read : Bar(v) = 0
  BY <1>3, <1>4, <1>5, <1>7
<1> QED
  BY <1>6, <1>7

LEMMA AgreeStep ==
  ASSUME IInv, [Next]_vars
  PROVE  StatsAgree'
<1>1. CASE UNCHANGED <<phase, counts, began, failed>>
  BY <1>1 DEF IInv, StatsAgree
<1>2. CASE phase' # "counted"
  BY <1>2 DEF StatsAgree
<1>3. CASE CountVerdicts
  <2>1. /\ counts'.scores = counts.scores /\ counts'.entities = counts.entities /\ failed \subseteq failed'
        /\ began' = began /\ phase = "count_verdicts"
    BY <1>3 DEF CountVerdicts, IInv, TypeOK
  <2>2. /\ "entities" \in failed \/ Cardinality(Scored) <= counts.entities
        /\ "scores" \in failed \/ Cardinality(began) <= counts.scores
    BY <2>1 DEF IInv, Counting
  <2> QED
    BY <1>3, <2>1, <2>2, HistogramAgrees DEF StatsAgree, Scored
<1> QED
  BY <1>1, <1>2, <1>3 DEF Next, vars, Tick, Upsert, Pick, SaveScore, EntityDetail, Search, Entities,
     Select, Attach, AttachFails, Show, AnswerList, CountEntities, CountScores, AnswerStats, request, IInv, TypeOK

------------------------------------------------------------------------------
\* The inductive invariant of the read side: what requests have read stays
\* stored, and what is counted late is counted completely.
THEOREM ReadingInvariant == Spec => []IInv
<1>1. IInv /\ [Next]_vars => IInv'
  BY TypeStep, DatedStep, PhasedStep, FreshStep, NeverGreenStep, CountingStep, AgreeStep DEF IInv
<1> QED
  BY InitIInv, <1>1, PTL DEF Spec

\* The handlers and the programs beside them keep every variable in its type:
\* every score they store passes the checks of its columns.
THEOREM TypeCorrect == Spec => []TypeOK
<1>1. IInv => TypeOK
  BY DEF IInv
<1> QED
  BY ReadingInvariant, <1>1, PTL

\* An answer never shows a score older than those its request began with, and
\* leaves one out only for its own failed statement (the statement per entity).
THEOREM AnswersAreFresh == Spec => []FreshAnswers
<1>1. IInv => FreshAnswers
  BY DEF IInv
<1> QED
  BY ReadingInvariant, <1>1, PTL

\* The three statements of stats agree whatever is inserted between them, but
\* for those that failed.
THEOREM CountsAgree == Spec => []StatsAgree
<1>1. IInv => StatsAgree
  BY DEF IInv
<1> QED
  BY ReadingInvariant, <1>1, PTL

\* No entity is ever green (score.rs passes no README fetcher).
THEOREM SiteIsNeverGreen == Spec => []NeverGreen
<1>1. IInv => NeverGreen
  BY DEF IInv
<1> QED
  BY ReadingInvariant, <1>1, PTL
==============================================================================
