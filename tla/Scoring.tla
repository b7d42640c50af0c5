-------------------------------- MODULE Scoring --------------------------------
(***************************************************************************)
(* The arithmetic of chassis/src/scoring.rs, without state.                *)
(*                                                                         *)
(* Its floats are exact multiples of known fractions, so the module counts *)
(* in them: the issue ratio in thousandths, the composite in five          *)
(* hundredths before rounding.  Times are in hours.                        *)
(***************************************************************************)
EXTENDS Integers, Sequences

CONSTANT NoVelocity \* fewer than two dated releases

ASSUME VelocityAssumption == NoVelocity \notin Int

Verdicts == {"green", "yellow", "red", "critical"}

\* From worst to best.
Rank(verdict) ==
  CASE verdict = "critical" -> 0 [] verdict = "red" -> 1 [] verdict = "yellow" -> 2 [] OTHER -> 3

AtMost(n, hi) == IF n > hi THEN hi ELSE n

When(condition, points) == IF condition THEN points ELSE 0

------------------------------------------------------------------------------
(***************************************************************************)
(* Trajectory.  Signals: velocity and push in days, issues in thousandths. *)
(***************************************************************************)
Signal == [velocity : Int \cup {NoVelocity}, push : Int, issues : Nat]

\* as i64 division of whole_hours: truncated towards zero.
Days(hours) == IF hours >= 0 THEN hours \div 24 ELSE -((-hours) \div 24)

\* round(1000 * open / stars), half up; an unstarred repository has none.
IssuesRatio(open, stars) == IF stars > 0 THEN (2000 * open + stars) \div (2 * stars) ELSE 0

\* The average gap of the at most five newest releases, newest first.
Velocity(dates) ==
  LET newest == SubSeq(dates, 1, IF Len(dates) < 5 THEN Len(dates) ELSE 5)
      gaps == Len(newest) - 1
      total[i \in 0 .. 4] == IF i = 0 THEN 0 ELSE total[i - 1] + Days(newest[i] - newest[i + 1])
  IN IF gaps < 1 THEN NoVelocity
     ELSE IF total[gaps] >= 0 THEN total[gaps] \div gaps ELSE -((-total[gaps]) \div gaps)

\* A last push that cannot be parsed counts as zero days ago.
Signals(repo) ==
  [velocity |-> Velocity(repo.releases),
   push |-> IF repo.push.parsed THEN Days(repo.push.hours) ELSE 0,
   issues |-> IssuesRatio(repo.issues, repo.stars)]

HasVelocity(s) == s.velocity # NoVelocity

\* trajectory_score: steps up and down from 50.
VelocityPoints(s) ==
  IF ~HasVelocity(s) THEN 0
  ELSE IF s.velocity < 30 THEN 20 ELSE IF s.velocity < 60 THEN 10 ELSE When(s.velocity > 120, -15)

PushPoints(s) == IF s.push < 30 THEN 15 ELSE When(s.push > 90, -20)

IssuesPoints(s) == IF s.issues < 50 THEN 10 ELSE When(s.issues > 150, -15)

TrajectoryScore(s) ==
  LET score == AtMost(50 + VelocityPoints(s) + PushPoints(s) + IssuesPoints(s), 100)
  IN IF score < 0 THEN 0 ELSE score

Trajectory(s) ==
  IF ~HasVelocity(s) THEN "unknown"
  ELSE IF s.push < 30 /\ s.velocity < 45 THEN "accelerating"
  ELSE IF s.push < 90 /\ s.velocity < 90 THEN "plateauing"
  ELSE IF s.push > 180 THEN "declining" ELSE "plateauing"

------------------------------------------------------------------------------
(***************************************************************************)
(* Documentation.  A README is what the code looks for in it: the phrases  *)
(* it contains (in lower case), its fences and its bytes.                  *)
(***************************************************************************)
Sections == {"install", "usage", "contributing", "license", "changelog", "examples", "api"}

Phrases ==
  [install |-> {"## install", "## getting started"}, usage |-> {"## usage", "## how to use"},
   contributing |-> {"## contributing"}, license |-> {"## license", "mit"},
   changelog |-> {"## changelog", "## changes"}, examples |-> {"examples", "samples"},
   api |-> {"api", "reference"}]

\* DocSignals::default(), and what production always scores with: no fetcher.
NoDocs == [readme |-> FALSE, sections |-> {}, quickstart |-> 0, fences |-> 0, bytes |-> 0]

Quickstart(sections) ==
  IF {"install", "usage"} \subseteq sections THEN 5 ELSE IF sections \cap {"install", "usage"} # {} THEN 10 ELSE 30

AnalyzeReadme(text) ==
  LET found == {s \in Sections : Phrases[s] \cap text.phrases # {}}
  IN IF text.bytes = 0 THEN NoDocs
     ELSE [readme |-> TRUE, sections |-> found, quickstart |-> Quickstart(found),
           fences |-> text.fences, bytes |-> text.bytes]

SectionPoints(sections) ==
  When("install" \in sections, 15) + When("usage" \in sections, 15) + When("contributing" \in sections, 10)
    + When("license" \in sections, 5) + When("changelog" \in sections, 10) + When("examples" \in sections, 10)
    + When("api" \in sections, 10)

DocScore(docs) ==
  IF ~docs.readme THEN 0
  ELSE AtMost(20 + SectionPoints(docs.sections) + When(docs.quickstart <= 5, 5)
                + When(docs.fences >= 3, 5) + When(docs.bytes > 500, 5), 100)

DocVerdict(score) ==
  IF score >= 80 THEN "excellent" ELSE IF score >= 60 THEN "adequate" ELSE IF score >= 40 THEN "poor" ELSE "none"

------------------------------------------------------------------------------
(***************************************************************************)
(* score_entity.                                                           *)
(***************************************************************************)
\* Mutant: popularity has no ceiling.
MutantComposite(trajectory, doc, stars) == (225 * trajectory + 175 * doc + stars + 250) \div 500

\* round(0.45 trajectory + 0.35 doc + 0.20 popularity), where popularity is a
\* hundredth of the stars, at most 100.
Composite(trajectory, doc, stars) ==
  (225 * trajectory + 175 * doc + AtMost(stars, 10000) + 250) \div 500

\* Stale and issue-ridden repositories are red, whatever they score.
Verdict(composite, s) ==
  IF s.push > 365 \/ s.issues > 200 THEN "red"
  ELSE IF composite >= 70 THEN "green" ELSE IF composite >= 50 THEN "yellow"
  ELSE IF composite >= 30 THEN "red" ELSE "critical"

\* The last read of the stars is a statement of its own; documentation counts
\* only when a README was fetched.
ScoreEntity(repo, stars, docs) ==
  LET s == Signals(repo)
      composite == Composite(TrajectoryScore(s), DocScore(docs), stars)
  IN [composite |-> composite, verdict |-> Verdict(composite, s), trajectory |-> Trajectory(s)]
==============================================================================
