----------------------------- MODULE ScoringProofs -----------------------------
(***************************************************************************)
(* What the scoring formulas guarantee for every repository: linear        *)
(* arithmetic over the points, and one argument about division for the     *)
(* issue ratio.                                                            *)
(***************************************************************************)
EXTENDS Scoring, TLAPS

LEMMA PointsBound ==
  ASSUME NEW s
  PROVE  /\ VelocityPoints(s) \in {-15, 0, 10, 20}
         /\ PushPoints(s) \in {-20, 0, 15}
         /\ IssuesPoints(s) \in {-15, 0, 10}
BY DEF VelocityPoints, PushPoints, IssuesPoints, When

LEMMA TrajectoryRange ==
  ASSUME NEW s
  PROVE  TrajectoryScore(s) \in 0 .. 95
BY PointsBound DEF TrajectoryScore, AtMost

LEMMA DocRange ==
  ASSUME NEW docs
  PROVE  DocScore(docs) \in 0 .. 100
<1>1. SectionPoints(docs.sections) \in 0 .. 75
  BY DEF SectionPoints, When
<1>2. /\ When(docs.quickstart <= 5, 5) \in {0, 5} /\ When(docs.fences >= 3, 5) \in {0, 5}
      /\ When(docs.bytes > 500, 5) \in {0, 5}
  BY DEF When
<1> QED
  BY <1>1, <1>2 DEF DocScore, AtMost

LEMMA CompositeBounds ==
  ASSUME NEW t \in 0 .. 95, NEW d \in 0 .. 100, NEW stars \in Nat
  PROVE  Composite(t, d, stars) \in 0 .. 100
BY DEF Composite, AtMost

LEMMA UndocumentedBounds ==
  ASSUME NEW t \in 0 .. 95, NEW stars \in Nat
  PROVE  Composite(t, 0, stars) \in 0 .. 63
BY DEF Composite, AtMost

\* Every score passes CHECK (composite_score BETWEEN 0 AND 100), so save_score is
\* never refused for it.
THEOREM CompositeInRange ==
  ASSUME NEW repo, NEW stars \in Nat, NEW docs
  PROVE  ScoreEntity(repo, stars, docs).composite \in 0 .. 100
BY TrajectoryRange, DocRange, CompositeBounds DEF ScoreEntity

\* Without a README, as the score program always scores, nothing is green: 95
\* trajectory points and all the stars make 63.
THEOREM NoDocsNoGreen ==
  ASSUME NEW repo, NEW stars \in Nat
  PROVE  /\ ScoreEntity(repo, stars, NoDocs).composite <= 63
         /\ ScoreEntity(repo, stars, NoDocs).verdict \in {"yellow", "red", "critical"}
<1> DEFINE s == Signals(repo)
           c == Composite(TrajectoryScore(s), 0, stars)
<1>1. DocScore(NoDocs) = 0
  BY DEF DocScore, NoDocs
<1>2. c \in 0 .. 63
  BY TrajectoryRange, UndocumentedBounds
<1>3. Verdict(c, s) \in {"yellow", "red", "critical"}
  BY <1>2 DEF Verdict
<1> QED
  BY <1>1, <1>2, <1>3 DEF ScoreEntity

\* More stars never raise the issue ratio, once there is one.
LEMMA RatioFalls ==
  ASSUME NEW open \in Nat, NEW a \in Nat \ {0}, NEW b \in Nat, a <= b
  PROVE  IssuesRatio(open, b) \in Nat /\ IssuesRatio(open, a) \in Nat /\ IssuesRatio(open, b) <= IssuesRatio(open, a)
<1> DEFINE q == (2000 * open + a) \div (2 * a)
           r == (2000 * open + b) \div (2 * b)
<1>1. q \in Nat /\ 2000 * open + a < 2 * a * (q + 1)
  OBVIOUS
<1>2. r \in Nat /\ 2 * b * r <= 2000 * open + b
  OBVIOUS
<1>3. r <= q
  <2> SUFFICES ASSUME r >= q + 1 PROVE FALSE
    BY <1>1, <1>2
  <2> HIDE DEF q, r
  <2>1. 2 * b * (q + 1) <= 2 * b * r
    BY <1>1, <1>2
  <2>2. 2 * b * (q + 1) - b <= 2000 * open
    BY <1>1, <1>2, <2>1
  <2>3. 2 * b * (q + 1) - b = b * (2 * q + 1) /\ 2 * a * (q + 1) - a = a * (2 * q + 1)
    BY <1>1
  <2>4. a * (2 * q + 1) <= b * (2 * q + 1)
    BY <1>1
  <2>5. 2000 * open < a * (2 * q + 1)
    BY <1>1, <2>3
  <2> QED
    BY <1>1, <2>2, <2>3, <2>4, <2>5
<1> QED
  BY <1>1, <1>2, <1>3 DEF IssuesRatio

LEMMA CompositeGrows ==
  ASSUME NEW t \in 0 .. 95, NEW v \in 0 .. 95, NEW d \in 0 .. 100, NEW a \in Nat, NEW b \in Nat, t <= v, a <= b
  PROVE  Composite(t, d, a) \in Int /\ Composite(v, d, b) \in Int /\ Composite(t, d, a) <= Composite(v, d, b)
<1>1. AtMost(a, 10000) \in Nat /\ AtMost(b, 10000) \in Nat /\ AtMost(a, 10000) <= AtMost(b, 10000)
  BY DEF AtMost
<1> DEFINE m == 225 * t + 175 * d + AtMost(a, 10000) + 250
           n == 225 * v + 175 * d + AtMost(b, 10000) + 250
<1>2. m \in Nat /\ n \in Nat /\ m <= n
  BY <1>1
<1> HIDE DEF m, n
<1>3. m \div 500 <= n \div 500 /\ m \div 500 \in Int /\ n \div 500 \in Int
  BY <1>2
<1> QED
  BY <1>3 DEF Composite, m, n

\* Stars never count against a repository that has any: with everything else equal,
\* more of them give no lower composite, and no worse verdict from 30 points
\* on.  Neither condition can go: without stars the issue ratio is 0, and below
\* 30 points a repository with too many issues is "red" where one with fewer is
\* "critical".
THEOREM MoreStarsNeverWorse ==
  ASSUME NEW repo, NEW b \in Nat, repo.issues \in Nat, repo.stars \in Nat \ {0}, repo.stars <= b,
         repo = [stars |-> repo.stars, issues |-> repo.issues, push |-> repo.push, releases |-> repo.releases],
         Signals(repo).push \in Int, NEW docs
  PROVE  LET starred == [repo EXCEPT !.stars = b]
             before == ScoreEntity(repo, repo.stars, docs)
             after == ScoreEntity(starred, b, docs)
         IN /\ before.composite <= after.composite
            /\ after.composite >= 30 => Rank(before.verdict) <= Rank(after.verdict)
<1> DEFINE starred == [repo EXCEPT !.stars = b]
           s == Signals(repo)
           u == Signals(starred)
           d == DocScore(docs)
           c == Composite(TrajectoryScore(s), d, repo.stars)
           e == Composite(TrajectoryScore(u), d, b)
<1>1. /\ s.issues \in Nat /\ u.issues \in Nat /\ u.issues <= s.issues
      /\ u.push = s.push /\ u.velocity = s.velocity
  BY RatioFalls DEF Signals
<1>2. TrajectoryScore(s) <= TrajectoryScore(u)
  <2>1. VelocityPoints(s) = VelocityPoints(u) /\ PushPoints(s) = PushPoints(u)
    BY <1>1 DEF VelocityPoints, PushPoints, HasVelocity
  <2>2. IssuesPoints(s) <= IssuesPoints(u)
    BY <1>1 DEF IssuesPoints, When
  <2> HIDE DEF s, u
  <2> QED
    BY <2>1, <2>2, PointsBound DEF TrajectoryScore, AtMost
<1>3. c \in Int /\ e \in Int /\ c <= e
  <2>1. TrajectoryScore(s) \in 0 .. 95 /\ TrajectoryScore(u) \in 0 .. 95 /\ d \in 0 .. 100
    BY TrajectoryRange, DocRange
  <2> QED
    BY <1>2, <2>1, CompositeGrows
<1>4. ASSUME e >= 30 PROVE Rank(Verdict(c, s)) <= Rank(Verdict(e, u))
  <2> HIDE DEF c, e, s, u
  <2>2. s.push \in Int
    BY DEF s
  <2>3. CASE u.push > 365 \/ u.issues > 200
    BY <1>1, <1>3, <1>4, <2>2, <2>3 DEF Verdict, Rank
  <2>4. CASE ~(u.push > 365 \/ u.issues > 200)
    BY <1>1, <1>3, <1>4, <2>2, <2>4 DEF Verdict, Rank
  <2> QED
    BY <2>3, <2>4
<1> QED
  BY <1>3, <1>4 DEF ScoreEntity

\* doc_verdict calls a README excellent only when analyze_readme found in it how to
\* install or how to use the thing: everything else together makes 75 points.
THEOREM ExcellentExplainsUse ==
  ASSUME NEW text, LET docs == AnalyzeReadme(text) IN DocVerdict(DocScore(docs)) = "excellent"
  PROVE  /\ text.bytes # 0
         /\ \E p \in Phrases["install"] \cup Phrases["usage"] : p \in text.phrases
<1> DEFINE found == {s \in Sections : Phrases[s] \cap text.phrases # {}}
           docs == AnalyzeReadme(text)
<1>1. text.bytes # 0
  BY DEF AnalyzeReadme, NoDocs, DocScore, DocVerdict
<1>2. /\ docs.readme /\ docs.sections = found /\ docs.quickstart = Quickstart(found)
      /\ docs.fences = text.fences /\ docs.bytes = text.bytes
  BY <1>1 DEF AnalyzeReadme
<1>3. {"install", "usage"} \cap found # {}
  <2>1. SUFFICES ASSUME "install" \notin found, "usage" \notin found PROVE FALSE
    OBVIOUS
  <2>2. Quickstart(found) = 30
    BY <2>1 DEF Quickstart
  <2>3. SectionPoints(found) \in 0 .. 45
    BY <2>1 DEF SectionPoints, When
  <2> HIDE DEF found, docs
  <2>4. DocScore(docs) <= 75
    BY <1>2, <2>2, <2>3 DEF DocScore, AtMost, When
  <2>5. DocScore(docs) \in Int
    BY <1>2, <2>2, <2>3 DEF DocScore, AtMost, When
  <2> QED
    BY <2>4, <2>5 DEF DocVerdict, docs
<1> QED
  BY <1>1, <1>3 DEF Sections

------------------------------------------------------------------------------
\* Every step of trajectory_score rewards the shorter interval, the later push and
\* the fewer issues.
LEMMA BetterSignals ==
  ASSUME NEW s \in Signal, NEW u \in Signal, u.push <= s.push, u.issues <= s.issues,
         HasVelocity(s) <=> HasVelocity(u), HasVelocity(s) => u.velocity <= s.velocity
  PROVE  TrajectoryScore(s) <= TrajectoryScore(u)
<1>0. /\ s.push \in Int /\ u.push \in Int /\ s.issues \in Nat /\ u.issues \in Nat
      /\ HasVelocity(s) => s.velocity \in Int /\ u.velocity \in Int
  BY VelocityAssumption DEF Signal, HasVelocity
<1>1. VelocityPoints(s) <= VelocityPoints(u)
  <2>1. CASE HasVelocity(s)
    BY <1>0, <2>1 DEF VelocityPoints, When
  <2>2. CASE ~HasVelocity(s)
    BY <2>2 DEF VelocityPoints
  <2> QED
    BY <2>1, <2>2
<1>2. PushPoints(s) <= PushPoints(u)
  BY <1>0 DEF PushPoints, When
<1>3. IssuesPoints(s) <= IssuesPoints(u)
  BY <1>0 DEF IssuesPoints, When
<1> QED
  BY <1>1, <1>2, <1>3, PointsBound DEF TrajectoryScore, AtMost

LEMMA DaysGrow ==
  ASSUME NEW a \in Int, NEW b \in Int, a <= b
  PROVE  Days(a) \in Int /\ Days(b) \in Int /\ Days(a) <= Days(b)
BY DEF Days

LEMMA RatioGrows ==
  ASSUME NEW stars \in Nat, NEW a \in Nat, NEW b \in Nat, a <= b
  PROVE  IssuesRatio(a, stars) \in Nat /\ IssuesRatio(b, stars) \in Nat /\ IssuesRatio(a, stars) <= IssuesRatio(b, stars)
<1>1. CASE stars = 0
  BY <1>1 DEF IssuesRatio
<1>2. CASE stars > 0
  <2> DEFINE q == (2000 * a + stars) \div (2 * stars)
             r == (2000 * b + stars) \div (2 * stars)
  <2>1. q \in Nat /\ 2 * stars * q <= 2000 * a + stars
    BY <1>2
  <2>2. r \in Nat /\ 2000 * b + stars < 2 * stars * (r + 1)
    BY <1>2
  <2>3. q <= r
    <3> SUFFICES ASSUME q >= r + 1 PROVE FALSE
      BY <2>1, <2>2
    <3> HIDE DEF q, r
    <3>1. 2 * stars * (r + 1) <= 2 * stars * q
      BY <1>2, <2>1, <2>2
    <3> QED
      BY <1>2, <2>1, <2>2, <3>1
  <2> QED
    BY <1>2, <2>1, <2>2, <2>3 DEF IssuesRatio
<1> QED
  BY <1>1, <1>2

\* Maintenance is never punished: with everything else equal, a later push and
\* fewer open issues give no lower composite, and no worse verdict from 30
\* points on.
THEOREM UpkeepNeverWorse ==
  ASSUME NEW repo, NEW hours \in Int, NEW open \in Nat, NEW docs,
         repo = [stars |-> repo.stars, issues |-> repo.issues, push |-> repo.push, releases |-> repo.releases],
         repo.push = [parsed |-> TRUE, hours |-> repo.push.hours],
         repo.stars \in Nat, repo.issues \in Nat, repo.push.hours \in Int,
         Velocity(repo.releases) \in Int \cup {NoVelocity},
         hours <= repo.push.hours, open <= repo.issues
  PROVE  LET kept == [repo EXCEPT !.issues = open, !.push = [parsed |-> TRUE, hours |-> hours]]
             before == ScoreEntity(repo, repo.stars, docs)
             after == ScoreEntity(kept, repo.stars, docs)
         IN /\ before.composite <= after.composite
            /\ after.composite >= 30 => Rank(before.verdict) <= Rank(after.verdict)
<1> DEFINE kept == [repo EXCEPT !.issues = open, !.push = [parsed |-> TRUE, hours |-> hours]]
           s == Signals(repo)
           u == Signals(kept)
           d == DocScore(docs)
           c == Composite(TrajectoryScore(s), d, repo.stars)
           e == Composite(TrajectoryScore(u), d, repo.stars)
<1>1. /\ kept.stars = repo.stars /\ kept.issues = open /\ kept.releases = repo.releases
      /\ kept.push.parsed = TRUE /\ kept.push.hours = hours /\ repo.push.parsed = TRUE
  OBVIOUS
<1>2. /\ s = [velocity |-> Velocity(repo.releases), push |-> Days(repo.push.hours),
               issues |-> IssuesRatio(repo.issues, repo.stars)]
      /\ u = [velocity |-> Velocity(repo.releases), push |-> Days(hours),
               issues |-> IssuesRatio(open, repo.stars)]
  BY <1>1 DEF Signals
<1> HIDE DEF kept, s, u
<1>3. s \in Signal /\ u \in Signal /\ u.push <= s.push /\ u.issues <= s.issues /\ u.velocity = s.velocity
  BY <1>2, DaysGrow, RatioGrows DEF Signal
<1>4. TrajectoryScore(s) <= TrajectoryScore(u)
  <2>1. (HasVelocity(s) <=> HasVelocity(u)) /\ (HasVelocity(s) => u.velocity <= s.velocity)
    BY <1>3 DEF HasVelocity, Signal
  <2> QED
    BY <1>3, <2>1, BetterSignals
<1>5. c \in Int /\ e \in Int /\ c <= e
  <2>1. TrajectoryScore(s) \in 0 .. 95 /\ TrajectoryScore(u) \in 0 .. 95 /\ d \in 0 .. 100
    BY TrajectoryRange, DocRange
  <2>2. repo.stars \in Nat /\ repo.stars <= repo.stars
    OBVIOUS
  <2> HIDE DEF d
  <2> QED
    BY <1>4, <2>1, <2>2, CompositeGrows
<1>6. ASSUME e >= 30 PROVE Rank(Verdict(c, s)) <= Rank(Verdict(e, u))
  <2> HIDE DEF c, e
  <2>1. s.push \in Int /\ u.push \in Int /\ s.issues \in Nat /\ u.issues \in Nat
    BY <1>3 DEF Signal
  <2> QED
    BY <1>3, <1>5, <1>6, <2>1 DEF Verdict, Rank
<1> QED
  BY <1>5, <1>6 DEF ScoreEntity, kept, s, u

\* The trajectory label and the trajectory score are computed apart, with other
\* thresholds, and still never contradict each other.
THEOREM LabelsAgree ==
  ASSUME NEW s \in Signal, NEW u \in Signal, Trajectory(s) = "accelerating", Trajectory(u) = "declining"
  PROVE  TrajectoryScore(u) <= 60 /\ 60 <= TrajectoryScore(s)
<1>1. s.push \in Int /\ u.push \in Int
  BY DEF Signal
<1>2. HasVelocity(s) /\ s.velocity \in Int /\ s.push < 30 /\ s.velocity < 45
  BY DEF Trajectory, HasVelocity, Signal
<1>3. u.push > 180
  BY DEF Trajectory
<1>4. VelocityPoints(s) >= 10 /\ PushPoints(s) = 15 /\ IssuesPoints(s) \in {-15, 0, 10}
  BY <1>1, <1>2, PointsBound DEF VelocityPoints, PushPoints
<1>5. VelocityPoints(u) \in {-15, 0, 10, 20} /\ PushPoints(u) = -20 /\ IssuesPoints(u) \in {-15, 0, 10}
  BY <1>1, <1>3, PointsBound DEF PushPoints, When
<1>6. VelocityPoints(s) \in {-15, 0, 10, 20}
  BY PointsBound
<1> QED
  BY <1>4, <1>5, <1>6 DEF TrajectoryScore, AtMost
==============================================================================
