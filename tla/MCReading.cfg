\* Two entities; limits 1, and 50 for an invalid one.
CONSTANTS
  NoVelocity = NoVelocity
  n1 = n1
  n2 = n2
  Names = {n1, n2}
  Rows <- SomeRows
  Asked = {0, 1}
  MaxUpserts = 3
  MaxScores = 3
  MaxTime = 1
  NoPush = NoPush
  NoRow = NoRow
  NoDraft = NoDraft
  NoScore = NoScore

SPECIFICATION Spec

INVARIANTS
  TypeOK
  FreshAnswers
  StatsAgree
  NeverGreen
