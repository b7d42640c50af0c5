\* The unit and an operator: one job, one program by hand, one fault.
CONSTANTS
  n1 = n1
  n2 = n2
  Names = {n1, n2}
  Unpushed = {n2}
  Searches <- TwoSearches
  Lookups = {"counted"}
  Timer = timer
  Operators = {operator}
  ByHand = {"github", "score"}
  MaxLaunches = 2
  MaxWorld = 2
  MaxFaults = 1
  NoRow = NoRow
  NoScore = NoScore
  NoReport = NoReport

SPECIFICATION FairSpec

INVARIANTS
  TypeOK
  LogHonest
  ScoresCurrent

PROPERTIES
  ImplementsCatalog
  Refreshed
  JobEnds

\* Launches run out.
CHECK_DEADLOCK FALSE
