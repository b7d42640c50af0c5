\* deps.dev answers for the package and not for its version.
CONSTANTS
  n1 = n1
  n2 = n2
  Names = {n1, n2}
  Unpushed = {}
  Searches <- TwoSearches
  Lookups = {"no_package", "package_failed", "no_default", "no_version", "version_failed", "counted"}
  Timer = timer
  Operators = {}
  ByHand = {}
  MaxLaunches = 1
  MaxWorld = 1
  MaxFaults = 0
  NoRow = NoRow
  NoScore = NoScore
  NoReport = NoReport

SPECIFICATION Spec

INVARIANT LookupFailuresShow

\* Launches run out.
CHECK_DEADLOCK FALSE
