\* Two processes on a new or older file; two rows may share a name.
CONSTANTS
  Procs = {p1, p2}
  Ids = {e1, e2}
  Names = {n1, n2}
  Scores = {x1}
  MaxFaults = 1
  NoEntity = NoEntity

SPECIFICATION FairSpec

INVARIANTS
  TypeOK
  ReadyIsV2

PROPERTIES
  EntitiesKept
  SettledKeepsScores
  EveryoneGetsReady
