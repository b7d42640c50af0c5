\* Two deployments, in turn or overlapping; two faults.
CONSTANTS
  d1 = d1
  d2 = d2
  Deployments = {d1, d2}
  First = first
  None = None
  Partial = Partial
  MaxFaults = 2

SPECIFICATION Spec

SYMMETRY Symmetry

INVARIANTS
  TypeOK
  PreviousKept
  NeverHalfWritten

PROPERTIES
  RollbackRestores
  SuccessIsLive

\* The deployments end.
CHECK_DEADLOCK FALSE
