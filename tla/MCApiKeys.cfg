\* Two keys, two allowed passes per two-second window, half-second ticks.
CONSTANTS
  Keys = {k1, k2}
  Users = {u1, u2}
  Requests = {q1, q2, q3}
  NoUser = NoUser
  PerMin = 2
  Window = 2
  Retention = 2
  TicksPerSec = 2
  MaxTick = 5

SPECIFICATION Spec
SYMMETRY Symmetry

INVARIANTS
  TypeOK
  WindowBound
  RealTimeBound
  AccountComplete

PROPERTIES
  RevokedKeyDrains
  HeaderHonest
  ImplementsLimiter

\* The clock stops at MaxTick and every request is answered once.
CHECK_DEADLOCK FALSE
