\* The documented 60-second window, in real time, on the same small instance.
CONSTANTS
  Keys = {k1}
  Users = {u1}
  Requests = {q1, q2, q3}
  NoUser = NoUser
  PerMin = 2
  Window = 2
  Retention = 2
  TicksPerSec = 2
  MaxTick = 5

SPECIFICATION Spec
SYMMETRY Symmetry

INVARIANT DocumentedBound

CHECK_DEADLOCK FALSE
