\* Stripe may replay and reorder; no faults are needed.
CONSTANTS
  Users = {u1}
  Strangers = {}
  Subs = {s1}
  Customers = {c1}
  NoSale = NoSale
  NoRow = NoRow
  Idle = Idle
  Deliveries = {"any_order"}
  MaxFaults = 0

SPECIFICATION Spec

PROPERTY ReplaysAreIdempotent

CHECK_DEADLOCK FALSE
