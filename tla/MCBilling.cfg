\* Both ways of delivery, interrupted handlers, lost answers, replays, give-ups;
\* two subscriptions for two users and a stranger.  No symmetry: liveness.
CONSTANTS
  Users = {u1, u2}
  Strangers = {dev}
  Subs = {s1, s2}
  Customers = {c1, c2}
  NoSale = NoSale
  NoRow = NoRow
  Idle = Idle
  Deliveries = {"in_order", "any_order"}
  MaxFaults = 1

SPECIFICATION FairSpec

INVARIANTS
  TypeOK
  AlwaysLinked
  FlagMatchesRows
  EntitlementFollowsStripe

PROPERTIES
  ImplementsEntitlement
  EntitlementCatchesUp

\* Everything may be sold, ended and acknowledged.
CHECK_DEADLOCK FALSE
