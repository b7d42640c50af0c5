------------------------------ MODULE RateLimit ------------------------------
(***************************************************************************)
(* What the per-key limiter of the risk API promises, free of SQLite,      *)
(* phases, pruning and restarts: a request is granted exactly when fewer   *)
(* than PerMin requests of its key were granted in the Window most recent  *)
(* clock seconds, and a refused request leaves no trace in the account.    *)
(* ApiKeys implements this specification (see ApiKeysProofs).              *)
(***************************************************************************)
EXTENDS Integers, FiniteSets

CONSTANTS
  Keys,      \* API keys
  Requests,  \* gated requests, each decided at most once
  PerMin,    \* grants allowed per window (60 in the server)
  Window     \* length of the sliding window in seconds (60 in the server)

VARIABLES
  now,      \* the clock, in whole seconds
  granted,  \* every grant ever given: [req, key, ts]
  refused   \* requests answered "rate limit exceeded"

vars == <<now, granted, refused>>

Decided == refused \cup {g.req : g \in granted}

Recent(k) == {g \in granted : g.key = k /\ g.ts > now - Window}

Init ==
  /\ now \in Nat
  /\ granted = {}
  /\ refused = {}

Grant(q, k) ==
  /\ q \notin Decided
  /\ Cardinality(Recent(k)) < PerMin
  /\ granted' = granted \cup {[req |-> q, key |-> k, ts |-> now]}
  /\ UNCHANGED <<now, refused>>

Refuse(q, k) ==
  /\ q \notin Decided
  /\ Cardinality(Recent(k)) >= PerMin
  /\ refused' = refused \cup {q}
  /\ UNCHANGED <<now, granted>>

Advance ==
  /\ now' \in Nat
  /\ now' >= now
  /\ UNCHANGED <<granted, refused>>

Next ==
  \/ \E q \in Requests, k \in Keys : Grant(q, k) \/ Refuse(q, k)
  \/ Advance

Spec == Init /\ [][Next]_vars
==============================================================================
