------------------------------- MODULE ApiKeys -------------------------------
(***************************************************************************)
(* The API-key gate of the /api/v1 routes: chassis/src/apikeys.rs and      *)
(* gate_v1 of server/src/handlers.rs.                                      *)
(*                                                                         *)
(* A gated request takes the database mutex three times - to authenticate, *)
(* to check and record its use, to count what remains - and other requests,*)
(* revocations, the daily prune and a restart of the server may come in    *)
(* between.  Each locked section is one action.  The clock runs in ticks;  *)
(* the program sees whole seconds (db::now has one-second resolution).     *)
(***************************************************************************)
EXTENDS Integers, FiniteSets

CONSTANTS
  Keys,         \* API keys (plaintext, hash and row id are one value here)
  Users,        \* key owners
  Requests,     \* gated requests, each handled once
  PerMin,       \* per_min: 60 in gated()
  Window,       \* the '-60 seconds' of the two COUNT queries, in seconds
  Retention,    \* the 90 days of prune_usage, in seconds
  TicksPerSec,  \* clock resolution below the second
  MaxTick,      \* bound of the run: the clock stops here
  NoUser        \* owner of a key that does not exist

ASSUME LimiterAssumption ==
  /\ PerMin \in Nat \ {0}
  /\ Window \in Nat \ {0}
  /\ Retention \in Nat
  /\ Retention >= Window
  /\ TicksPerSec \in Nat \ {0}
  /\ MaxTick \in Nat
  /\ NoUser \notin Users

VARIABLES
  clock,      \* wall clock, in ticks
  keyState,   \* api_keys: "absent", "live" (revoked_at NULL) or "revoked"
  owner,      \* api_keys.user_id
  usage,      \* api_usage: [req, key, ts] (the request stands for the row id)
  phase,      \* how far a request has come
  presented,  \* the key a request authenticated with
  answer,     \* status code of an answered request, 0 before
  remaining,  \* X-RateLimit-Remaining of an answered request
  log,        \* history: every row ever inserted, never pruned
  at          \* history: the tick at which a request was metered

dbVars == <<keyState, owner, usage>>
requestVars == <<phase, presented, answer, remaining>>
historyVars == <<log, at>>
vars == <<clock, dbVars, requestVars, historyVars>>

(***************************************************************************)
(* db::now: the wall clock truncated to seconds.                           *)
(***************************************************************************)
Second(t) == t \div TicksPerSec
Now == Second(clock)

(***************************************************************************)
(* SELECT COUNT of the rows of key k with ts > datetime(now, '-60 seconds')*)
(***************************************************************************)
\* MutantRecent: a window one second short.
MutantRecent(k) == {r \in usage : r.key = k /\ r.ts > Now - Window + 1}

Recent(k) == {r \in usage : r.key = k /\ r.ts > Now - Window}
Used(k) == Cardinality(Recent(k))

Init ==
  /\ clock = 0
  /\ keyState = [k \in Keys |-> "absent"]
  /\ owner = [k \in Keys |-> NoUser]
  /\ usage = {}
  /\ phase = [q \in Requests |-> "new"]
  /\ presented \in [Requests -> Keys]
  /\ answer = [q \in Requests |-> 0]
  /\ remaining = [q \in Requests |-> 0]
  /\ log = {}
  /\ at = [q \in Requests |-> 0]

(***************************************************************************)
(* Key management, on behalf of the signed-in user u (require_user).       *)
(***************************************************************************)
CreateKey(u, k) ==
  /\ keyState[k] = "absent"
  /\ keyState' = [keyState EXCEPT ![k] = "live"]
  /\ owner' = [owner EXCEPT ![k] = u]
  /\ UNCHANGED <<clock, usage, requestVars, historyVars>>

\* Owner-scoped; a foreign, missing or already revoked key is a 404.
RevokeKey(u, k) ==
  /\ owner[k] = u
  /\ keyState[k] = "live"
  /\ keyState' = [keyState EXCEPT ![k] = "revoked"]
  /\ UNCHANGED <<clock, owner, usage, requestVars, historyVars>>

\* The /api/keys routes; listing keys changes nothing.
Manage(u, k) ==
  \/ CreateKey(u, k)
  \/ RevokeKey(u, k)

(***************************************************************************)
(* The gate.                                                               *)
(***************************************************************************)
Respond(q, status, left) ==
  /\ phase' = [phase EXCEPT ![q] = "done"]
  /\ answer' = [answer EXCEPT ![q] = status]
  /\ remaining' = [remaining EXCEPT ![q] = left]
  /\ UNCHANGED <<clock, presented>>

\* First lock.
\* MutantAuthenticate: without "AND revoked_at IS NULL".
MutantAuthenticate(q) ==
  /\ phase[q] = "new"
  /\ keyState[presented[q]] # "absent"
  /\ phase' = [phase EXCEPT ![q] = "authenticated"]
  /\ UNCHANGED <<clock, dbVars, presented, answer, remaining, historyVars>>

Authenticate(q) ==
  /\ phase[q] = "new"
  /\ keyState[presented[q]] = "live"
  /\ phase' = [phase EXCEPT ![q] = "authenticated"]
  /\ UNCHANGED <<clock, dbVars, presented, answer, remaining, historyVars>>

\* An unknown or revoked key, or any database error: .ok() makes it None.
AuthenticateFails(q) ==
  /\ phase[q] = "new"
  /\ Respond(q, 401, 0)
  /\ UNCHANGED <<dbVars, historyVars>>

\* Second lock, over the limit: the transaction is rolled back.
CheckRejects(q) ==
  /\ phase[q] = "authenticated"
  /\ Used(presented[q]) >= PerMin
  /\ Respond(q, 429, 0)
  /\ UNCHANGED <<dbVars, historyVars>>

\* Second lock, under the limit: count and insert commit together.
\* MutantCheckRecords: the limit is off by one.
Record(q) ==
  /\ LET row == [req |-> q, key |-> presented[q], ts |-> Now]
     IN /\ usage' = usage \cup {row}
        /\ log' = log \cup {row}
  /\ at' = [at EXCEPT ![q] = clock]
  /\ phase' = [phase EXCEPT ![q] = "recorded"]
  /\ UNCHANGED <<clock, keyState, owner, presented, answer, remaining>>

MutantCheckRecords(q) ==
  /\ phase[q] = "authenticated"
  /\ Used(presented[q]) <= PerMin
  /\ Record(q)

CheckRecords(q) ==
  /\ phase[q] = "authenticated"
  /\ Used(presented[q]) < PerMin
  /\ Record(q)

\* The count, the insert or the commit fails: fail closed, nothing metered.
\* MutantCheckFails: fail open, the request passes unmetered.
MutantCheckFails(q) ==
  /\ phase[q] = "authenticated"
  /\ phase' = [phase EXCEPT ![q] = "recorded"]
  /\ log' = log \cup {[req |-> q, key |-> presented[q], ts |-> Now]}
  /\ at' = [at EXCEPT ![q] = clock]
  /\ UNCHANGED <<clock, dbVars, presented, answer, remaining>>

CheckFails(q) ==
  /\ phase[q] = "authenticated"
  /\ Respond(q, 500, 0)
  /\ UNCHANGED <<dbVars, historyVars>>

\* MutantLeft: the quota before the request's own use.
MutantLeft(used) == IF used <= PerMin THEN PerMin - used + 1 ELSE 0

Left(used) == IF used < PerMin THEN PerMin - used ELSE 0

\* Third lock: count again for the header, then run the wrapped handler.
Pass(q) ==
  /\ phase[q] = "recorded"
  /\ Respond(q, 200, Left(Used(presented[q])))
  /\ UNCHANGED <<dbVars, historyVars>>

\* The header's count fails: unwrap_or(0) reports an untouched quota.
PassUncounted(q) ==
  /\ phase[q] = "recorded"
  /\ Respond(q, 200, Left(0))
  /\ UNCHANGED <<dbVars, historyVars>>

(***************************************************************************)
(* prune_usage(90 days): the daily task, and every start of the server.    *)
(* A restart also ends the requests in flight without an answer; what they *)
(* committed stays.                                                        *)
(***************************************************************************)
\* MutantKept: the cut-off without its "-90 days".
MutantKept == {r \in usage : ~(r.ts < Now)}

Kept == {r \in usage : ~(r.ts < Now - Retention)}

Prune ==
  /\ usage' = Kept
  /\ UNCHANGED <<clock, keyState, owner, requestVars, historyVars>>

Restart ==
  /\ usage' = Kept
  /\ phase' = [q \in Requests |-> IF phase[q] = "new" THEN "new" ELSE "done"]
  /\ UNCHANGED <<clock, keyState, owner, presented, answer, remaining, historyVars>>

Tick ==
  /\ clock < MaxTick
  /\ clock' = clock + 1
  /\ UNCHANGED <<dbVars, requestVars, historyVars>>

Gate(q) ==
  \/ Authenticate(q)
  \/ AuthenticateFails(q)
  \/ CheckRejects(q)
  \/ CheckRecords(q)
  \/ CheckFails(q)
  \/ Pass(q)
  \/ PassUncounted(q)

Next ==
  \/ \E u \in Users, k \in Keys : Manage(u, k)
  \/ \E q \in Requests : Gate(q)
  \/ Prune
  \/ Restart
  \/ Tick

Spec == Init /\ [][Next]_vars

------------------------------------------------------------------------------
(***************************************************************************)
(* Types of the database rows, the request phases and the history.         *)
(***************************************************************************)
Row == [req : Requests, key : Keys, ts : Nat]

TypeOK ==
  /\ clock \in Nat
  /\ keyState \in [Keys -> {"absent", "live", "revoked"}]
  /\ owner \in [Keys -> Users \cup {NoUser}]
  /\ usage \subseteq Row
  /\ phase \in [Requests -> {"new", "authenticated", "recorded", "done"}]
  /\ presented \in [Requests -> Keys]
  /\ answer \in [Requests -> {0, 200, 401, 429, 500}]
  /\ remaining \in [Requests -> 0 .. PerMin]
  /\ log \subseteq Row
  /\ at \in [Requests -> Nat]

(***************************************************************************)
(* The window bound.  However the phases of concurrent requests interleave *)
(* with each other, with prunes and with restarts, no key passes the gate  *)
(* more than PerMin times in any Window consecutive clock seconds.  It is  *)
(* stated over the history, so that a prune cannot hide an excess.         *)
(***************************************************************************)
PassedIn(k, t) == {r \in log : r.key = k /\ r.ts > t - Window /\ r.ts <= t}

WindowBound == \A k \in Keys, t \in 0 .. MaxTick : Cardinality(PassedIn(k, t)) <= PerMin

(***************************************************************************)
(* The same bound in real time.  Timestamps are truncated to seconds, so   *)
(* Window seconds of timestamps may span little more than Window - 1       *)
(* seconds of real time: the bound that holds is the one over Window - 1   *)
(* seconds.                                                                *)
(***************************************************************************)
PassedWithin(k, t, ticks) == {r \in log : r.key = k /\ at[r.req] \in t .. t + ticks}

RealTimeBound ==
  \A k \in Keys, t \in 0 .. MaxTick :
    Cardinality(PassedWithin(k, t, (Window - 1) * TicksPerSec)) <= PerMin

(***************************************************************************)
(* The documented bound ("count the sliding 60s window ... the (per_min+1) *)
(* -th request in the window is the first rejection"): fewer than Window   *)
(* seconds of real time never see more than PerMin passes.                 *)
(***************************************************************************)
DocumentedBound ==
  \A k \in Keys, t \in 0 .. MaxTick :
    Cardinality(PassedWithin(k, t, Window * TicksPerSec - 1)) <= PerMin

(***************************************************************************)
(* The limiter never counts a request it did not let through: whatever was *)
(* rejected, failed or lost, the account holds exactly the passes that the *)
(* retention still covers, and the prune never shrinks a window.           *)
(***************************************************************************)
AccountComplete ==
  /\ usage \subseteq log
  /\ \A r \in log : r.ts > Now - Window => r \in usage

(***************************************************************************)
(* Revocation drains: once a key is revoked, the set of requests that may  *)
(* still be metered on it - they authenticated before the revocation and   *)
(* are between the first lock and the second - never grows.                *)
(***************************************************************************)
Draining(k) == {q \in Requests : phase[q] = "authenticated" /\ presented[q] = k}

RevokedKeyDrains ==
  [][\A k \in Keys : keyState[k] = "revoked" =>
        /\ keyState'[k] = "revoked"
        /\ Draining(k)' \subseteq Draining(k)]_vars

(***************************************************************************)
(* The header never overstates: the quota a request is told about is what  *)
(* the history of passes leaves in the current window, unless the count    *)
(* failed and the header shows the whole quota.                            *)
(***************************************************************************)
HeaderHonest ==
  [][\A q \in Requests :
        phase[q] = "recorded" /\ answer'[q] = 200 /\ remaining'[q] < PerMin =>
          remaining'[q] + Cardinality({r \in log : /\ r.key = presented[q]
                                                   /\ r.ts > Now - Window}) = PerMin]_vars

(***************************************************************************)
(* The gate implements the abstract limiter: a pass is a grant, a 429 is a *)
(* refusal that found PerMin grants in the window, and everything else -   *)
(* authentication, errors, prunes, restarts - is invisible to it.          *)
(***************************************************************************)
Limiter == INSTANCE RateLimit WITH
  now <- Now,
  granted <- log,
  refused <- {q \in Requests : answer[q] = 429}

ImplementsLimiter == Limiter!Spec
==============================================================================
