---------------------------- MODULE ApiKeysProofs ----------------------------
(***************************************************************************)
(* The key gate, for every set of keys, users and requests and every       *)
(* limit, window, retention and clock resolution: types, the window bound  *)
(* in clock seconds and in real time, the completeness of the account, the *)
(* draining of revoked keys, and the implementation of RateLimit.          *)
(***************************************************************************)
EXTENDS ApiKeys, FiniteSetTheorems, TLAPS

------------------------------------------------------------------------------
(***************************************************************************)
(* Arithmetic of the truncated clock.                                      *)
(***************************************************************************)

(* A tick lies in the second db::now shows for it.                         *)
LEMMA SecondIsNat ==
  ASSUME NEW t \in Nat
  PROVE  /\ Second(t) \in Nat
         /\ Second(t) * TicksPerSec <= t
         /\ t < (Second(t) + 1) * TicksPerSec
BY LimiterAssumption, SMT DEF Second

(* Truncation keeps the order of ticks.                                    *)
LEMMA SecondMonotone ==
  ASSUME NEW a \in Nat, NEW b \in Nat, a <= b
  PROVE  Second(a) <= Second(b)
BY LimiterAssumption, SMT DEF Second

(* Window - 1 seconds of real time touch at most Window clock seconds.     *)
LEMMA SecondSpan ==
  ASSUME NEW a \in Nat, NEW b \in Nat, b <= a + (Window - 1) * TicksPerSec
  PROVE  Second(b) <= Second(a) + (Window - 1)
BY LimiterAssumption, SMT DEF Second

------------------------------------------------------------------------------
(***************************************************************************)
(* Types.                                                                  *)
(***************************************************************************)

(* The header arithmetic stays between nothing and the whole quota.        *)
LEMMA LeftIsQuota ==
  ASSUME NEW n \in Nat
  PROVE  Left(n) \in 0 .. PerMin
BY LimiterAssumption, SMT DEF Left

(* Every state of the gate is well typed, whatever the constants.  The     *)
(* finiteness of the history comes with it: the header and the limit count *)
(* rows, and a count needs a finite set.                                   *)
Typed == TypeOK /\ usage \subseteq log /\ IsFiniteSet(log)

(* The two COUNT queries return a natural number.                          *)
LEMMA UsedIsNat ==
  ASSUME Typed, NEW k
  PROVE  IsFiniteSet(Recent(k)) /\ Used(k) \in Nat
<1>1. Recent(k) \subseteq log
  BY DEF Recent, Typed
<1>2. IsFiniteSet(Recent(k))
  BY <1>1, FS_Subset DEF Typed
<1> QED
  BY <1>2, FS_CardinalityType DEF Used

LEMMA InitTyped == Init => Typed
<1> SUFFICES ASSUME Init PROVE Typed
  OBVIOUS
<1>1. IsFiniteSet({})
  BY FS_EmptySet
<1> QED
  BY <1>1, LimiterAssumption DEF Init, Typed, TypeOK

LEMMA NextTyped == Typed /\ [Next]_vars => Typed'
<1> SUFFICES ASSUME Typed, [Next]_vars PROVE Typed'
  OBVIOUS
<1> USE DEF Typed, TypeOK
<1>1. Now \in Nat
  BY SecondIsNat DEF Now
<1>2. ASSUME NEW u \in Users, NEW k \in Keys, CreateKey(u, k) \/ RevokeKey(u, k)
      PROVE Typed'
  BY <1>2 DEF Manage, CreateKey, RevokeKey, requestVars, historyVars
<1>3. ASSUME NEW q \in Requests, Gate(q)
      PROVE Typed'
  <2>1. presented[q] \in Keys /\ Used(presented[q]) \in Nat
    BY UsedIsNat
  <2>2. ASSUME NEW status \in {200, 401, 429, 500}, NEW left \in 0 .. PerMin,
               Respond(q, status, left), UNCHANGED <<dbVars, historyVars>>
        PROVE Typed'
    BY <2>2 DEF Respond, dbVars, historyVars
  <2>3. 0 \in 0 .. PerMin /\ Left(Used(presented[q])) \in 0 .. PerMin /\ Left(0) \in 0 .. PerMin
    BY <2>1, LeftIsQuota, LimiterAssumption
  <2>4. CASE Authenticate(q)
    BY <2>4 DEF Authenticate, dbVars, historyVars
  <2>5. CASE AuthenticateFails(q)
    BY <2>5, <2>2, <2>3 DEF AuthenticateFails
  <2>6. CASE CheckRejects(q)
    BY <2>6, <2>2, <2>3 DEF CheckRejects
  <2>7. CASE CheckFails(q)
    BY <2>7, <2>2, <2>3 DEF CheckFails
  <2>8. CASE Pass(q)
    BY <2>8, <2>2, <2>3 DEF Pass
  <2>9. CASE PassUncounted(q)
    BY <2>9, <2>2, <2>3 DEF PassUncounted
  <2>10. CASE CheckRecords(q)
    <3> DEFINE row == [req |-> q, key |-> presented[q], ts |-> Now]
    <3>1. row \in Row
      BY <1>1, <2>1 DEF Row
    <3>2. IsFiniteSet(log \cup {row})
      BY FS_AddElement
    <3>3. log' = log \cup {row} /\ usage' = usage \cup {row}
      BY <2>10 DEF CheckRecords, Record
    <3>4. usage' \subseteq log' /\ IsFiniteSet(log') /\ usage' \subseteq Row /\ log' \subseteq Row
      BY <3>1, <3>2, <3>3
    <3> HIDE DEF row
    <3> QED
      BY <2>10, <3>4 DEF CheckRecords, Record
  <2> QED
    BY <1>3, <2>4, <2>5, <2>6, <2>7, <2>8, <2>9, <2>10 DEF Gate
<1>4. CASE Prune
  BY <1>4 DEF Prune, Kept, requestVars, historyVars
<1>5. CASE Restart
  BY <1>5 DEF Restart, Kept, historyVars
<1>6. CASE Tick
  BY <1>6 DEF Tick, dbVars, requestVars, historyVars
<1>7. CASE UNCHANGED vars
  BY <1>7 DEF vars, dbVars, requestVars, historyVars
<1> QED
  BY <1>2, <1>3, <1>4, <1>5, <1>6, <1>7 DEF Next, Manage

(* The database rows, phases and answers of the gate are always well       *)
(* typed: the status codes are the five gate_v1 produces and the header is *)
(* a number between 0 and PerMin.                                          *)
THEOREM TypeCorrect == Spec => []TypeOK
<1>1. Typed => TypeOK
  BY DEF Typed
<1> QED
  BY InitTyped, NextTyped, <1>1, PTL DEF Spec

------------------------------------------------------------------------------
(***************************************************************************)
(* The window bound.  It is not inductive by itself: the limit is decided  *)
(* on usage, the bound is about log.  What closes the gap is that a prune  *)
(* only takes rows older than the retention, which no window reaches, and  *)
(* that no row is younger than the clock.                                  *)
(***************************************************************************)
LogHonest ==
  \A r \in log :
    /\ phase[r.req] \in {"recorded", "done"}
    /\ at[r.req] <= clock
    /\ r.ts = Second(at[r.req])
    /\ r.ts <= Now
    /\ r.ts >= Now - Retention => r \in usage

EveryWindow == \A k \in Keys, t \in Int : Cardinality(PassedIn(k, t)) <= PerMin

IInv == Typed /\ LogHonest /\ EveryWindow

(* A set of history rows can be counted.                                   *)
LEMMA SubsetCount ==
  ASSUME Typed, NEW S, S \subseteq log
  PROVE  IsFiniteSet(S) /\ Cardinality(S) \in Nat
BY FS_Subset, FS_CardinalityType DEF Typed

(* The clock never runs backwards, and is a natural number of seconds.     *)
LEMMA NowAdvances ==
  ASSUME Typed, [Next]_vars
  PROVE  Now \in Nat /\ Now' \in Nat /\ Now <= Now'
<1>1. clock \in Nat /\ clock' \in Nat
  BY NextTyped DEF Typed, TypeOK
<1>2. clock <= clock'
  <2> USE <1>1
  <2>1. CASE Tick
    BY <2>1 DEF Tick
  <2>2. CASE UNCHANGED clock
    BY <2>2
  <2> QED
    BY <2>1, <2>2 DEF Next, vars, Manage, CreateKey, RevokeKey, Gate, Authenticate, AuthenticateFails,
       CheckRejects, CheckRecords, Record, CheckFails, Pass, PassUncounted, Respond, Prune, Restart
<1> QED
  BY <1>1, <1>2, SecondIsNat, SecondMonotone DEF Now

(* Every step but a recorded check leaves the history alone.               *)
LEMMA OnlyChecksRecord ==
  ASSUME [Next]_vars, ~ \E q \in Requests : CheckRecords(q)
  PROVE  UNCHANGED <<log, at>>
BY DEF Next, vars, Manage, CreateKey, RevokeKey, Gate, Authenticate, AuthenticateFails,
   CheckRejects, CheckFails, Pass, PassUncounted, Respond, Prune, Restart, Tick, historyVars

LEMMA InitIInv == Init => IInv
<1> SUFFICES ASSUME Init PROVE IInv
  OBVIOUS
<1>1. Typed /\ LogHonest
  BY InitTyped DEF Init, LogHonest
<1>2. ASSUME NEW k, NEW t PROVE Cardinality(PassedIn(k, t)) <= PerMin
  <2>1. PassedIn(k, t) = {}
    BY DEF Init, PassedIn
  <2> QED
    BY <2>1, FS_EmptySet, LimiterAssumption
<1> QED
  BY <1>1, <1>2 DEF IInv, EveryWindow

LEMMA NextLogHonest ==
  ASSUME IInv, [Next]_vars
  PROVE  LogHonest'
<1> USE DEF IInv, Typed, TypeOK
<1>0. Typed'
  BY NextTyped
<1>1. Now \in Nat /\ Now' \in Nat /\ Now <= Now'
  BY NowAdvances
<1>2. log \subseteq Row /\ usage \subseteq Row
  OBVIOUS
<1>3. ASSUME NEW q \in Requests, CheckRecords(q)
      PROVE LogHonest'
  <2> DEFINE row == [req |-> q, key |-> presented[q], ts |-> Now]
  <2>1. \A r \in log : r.req # q
    BY <1>3 DEF LogHonest, CheckRecords, Record
  <2>2. /\ log' = log \cup {row}
        /\ usage' = usage \cup {row}
        /\ Now' = Now
        /\ clock' = clock
        /\ at' = [at EXCEPT ![q] = clock]
        /\ phase' = [phase EXCEPT ![q] = "recorded"]
    BY <1>3 DEF CheckRecords, Record, Now
  <2>3. row.req = q /\ row.ts = Now /\ Now = Second(clock)
    BY DEF Now
  <2> HIDE DEF row
  <2>4. ASSUME NEW r \in log'
        PROVE  /\ phase'[r.req] \in {"recorded", "done"}
               /\ at'[r.req] <= clock'
               /\ r.ts = Second(at'[r.req])
               /\ r.ts <= Now'
               /\ r.ts >= Now' - Retention => r \in usage'
    <3>1. CASE r = row
      BY <3>1, <2>2, <2>3, <1>1
    <3>2. CASE r \in log
      <4>1. r.req \in Requests /\ r.req # q
        BY <3>2, <2>1, <1>2 DEF Row
      <4>2. at'[r.req] = at[r.req] /\ phase'[r.req] = phase[r.req]
        BY <4>1, <2>2
      <4> QED
        BY <3>2, <4>2, <2>2 DEF LogHonest
    <3> QED
      BY <2>4, <2>2, <3>1, <3>2
  <2> QED
    BY <2>4 DEF LogHonest, Second, Now
<1>4. ASSUME ~ \E q \in Requests : CheckRecords(q)
      PROVE LogHonest'
  <2>1. log' = log /\ at' = at
    BY <1>4, OnlyChecksRecord
  <2>2. clock <= clock'
    BY DEF Next, vars, Manage, CreateKey, RevokeKey, Gate, Authenticate, AuthenticateFails, CheckRecords, Record,
       CheckRejects, CheckFails, Pass, PassUncounted, Respond, Prune, Restart, Tick
  <2>3. \A q \in Requests : phase[q] \in {"recorded", "done"} => phase'[q] \in {"recorded", "done"}
    BY <1>4 DEF Next, vars, Manage, CreateKey, RevokeKey, Gate, Authenticate, AuthenticateFails,
       CheckRejects, CheckFails, Pass, PassUncounted, Respond, Prune, Restart, Tick, requestVars
  <2>4. \A r \in usage : r.ts >= Now - Retention => r \in usage'
    <3>1. CASE usage' = Kept
      BY <3>1, <1>1, <1>2, LimiterAssumption DEF Kept, Row
    <3>2. CASE usage' = usage
      BY <3>2
    <3> QED
      BY <3>1, <3>2, <1>4 DEF Next, vars, Manage, CreateKey, RevokeKey, Gate, Authenticate,
         AuthenticateFails, CheckRejects, CheckFails, Pass, PassUncounted, Prune, Restart,
         Tick, dbVars
  <2>5. ASSUME NEW r \in log
        PROVE  /\ phase'[r.req] \in {"recorded", "done"}
               /\ at'[r.req] <= clock'
               /\ r.ts = Second(at'[r.req])
               /\ r.ts <= Now'
               /\ r.ts >= Now' - Retention => r \in usage'
    <3>1. r.req \in Requests /\ r.ts \in Nat /\ at[r.req] \in Nat
      BY <1>2 DEF Row
    <3> QED
      BY <3>1, <2>1, <2>2, <2>3, <2>4, <1>0, <1>1, LimiterAssumption DEF LogHonest
  <2> QED
    BY <2>1, <2>5 DEF LogHonest, Second, Now
<1> QED
  BY <1>3, <1>4

(* A check that records found fewer than PerMin rows of its key among the  *)
(* window's history: every one of them is still in usage.                  *)
LEMMA CountSeesHistory ==
  ASSUME IInv, NEW k
  PROVE  Recent(k) = {r \in log : r.key = k /\ r.ts > Now - Window}
<1>1. \A r \in log : r.ts \in Nat
  BY DEF IInv, Typed, TypeOK, Row
<1>2. Now \in Nat
  BY SecondIsNat DEF IInv, Typed, TypeOK, Now
<1>3. \A r \in log : r.ts > Now - Window => r \in usage
  BY <1>1, <1>2, LimiterAssumption DEF IInv, LogHonest
<1> QED
  BY <1>3 DEF Recent, IInv, Typed

LEMMA NextEveryWindow ==
  ASSUME IInv, [Next]_vars
  PROVE  EveryWindow'
<1>1. ASSUME NEW q \in Requests, CheckRecords(q), NEW k \in Keys, NEW t \in Int
      PROVE Cardinality(PassedIn(k, t)') <= PerMin
  <2> DEFINE row == [req |-> q, key |-> presented[q], ts |-> Now]
  <2>1. /\ log' = log \cup {row}
        /\ Used(presented[q]) < PerMin
        /\ row.key = presented[q]
        /\ row.ts = Now
    BY <1>1 DEF CheckRecords, Record
  <2>2. Now \in Nat
    BY SecondIsNat DEF IInv, Typed, TypeOK, Now
  <2> HIDE DEF row
  <2>3. CASE row \in PassedIn(k, t)'
    <3>1. k = presented[q] /\ t - Window < Now /\ Now <= t
      BY <2>1, <2>3 DEF PassedIn
    <3>2. PassedIn(k, t) \subseteq Recent(k)
      <4>1. \A r \in log : r.ts \in Nat
        BY DEF IInv, Typed, TypeOK, Row
      <4> QED
        BY <4>1, <3>1, <2>2, CountSeesHistory, LimiterAssumption DEF PassedIn
    <3>3. PassedIn(k, t)' = PassedIn(k, t) \cup {row}
      BY <2>1, <2>3 DEF PassedIn
    <3>4. /\ IsFiniteSet(PassedIn(k, t))
          /\ Cardinality(PassedIn(k, t)) \in Nat
          /\ Cardinality(PassedIn(k, t)) <= Used(k)
          /\ Used(k) \in Nat
      <4>1. PassedIn(k, t) \subseteq log
        BY DEF PassedIn
      <4> QED
        BY <4>1, <3>2, SubsetCount, UsedIsNat, FS_Subset DEF IInv, Used
    <3>5. Cardinality(PassedIn(k, t)') <= Cardinality(PassedIn(k, t)) + 1
      BY <3>3, <3>4, FS_AddElement
    <3> QED
      BY <3>1, <3>3, <3>4, <3>5, <2>1, FS_AddElement, FS_CardinalityType, LimiterAssumption
  <2>4. CASE row \notin PassedIn(k, t)'
    <3>1. PassedIn(k, t)' = PassedIn(k, t)
      BY <2>1, <2>4 DEF PassedIn
    <3> QED
      BY <3>1 DEF IInv, EveryWindow
  <2> QED
    BY <2>3, <2>4
<1>2. ASSUME ~ \E q \in Requests : CheckRecords(q)
      PROVE EveryWindow'
  <2>1. log' = log
    BY <1>2, OnlyChecksRecord
  <2> QED
    BY <2>1 DEF IInv, EveryWindow, PassedIn
<1> QED
  BY <1>1, <1>2 DEF EveryWindow

LEMMA InductiveInvariant == Spec => []IInv
<1>1. IInv /\ [Next]_vars => IInv'
  BY NextTyped, NextLogHonest, NextEveryWindow DEF IInv
<1> QED
  BY InitIInv, <1>1, PTL DEF Spec

(* However requests interleave between the three locks of the gate, and    *)
(* whatever is pruned or restarted meanwhile, no key passes more than      *)
(* PerMin times in any Window consecutive clock seconds.                   *)
THEOREM WindowBoundHolds == Spec => []WindowBound
<1>1. IInv => WindowBound
  BY LimiterAssumption DEF IInv, EveryWindow, WindowBound
<1> QED
  BY InductiveInvariant, <1>1, PTL

(* In real time the bound holds over Window - 1 seconds: 59 seconds, not   *)
(* the documented 60, are safe from the truncation of timestamps.          *)
THEOREM RealTimeBoundHolds == Spec => []RealTimeBound
<1>1. IInv => RealTimeBound
  <2> SUFFICES ASSUME IInv, NEW k \in Keys, NEW t \in 0 .. MaxTick
               PROVE  Cardinality(PassedWithin(k, t, (Window - 1) * TicksPerSec)) <= PerMin
    BY DEF RealTimeBound
  <2> DEFINE last == Second(t) + (Window - 1)
             span == (Window - 1) * TicksPerSec
  <2>1. t \in Nat /\ Second(t) \in Nat /\ last \in Int /\ span \in Nat
    BY SecondIsNat, LimiterAssumption, SMT
  <2>2. PassedWithin(k, t, span) \subseteq PassedIn(k, last)
    <3> SUFFICES ASSUME NEW r \in log, r.key = k, at[r.req] \in t .. t + span
                 PROVE  r.ts > last - Window /\ r.ts <= last
      BY DEF PassedWithin, PassedIn
    <3>1. at[r.req] \in Nat /\ r.ts = Second(at[r.req])
      BY DEF IInv, Typed, TypeOK, LogHonest, Row
    <3>2. Second(t) <= Second(at[r.req])
      BY <2>1, <3>1, SecondMonotone
    <3>3. Second(at[r.req]) <= last
      BY <2>1, <3>1, SecondSpan
    <3> HIDE DEF span
    <3> QED
      BY <2>1, <3>1, <3>2, <3>3, SecondIsNat, LimiterAssumption
  <2>3. PassedIn(k, last) \subseteq log
    BY DEF PassedIn
  <2> HIDE DEF last, span
  <2>4. /\ Cardinality(PassedWithin(k, t, span)) <= Cardinality(PassedIn(k, last))
        /\ Cardinality(PassedWithin(k, t, span)) \in Nat
        /\ Cardinality(PassedIn(k, last)) \in Nat
    BY <2>2, <2>3, SubsetCount, FS_Subset, FS_CardinalityType DEF IInv
  <2>5. Cardinality(PassedIn(k, last)) <= PerMin
    BY <2>1 DEF IInv, EveryWindow
  <2>6. Cardinality(PassedWithin(k, t, span)) <= PerMin
    BY <2>4, <2>5, LimiterAssumption
  <2> QED
    BY <2>6 DEF span
<1> QED
  BY InductiveInvariant, <1>1, PTL

(* What the limiter counts is exactly what it let through: a prune never   *)
(* reaches into a window, and nothing is counted that was not passed.      *)
THEOREM AccountCompleteHolds == Spec => []AccountComplete
<1>1. IInv => AccountComplete
  <2> SUFFICES ASSUME IInv PROVE AccountComplete
    OBVIOUS
  <2>1. \A r \in log : r.ts \in Nat
    BY DEF IInv, Typed, TypeOK, Row
  <2>2. Now \in Nat
    BY SecondIsNat DEF IInv, Typed, TypeOK, Now
  <2> QED
    BY <2>1, <2>2, LimiterAssumption DEF IInv, Typed, LogHonest, AccountComplete
<1> QED
  BY InductiveInvariant, <1>1, PTL

------------------------------------------------------------------------------
(***************************************************************************)
(* Action properties and the abstract limiter.                             *)
(***************************************************************************)

(* A revoked key stays revoked and no request joins those still between    *)
(* authentication and metering on it.                                      *)
THEOREM RevocationDrains == Spec => RevokedKeyDrains
<1>1. ASSUME TypeOK, [Next]_vars, NEW k \in Keys, keyState[k] = "revoked"
      PROVE  keyState'[k] = "revoked" /\ Draining(k)' \subseteq Draining(k)
  <2> USE <1>1 DEF TypeOK
  <2>1. keyState'[k] = "revoked"
    BY DEF Next, vars, Manage, CreateKey, RevokeKey, Gate, Authenticate, AuthenticateFails, CheckRejects,
       CheckRecords, Record, CheckFails, Pass, PassUncounted, Prune, Restart, Tick, dbVars
  <2>2. presented' = presented
    BY DEF Next, vars, Manage, CreateKey, RevokeKey, Gate, Authenticate, AuthenticateFails, CheckRejects,
       CheckRecords, Record, CheckFails, Pass, PassUncounted, Respond, Prune, Restart, Tick, requestVars
  <2>3. ASSUME NEW q \in Requests, phase'[q] = "authenticated", presented[q] = k
        PROVE  phase[q] = "authenticated"
    BY <2>3 DEF Next, vars, Manage, CreateKey, RevokeKey, Gate, Authenticate, AuthenticateFails,
       CheckRejects, CheckRecords, Record, CheckFails, Pass, PassUncounted, Respond, Prune, Restart,
       Tick, requestVars
  <2> QED
    BY <2>1, <2>2, <2>3 DEF Draining
<1>2. TypeOK /\ [Next]_vars =>
        [\A k \in Keys : keyState[k] = "revoked" =>
            /\ keyState'[k] = "revoked"
            /\ Draining(k)' \subseteq Draining(k)]_vars
  BY <1>1
<1> QED
  BY TypeCorrect, <1>2, PTL DEF Spec, RevokedKeyDrains

(* A request has no answer before it is done.                              *)
Unanswered == \A q \in Requests : phase[q] # "done" => answer[q] = 0

LEMMA AnsweredWhenDone == Spec => []Unanswered
<1>1. Init => Unanswered
  BY DEF Init, Unanswered
<1>2. TypeOK /\ Unanswered /\ [Next]_vars => Unanswered'
  BY DEF TypeOK, Unanswered, Next, vars, Manage, CreateKey, RevokeKey, Gate, Authenticate,
     AuthenticateFails, CheckRejects, CheckRecords, Record, CheckFails, Pass, PassUncounted, Respond,
     Prune, Restart, Tick, requestVars
<1> QED
  BY <1>1, <1>2, TypeCorrect, PTL DEF Spec

(* The header a passed request carries is what the history leaves of the   *)
(* quota in the current window, unless its count failed.                   *)
THEOREM HeaderIsHonest == Spec => HeaderHonest
<1>1. ASSUME IInv, Unanswered, [Next]_vars, NEW q \in Requests,
             phase[q] = "recorded", answer'[q] = 200, remaining'[q] < PerMin
      PROVE  remaining'[q] + Cardinality({r \in log : /\ r.key = presented[q]
                                                      /\ r.ts > Now - Window}) = PerMin
  <2> USE <1>1
  <2>1. TypeOK /\ presented[q] \in Keys /\ Now \in Nat
    BY SecondIsNat DEF IInv, Typed, TypeOK, Now
  <2>2. Used(presented[q]) = Cardinality({r \in log : /\ r.key = presented[q]
                                                      /\ r.ts > Now - Window})
    BY CountSeesHistory DEF Used
  <2>3. Used(presented[q]) \in Nat /\ Used(presented[q]) <= PerMin
    <3>1. \A r \in log : r.ts <= Now
      BY DEF IInv, LogHonest
    <3>2. Recent(presented[q]) = PassedIn(presented[q], Now)
      BY <3>1, CountSeesHistory DEF PassedIn
    <3> QED
      BY <2>1, <3>2, UsedIsNat DEF Used, IInv, EveryWindow
  <2>4. answer[q] = 0
    BY DEF Unanswered
  <2>5. Pass(q) \/ PassUncounted(q)
    <3>1. answer' # answer
      BY <2>4
    <3>2. PICK p \in Requests : Gate(p)
      BY <3>1 DEF Next, vars, Manage, CreateKey, RevokeKey, Prune, Restart, Tick, requestVars
    <3>3. p = q
      BY <2>1, <2>4, <3>2 DEF TypeOK, Gate, Authenticate, AuthenticateFails, CheckRejects,
         CheckRecords, Record, CheckFails, Pass, PassUncounted, Respond
    <3> QED
      BY <3>2, <3>3 DEF Gate, Authenticate, AuthenticateFails, CheckRejects, CheckRecords, Record, CheckFails
  <2>6. ~PassUncounted(q)
    BY <2>1, LimiterAssumption DEF PassUncounted, Respond, Left, TypeOK
  <2>7. remaining'[q] = Left(Used(presented[q]))
    BY <2>1, <2>5, <2>6 DEF Pass, Respond, TypeOK
  <2> QED
    BY <2>2, <2>3, <2>7, LimiterAssumption DEF Left
<1>2. IInv /\ Unanswered /\ [Next]_vars =>
        [\A q \in Requests :
           phase[q] = "recorded" /\ answer'[q] = 200 /\ remaining'[q] < PerMin =>
             remaining'[q] + Cardinality({r \in log : /\ r.key = presented[q]
                                                      /\ r.ts > Now - Window}) = PerMin]_vars
  BY <1>1
<1> QED
  BY InductiveInvariant, AnsweredWhenDone, <1>2, PTL DEF Spec, HeaderHonest

(* The gate, with its three locks, its errors, its prunes and its          *)
(* restarts, implements the one-step limiter of RateLimit.                 *)
THEOREM GateImplementsLimiter == Spec => ImplementsLimiter
<1> DEFINE refused == {q \in Requests : answer[q] = 429}
<1>1. Init => Limiter!Init
  <2> SUFFICES ASSUME Init PROVE Limiter!Init
    OBVIOUS
  <2>1. Now \in Nat
    BY SecondIsNat DEF Init, Now
  <2> QED
    BY <2>1 DEF Init, Limiter!Init
<1>2. ASSUME IInv, Unanswered, [Next]_vars
      PROVE  [Limiter!Next]_(Limiter!vars)
  <2> USE <1>2
  <2>0. TypeOK
    BY DEF IInv, Typed
  <2>1. ASSUME NEW q \in Requests, phase[q] = "authenticated"
        PROVE  /\ q \notin Limiter!Decided
               /\ presented[q] \in Keys
               /\ Used(presented[q]) = Limiter!Cardinality(Limiter!Recent(presented[q]))
    <3>1. answer[q] = 0 /\ \A r \in log : r.req # q
      BY <2>1 DEF Unanswered, IInv, LogHonest
    <3>2. Recent(presented[q]) = Limiter!Recent(presented[q])
      BY CountSeesHistory DEF Limiter!Recent
    <3>3. Cardinality(Limiter!Recent(presented[q])) = Limiter!Cardinality(Limiter!Recent(presented[q]))
      BY DEF Cardinality, Limiter!Cardinality
    <3> QED
      BY <2>0, <3>1, <3>2, <3>3 DEF Limiter!Decided, TypeOK, Used
  <2>2. ASSUME NEW q \in Requests, CheckRecords(q)
        PROVE  Limiter!Next
    <3>1. /\ log' = log \cup {[req |-> q, key |-> presented[q], ts |-> Now]}
          /\ Now' = Now
          /\ refused' = refused
          /\ Used(presented[q]) < PerMin
          /\ phase[q] = "authenticated"
      BY <2>2 DEF CheckRecords, Record, Now
    <3>2. Limiter!Grant(q, presented[q])
      BY <3>1, <2>1 DEF Limiter!Grant
    <3>3. presented[q] \in Keys
      BY <3>1, <2>1
    <3> QED
      BY <3>2, <3>3 DEF Limiter!Next
  <2>3. ASSUME NEW q \in Requests, CheckRejects(q)
        PROVE  Limiter!Next
    <3>1. /\ log' = log
          /\ Now' = Now
          /\ refused' = refused \cup {q}
          /\ Used(presented[q]) >= PerMin
          /\ phase[q] = "authenticated"
      BY <2>3, <2>0 DEF CheckRejects, Respond, Now, historyVars, TypeOK
    <3>2. Limiter!Refuse(q, presented[q])
      BY <3>1, <2>1 DEF Limiter!Refuse
    <3>3. presented[q] \in Keys
      BY <3>1, <2>1
    <3> QED
      BY <3>1, <3>3, <2>1 DEF Limiter!Next, Limiter!Refuse
  <2>4. CASE Tick
    <3>1. Now \in Nat /\ Now' \in Nat /\ Now <= Now'
      BY NowAdvances DEF IInv
    <3>2. log' = log /\ refused' = refused
      BY <2>4 DEF Tick, requestVars, historyVars
    <3> QED
      BY <3>1, <3>2 DEF Limiter!Next, Limiter!Advance
  <2>5. ASSUME ~Tick, ~ \E q \in Requests : CheckRecords(q) \/ CheckRejects(q)
        PROVE  UNCHANGED Limiter!vars
    <3>1. log' = log /\ clock' = clock
      BY <2>5 DEF Next, vars, Manage, CreateKey, RevokeKey, Gate, Authenticate, AuthenticateFails,
         CheckFails, Pass, PassUncounted, Respond, Prune, Restart, historyVars
    <3>2. \A q \in Requests : answer'[q] = 429 <=> answer[q] = 429
      BY <2>0, <2>5 DEF TypeOK, Unanswered, Next, vars, Manage, CreateKey, RevokeKey, Gate, Authenticate,
         AuthenticateFails, CheckFails, Pass, PassUncounted, Respond, Prune, Restart, requestVars
    <3> QED
      BY <3>1, <3>2 DEF Limiter!vars, Now
  <2> QED
    BY <2>2, <2>3, <2>4, <2>5
<1> QED
  BY <1>1, <1>2, InductiveInvariant, AnsweredWhenDone, PTL DEF Spec, ImplementsLimiter, Limiter!Spec
==============================================================================
