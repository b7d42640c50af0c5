----------------------------- MODULE DeployProofs -----------------------------
(***************************************************************************)
(* Deploy, for any set of deployments and any number of faults.            *)
(*                                                                         *)
(* The argument: a deployment that has run alone is the only one active    *)
(* and no orphan runs beside it, so every step since it began is its own,  *)
(* and what each path holds follows from the stage it is in and from which *)
(* of its commands failed unnoticed.                                       *)
(***************************************************************************)
EXTENDS Deploy, TLAPS

BinarySnapped ==
  {"ship_binary", "keep_dist", "copy_dist", "fill_prev", "clear_new", "ship_dist", "send_dist", "health", "restore_binary"}
    \cup Activation

DistSnapped ==
  {"clear_new", "ship_dist", "send_dist", "health", "restore_binary", "clear_dist", "remove_dist", "restore_dist"}
    \cup Activation

\* Two active deployments have both lost the host to themselves, and so has one
\* beside an orphan; one that has not begun has lost nothing.
Solo ==
  /\ \A d, e \in Deployments : d # e /\ stage[d] \in Running /\ stage[e] \in Running => ~alone[d]
  /\ \A d \in Deployments : stage[d] = "queued" => alone[d] /\ ignored[d] = {}
  /\ \A d \in Deployments : stage[d] \in Running /\ alone[d] => orphans = {}
  /\ \A d \in Deployments, s \in Remote : <<d, s>> \in orphans => ~alone[d]

\* Only a failed mv leaves the previous dist in the way of the new one.
Parked(d) == "park_dist" \notin ignored[d]

\* What the new release's paths hold at each stage.
Shipped(d) ==
  /\ stage[d] \in Shipping \cup {"swap_binary"} => NowLive = before[d]
  /\ stage[d] \in Shipping \cup {"swap_binary", "drop_old", "park_dist"} => Parked(d)
  /\ ~Parked(d) => before[d].dist # None
  /\ stage[d] \in {"keep_dist", "copy_dist", "fill_prev", "clear_new", "ship_dist", "send_dist", "swap_binary"} =>
       disk["binary.new"] = d
  /\ stage[d] \in {"copy_dist", "fill_prev"} => disk["dist"] # None
  /\ stage[d] = "copy_dist" /\ "keep_dist" \notin ignored[d] => disk["dist.prev"] = None
  /\ stage[d] \in {"swap_binary", "drop_old", "park_dist", "swap_dist"} => disk["dist.new"] = d
  /\ stage[d] \in {"drop_old", "park_dist", "swap_dist", "restart", "health"} => disk["binary"] = d
  /\ stage[d] \in {"drop_old", "park_dist"} => disk["dist"] = before[d].dist
  /\ stage[d] = "swap_dist" => disk["dist"] = IF Parked(d) THEN None ELSE before[d].dist
  /\ stage[d] \in {"restart", "health"} => disk["dist"] = IF Parked(d) THEN d ELSE before[d].dist
  /\ stage[d] = "health" => running = d
  /\ stage[d] = "restore_dist" /\ ignored[d] \cap {"clear_dist", "remove_dist"} = {} => disk["dist"] = None

Kept(d) ==
  /\ before[d].binary \in {disk["binary"], disk["binary.prev"]}
  /\ ignored[d] \cap {"keep_dist", "clear_dist", "remove_dist"} = {} =>
       before[d].dist \in {disk["dist"], disk["dist.prev"]}

\* And what those of the previous one hold.
Recoverable(d) ==
  /\ stage[d] \in BinarySnapped => disk["binary.prev"] = before[d].binary
  /\ stage[d] \in DistSnapped /\ "keep_dist" \notin ignored[d] => disk["dist.prev"] = before[d].dist
  /\ stage[d] \in {"clear_dist", "remove_dist", "restore_dist", "restart_previous"} /\ ~Spoiled(d) =>
       disk["binary"] = before[d].binary /\ restored[d]
  /\ stage[d] = "restart_previous" /\ ~Spoiled(d) => disk["dist"] = before[d].dist
  /\ stage[d] = "verify" /\ ~Spoiled(d) => NowLive = [before[d] EXCEPT !.running = before[d].binary]
  /\ stage[d] \in Running => Kept(d)

Lone == \A d \in Deployments : alone[d] => Shipped(d) /\ (Whole(d) => Recoverable(d))

\* Deployments one at a time, and no snapshot or rollback that went wrong.
Calm == \A d \in Deployments : alone[d] /\ ~Spoiled(d)

Unbroken ==
  Calm =>
    /\ disk["dist"] = Partial => \E d \in Deployments : stage[d] = "remove_dist"
    /\ disk["dist.prev"] = Partial =>
         disk["dist"] # None /\ \A d \in Deployments : stage[d] \notin DistSnapped

IInv == TypeOK /\ Solo /\ Lone /\ Unbroken

USE DeployAssumption, BoundAssumption

Acts(d) == Ship(d) \/ Activate(d) \/ Healthy(d) \/ Unhealthy(d) \/ RollBack(d) \/ Fail(d)

THEOREM TypeInit == Init => TypeOK
BY DEF Init, TypeOK, Paths, Contents, Releases, Live, Running, Remote, Shipping

THEOREM InitIInv == Init => IInv
<1> SUFFICES ASSUME Init PROVE IInv
  OBVIOUS
<1>1. TypeOK
  BY TypeInit
<1>2. Solo
  BY DEF Init, Solo, Running, Remote, Shipping, Activation, Rollback
<1>3. Lone
  BY DEF Init, Lone, Shipped, Recoverable, Parked, BinarySnapped, DistSnapped, Running, Remote, Shipping, Activation, Rollback
<1>4. Unbroken
  BY DEF Init, Unbroken, Paths, Releases
<1> QED
  BY <1>1, <1>2, <1>3, <1>4 DEF IInv

------------------------------------------------------------------------------
(***************************************************************************)
(* What a step does to the places of the deployments, and the types.       *)
(***************************************************************************)
Stages == Running \cup Ended \cup {"queued"}

\* A script moves on, or an orphan does and perhaps ends.
Moved(d) ==
  /\ stage' \in [Deployments -> Stages] /\ orphans' \subseteq Deployments \X Remote
  /\ \A e \in Deployments \ {d} : stage'[e] = stage[e]
  /\ \/ stage[d] \in Running /\ stage'[d] # "queued" /\ orphans' = orphans
     \/ /\ stage' = stage
        /\ \E s \in Remote : <<d, s>> \in orphans
        /\ \A e \in Deployments, s \in Remote : <<e, s>> \in orphans' => <<e, s>> \in orphans \/ e = d

LEMMA CallsAreRemote == \A call \in Calls : call \subseteq Remote
BY DEF Calls, Remote, Shipping, Activation, Rollback

LEMMA GotoMoves ==
  ASSUME TypeOK, NEW d \in Deployments, NEW s \in Remote, NEW next \in Running \cup Ended, At(d, s), Goto(d, s, next)
  PROVE  Moved(d)
<1> USE DEF TypeOK, Stages
<1>1. CASE <<d, s>> \in orphans
  <2>1. stage' = stage
    BY <1>1 DEF Goto
  <2>2. orphans' = (orphans \ {<<d, s>>}) \cup
                     (IF \E call \in Calls : {s, next} \subseteq call THEN {<<d, next>>} ELSE {})
    BY <1>1 DEF Goto
  <2>3. (\E call \in Calls : {s, next} \subseteq call) => next \in Remote
    BY CallsAreRemote
  <2>4. orphans' \subseteq Deployments \X Remote
    BY <2>2, <2>3
  <2>5. \A e \in Deployments, t \in Remote : <<e, t>> \in orphans' => <<e, t>> \in orphans \/ e = d
    BY <2>2
  <2> QED
    BY <1>1, <2>1, <2>4, <2>5 DEF Moved
<1>2. CASE <<d, s>> \notin orphans
  <2>1. stage[d] = s /\ stage' = [stage EXCEPT ![d] = next] /\ orphans' = orphans
    BY <1>2 DEF At, Goto
  <2>2. s \in Running /\ next # "queued"
    BY DEF Running, Remote, Shipping, Activation, Rollback, Ended
  <2> QED
    BY <2>1, <2>2 DEF Moved
<1> QED
  BY <1>1, <1>2

LEMMA ShipMoves ==
  ASSUME TypeOK, NEW d \in Deployments, Ship(d)
  PROVE  Moved(d) /\ UNCHANGED <<faults, history>>
<1> USE GotoMoves DEF Running, Remote, Shipping, Activation, Rollback
<1>1. CASE KeepBinary(d)
  BY <1>1 DEF KeepBinary
<1>2. CASE CopyBinary(d)
  BY <1>2 DEF CopyBinary
<1>3. CASE ShipBinary(d)
  BY <1>3 DEF ShipBinary
<1>4. CASE KeepDist(d)
  BY <1>4 DEF KeepDist
<1>5. CASE CopyDist(d)
  BY <1>5 DEF CopyDist
<1>6. CASE FillPrev(d)
  BY <1>6 DEF FillPrev
<1>7. CASE ClearNew(d)
  BY <1>7 DEF ClearNew
<1>8. CASE ShipDist(d)
  BY <1>8 DEF ShipDist
<1>9. CASE SendDist(d)
  BY <1>9 DEF SendDist
<1> QED
  BY <1>1, <1>2, <1>3, <1>4, <1>5, <1>6, <1>7, <1>8, <1>9 DEF Ship

LEMMA ActivateMoves ==
  ASSUME TypeOK, NEW d \in Deployments, Activate(d)
  PROVE  Moved(d) /\ UNCHANGED <<faults, history>>
<1> USE GotoMoves DEF Running, Remote, Shipping, Activation, Rollback
<1>1. CASE SwapBinary(d)
  BY <1>1 DEF SwapBinary
<1>2. CASE DropOld(d)
  BY <1>2 DEF DropOld
<1>3. CASE ParkDist(d)
  BY <1>3 DEF ParkDist
<1>4. CASE SwapDist(d)
  BY <1>4 DEF SwapDist
<1>5. CASE Restart(d)
  BY <1>5 DEF Restart
<1> QED
  BY <1>1, <1>2, <1>3, <1>4, <1>5 DEF Activate

LEMMA RollBackMoves ==
  ASSUME TypeOK, NEW d \in Deployments, RollBack(d)
  PROVE  Moved(d) /\ UNCHANGED <<faults, history>>
<1> USE GotoMoves DEF Running, Remote, Shipping, Activation, Rollback
<1>1. CASE RestoreBinary(d)
  BY <1>1 DEF RestoreBinary
<1>2. CASE ClearDist(d)
  BY <1>2 DEF ClearDist
<1>3. CASE RemoveDist(d)
  BY <1>3 DEF RemoveDist
<1>4. CASE RestoreDist(d)
  BY <1>4 DEF RestoreDist
<1>5. CASE RestartPrevious(d)
  BY <1>5 DEF RestartPrevious
<1>6. CASE VerifyOk(d) \/ VerifyFails(d)
  BY <1>6 DEF VerifyOk, VerifyFails, Moved, TypeOK, Stages, Ended, history
<1> QED
  BY <1>1, <1>2, <1>3, <1>4, <1>5, <1>6 DEF RollBack

LEMMA NextAfterFailure ==
  ASSUME NEW s \in Remote
  PROVE  AfterFailure(s) \in Running \cup Ended
BY DEF AfterFailure, Caught, Running, Remote, Shipping, Activation, Rollback, Ended

LEMMA FailMoves ==
  ASSUME TypeOK, NEW d \in Deployments, NEW s \in Remote, CommandFails(d, s)
  PROVE  Moved(d)
BY NextAfterFailure, GotoMoves DEF CommandFails

LEMMA PartMoves ==
  ASSUME TypeOK, NEW d \in Deployments, SessionLost(d) \/ Killed(d)
  PROVE  /\ stage[d] \in Running
         /\ \E next \in Running \cup Ended : stage' = [stage EXCEPT ![d] = next]
         /\ \/ UNCHANGED <<orphans, alone>> /\ HalfDone(d, stage[d])
            \/ /\ stage[d] \in Remote
               /\ orphans' = orphans \cup {<<d, stage[d]>>}
               /\ alone' = [alone EXCEPT ![d] = FALSE] /\ UNCHANGED host
         /\ ignored' = [ignored EXCEPT ![d] = @ \cup ({stage[d]} \cap Rollback)]
         /\ UNCHANGED <<restored, before>>
<1>1. CASE SessionLost(d)
  <2>1. stage[d] \in Remote /\ stage' = [stage EXCEPT ![d] = Caught(stage[d])]
    BY <1>1 DEF SessionLost
  <2>2. Caught(stage[d]) \in Running \cup Ended
    BY <2>1 DEF Caught, Running, Remote, Shipping, Activation, Rollback, Ended
  <2> QED
    BY <1>1, <2>1, <2>2 DEF SessionLost, Parted, Running
<1>2. CASE Killed(d)
  BY <1>2 DEF Killed, Parted, Ended
<1> QED
  BY <1>1, <1>2

\* Every step but a Begin: it is d's, and touches what is recorded of d only.
LEMMA ActsStep ==
  ASSUME TypeOK, NEW d \in Deployments, Acts(d)
  PROVE  /\ before' = before
         /\ \A e \in Deployments \ {d} : stage'[e] = stage[e] /\ alone'[e] = alone[e] /\ ignored'[e] = ignored[e]
         /\ alone'[d] => alone[d]
         /\ ignored[d] \subseteq ignored'[d]
         /\ stage[d] \in Running \/ \E s \in Remote : <<d, s>> \in orphans
         /\ stage'[d] = stage[d] \/ (stage[d] \in Running /\ stage'[d] # "queued")
         /\ \A e \in Deployments, s \in Remote : <<e, s>> \in orphans' =>
              \/ <<e, s>> \in orphans
              \/ e = d /\ (~alone'[d] \/ \E t \in Remote : <<d, t>> \in orphans)
<1>1. CASE Ship(d) \/ Activate(d) \/ RollBack(d)
  BY <1>1, ShipMoves, ActivateMoves, RollBackMoves DEF Moved, history
<1>2. CASE Healthy(d) \/ Unhealthy(d)
  BY <1>2 DEF Healthy, Unhealthy, history, TypeOK, Running
<1>3. ASSUME NEW s \in Remote, CommandFails(d, s)
      PROVE  Moved(d) /\ UNCHANGED <<before, alone>>
             /\ ignored' = [ignored EXCEPT ![d] = @ \cup ({s} \cap Overlooked)]
  BY <1>3, FailMoves DEF CommandFails
<1>4. CASE \E s \in Remote : CommandFails(d, s)
  <2>1. PICK s \in Remote : CommandFails(d, s)
    BY <1>4
  <2>2. Moved(d) /\ UNCHANGED <<before, alone>>
    BY <1>3, <2>1
  <2>3. ignored[d] \subseteq ignored'[d] /\ \A e \in Deployments \ {d} : ignored'[e] = ignored[e]
    BY <1>3, <2>1 DEF TypeOK
  <2> QED
    BY <2>2, <2>3 DEF Moved
<1>5. CASE SessionLost(d) \/ Killed(d)
  <2>1. PICK next \in Running \cup Ended : stage' = [stage EXCEPT ![d] = next]
    BY <1>5, PartMoves
  <2>2. next # "queued"
    BY DEF Running, Remote, Shipping, Activation, Rollback, Ended
  <2>3. \A e \in Deployments \ {d} : stage'[e] = stage[e] /\ alone'[e] = alone[e] /\ ignored'[e] = ignored[e]
    BY <1>5, <2>1, PartMoves DEF TypeOK
  <2>4. (alone'[d] => alone[d]) /\ ignored[d] \subseteq ignored'[d] /\ before' = before
    BY <1>5, PartMoves DEF TypeOK
  <2>5. \A e \in Deployments, s \in Remote : <<e, s>> \in orphans' => <<e, s>> \in orphans \/ (e = d /\ ~alone'[d])
    BY <1>5, PartMoves DEF TypeOK
  <2>6. stage[d] \in Running /\ stage'[d] = next
    BY <1>5, <2>1, PartMoves DEF TypeOK
  <2> QED
    BY <2>2, <2>3, <2>4, <2>5, <2>6
<1> QED
  BY <1>1, <1>2, <1>4, <1>5 DEF Acts, Fail

LEMMA PathTypes ==
  /\ Paths = {"binary", "binary.new", "binary.prev", "dist", "dist.new", "dist.old", "dist.prev"}
  /\ Deployments \subseteq Contents /\ None \in Contents /\ Partial \in Contents
BY DEF Paths, Contents, Releases

\* The host.
LEMMA HostTypes ==
  ASSUME TypeOK, NEW d \in Deployments, Acts(d)
  PROVE  /\ disk' \in [Paths -> Contents]
         /\ running' \in Releases \cup {None}
         /\ restored' \in [Deployments -> BOOLEAN]
<1> USE PathTypes DEF TypeOK, Put, MoveFile, MoveDir
<1>1. CASE Ship(d)
  BY <1>1 DEF Ship, KeepBinary, CopyBinary, ShipBinary, KeepDist, CopyDist, FillPrev, ClearNew, ShipDist, SendDist
<1>2. CASE Activate(d)
  BY <1>2 DEF Activate, SwapBinary, DropOld, ParkDist, SwapDist, Restart, Started
<1>3. CASE RollBack(d)
  <2>1. CASE RestoreBinary(d)
    BY <2>1 DEF RestoreBinary
  <2>2. CASE RestoreDist(d)
    <3>1. restored' = [restored EXCEPT ![d] = TRUE] /\ running' = running
      BY <2>2 DEF RestoreDist
    <3>2. disk' = [disk EXCEPT !["dist"] = IF Exists("dist") THEN @ ELSE disk["dist.prev"], !["dist.prev"] = None]
      BY <2>2 DEF RestoreDist
    <3> QED
      BY <3>1, <3>2
  <2>3. CASE ClearDist(d) \/ RemoveDist(d)
    BY <2>3 DEF ClearDist, RemoveDist
  <2>4. CASE RestartPrevious(d) \/ VerifyOk(d) \/ VerifyFails(d)
    BY <2>4 DEF RestartPrevious, VerifyOk, VerifyFails, Started, host
  <2> QED
    BY <1>3, <2>1, <2>2, <2>3, <2>4 DEF RollBack
<1>4. CASE Healthy(d) \/ Unhealthy(d)
  BY <1>4 DEF Healthy, Unhealthy, host
<1>5. ASSUME NEW s, HalfDone(d, s)
      PROVE  disk' \in [Paths -> Contents] /\ running' \in Releases \cup {None}
  BY <1>5 DEF HalfDone, Started
<1>6. CASE \E s \in Remote : CommandFails(d, s)
  BY <1>5, <1>6 DEF CommandFails
<1>7. CASE SessionLost(d) \/ Killed(d)
  <2>1. UNCHANGED restored /\ (UNCHANGED host \/ HalfDone(d, stage[d]))
    BY <1>7, PartMoves
  <2> QED
    BY <1>5, <2>1 DEF host
<1> QED
  BY <1>1, <1>2, <1>3, <1>4, <1>6, <1>7 DEF Acts, Fail

LEMMA TypeStep ==
  ASSUME TypeOK, [Next]_vars
  PROVE  TypeOK'
<1>1. CASE UNCHANGED vars
  BY <1>1 DEF TypeOK, vars
<1>2. ASSUME NEW d \in Deployments, Begin(d) PROVE TypeOK'
  <2>1. before' \in [Deployments -> Live]
    BY <1>2, PathTypes DEF TypeOK, Begin, NowLive, Live
  <2>2. stage' \in [Deployments -> Running \cup Ended \cup {"queued"}]
    BY <1>2 DEF TypeOK, Begin, Running, Remote, Shipping
  <2>3. alone' \in [Deployments -> BOOLEAN]
    BY <1>2, Zenon DEF TypeOK, Begin
  <2>4. faults' \in 0 .. MaxFaults
    BY <1>2 DEF TypeOK, Begin, Fault
  <2> QED
    BY <1>2, <2>1, <2>2, <2>3, <2>4 DEF TypeOK, Begin, host
<1>3. ASSUME NEW d \in Deployments, Acts(d) PROVE TypeOK'
  <2>1. CASE Ship(d) \/ Activate(d) \/ RollBack(d)
    BY <1>3, <2>1, ShipMoves, ActivateMoves, RollBackMoves, HostTypes DEF TypeOK, Moved, Stages, history
  <2>2. CASE Healthy(d) \/ Unhealthy(d)
    <3>1. stage' \in [Deployments -> Running \cup Ended \cup {"queued"}]
      BY <2>2 DEF TypeOK, Healthy, Unhealthy, Running, Remote, Rollback, Ended
    <3> QED
      BY <1>3, <2>2, <3>1, HostTypes DEF TypeOK, Healthy, Unhealthy, history
  <2>3. CASE \E s \in Remote : CommandFails(d, s)
    <3>1. PICK s \in Remote : CommandFails(d, s)
      BY <2>3
    <3>2. Moved(d)
      BY <3>1, FailMoves
    <3>3. faults' \in 0 .. MaxFaults /\ ignored' \in [Deployments -> SUBSET Overlooked]
      BY <3>1 DEF TypeOK, CommandFails, Fault
    <3>4. UNCHANGED <<before, alone>>
      BY <3>1 DEF CommandFails
    <3> QED
      BY <1>3, <3>2, <3>3, <3>4, HostTypes DEF TypeOK, Moved, Stages
  <2>4. CASE SessionLost(d) \/ Killed(d)
    <3>1. faults' \in 0 .. MaxFaults
      BY <2>4 DEF TypeOK, SessionLost, Killed, Fault
    <3>2. stage' \in [Deployments -> Running \cup Ended \cup {"queued"}]
      BY <2>4, PartMoves DEF TypeOK
    <3>3. orphans' \subseteq Deployments \X Remote
      BY <2>4, PartMoves DEF TypeOK
    <3>4. alone' \in [Deployments -> BOOLEAN]
      BY <2>4, PartMoves DEF TypeOK
    <3>5. ignored' \in [Deployments -> SUBSET Overlooked] /\ before' = before
      BY <2>4, PartMoves DEF TypeOK, Overlooked
    <3> QED
      BY <1>3, <3>1, <3>2, <3>3, <3>4, <3>5, HostTypes DEF TypeOK
  <2> QED
    BY <1>3, <2>1, <2>2, <2>3, <2>4 DEF Acts, Fail
<1> QED
  BY <1>1, <1>2, <1>3 DEF Next, Acts

\* The unit never runs a half-written binary, and no other value goes astray.
THEOREM TypeCorrect == Spec => []TypeOK
<1>1. Init => TypeOK
  BY TypeInit
<1>2. TypeOK /\ [Next]_vars => TypeOK'
  BY TypeStep
<1> QED
  BY <1>1, <1>2, PTL DEF Spec

------------------------------------------------------------------------------
(***************************************************************************)
(* Who is alone.                                                           *)
(***************************************************************************)
LEMMA SoloStep ==
  ASSUME TypeOK, Solo, [Next]_vars
  PROVE  Solo'
<1>1. CASE UNCHANGED vars
  BY <1>1 DEF Solo, vars
<1>2. ASSUME NEW d \in Deployments, Begin(d) PROVE Solo'
  <2>1. \A e \in Deployments : stage'[e] \in Running => e \in Active \cup {d}
    BY <1>2 DEF TypeOK, Begin, Active
  <2>2. \A e \in Active \cup {d} : e \in Deployments /\ alone'[e] = (Active = {} /\ orphans = {})
    BY <1>2 DEF Begin, Active
  <2>3. \A e \in Deployments : stage'[e] = "queued" => stage[e] = "queued" /\ e # d /\ e \notin Active
    BY <1>2 DEF TypeOK, Begin, Active, Running, Remote, Shipping, Activation, Rollback
  <2>4. \A e \in Deployments : stage'[e] = "queued" => alone'[e] /\ ignored'[e] = {}
    BY <1>2, <2>3 DEF Begin, Solo
  <2>5. \A e, f \in Deployments : e # f /\ stage'[e] \in Running /\ stage'[f] \in Running => Active # {}
    BY <2>1
  <2>6. orphans' = orphans
    BY <1>2 DEF Begin
  <2>7. \A e \in Deployments, s \in Remote : <<e, s>> \in orphans' => ~alone'[e]
    BY <1>2, <2>2, <2>6 DEF Begin, Solo
  <2> QED
    BY <2>1, <2>2, <2>4, <2>5, <2>6, <2>7 DEF Solo
<1>3. ASSUME NEW d \in Deployments, Acts(d) PROVE Solo'
  <2>1. \A e \in Deployments : (stage'[e] \in Running => stage[e] \in Running) /\ (alone'[e] => alone[e])
    BY <1>3, ActsStep
  <2>2. \A e, f \in Deployments : e # f /\ stage'[e] \in Running /\ stage'[f] \in Running => ~alone'[e]
    BY <2>1 DEF Solo
  <2>3. stage[d] # "queued"
    BY <1>3, ActsStep DEF Solo, Running, Remote, Shipping, Activation, Rollback
  <2>4. \A e \in Deployments : stage'[e] = "queued" => alone'[e] /\ ignored'[e] = {}
    BY <1>3, <2>3, ActsStep DEF Solo
  <2>5. \A e \in Deployments, s \in Remote : <<e, s>> \in orphans' => ~alone'[e]
    BY <1>3, <2>1, ActsStep DEF Solo
  <2>6. ASSUME NEW e \in Deployments, stage'[e] \in Running, alone'[e] PROVE orphans' = {}
    <3>1. orphans = {} /\ stage[e] \in Running /\ alone[e]
      BY <2>1, <2>6 DEF Solo
    <3>2. stage[d] \in Running
      BY <1>3, <3>1, ActsStep
    <3>3. e = d
      BY <3>1, <3>2 DEF Solo
    <3>4. \A f \in Deployments, s \in Remote : <<f, s>> \notin orphans'
      BY <1>3, <2>6, <3>1, <3>3, ActsStep
    <3>5. orphans' \subseteq Deployments \X Remote
      BY TypeStep DEF TypeOK
    <3> QED
      BY <3>4, <3>5
  <2> QED
    BY <2>2, <2>4, <2>5, <2>6 DEF Solo
<1> QED
  BY <1>1, <1>2, <1>3 DEF Next, Acts

\* A step of a deployment that stays alone: it is its script's, no orphan's, and
\* no other deployment is active.
LEMMA AloneStep ==
  ASSUME TypeOK, Solo, NEW d \in Deployments, Acts(d), alone'[d]
  PROVE  /\ alone[d] /\ orphans = {} /\ stage[d] \in Running
         /\ \A e \in Deployments \ {d} : stage[e] \notin Running
BY ActsStep DEF Solo

LEMMA CalmBefore ==
  ASSUME TypeOK, Solo, [Next]_vars, Calm'
  PROVE  Calm
<1>1. CASE UNCHANGED vars
  BY <1>1 DEF Calm, Spoiled, vars
<1>2. ASSUME NEW d \in Deployments, Begin(d) PROVE Calm
  <2>1. ignored' = ignored
    BY <1>2 DEF Begin
  <2>2. Active = {}
    BY <1>2 DEF Begin, Calm, Active
  <2>3. \A e \in Deployments \ {d} : alone'[e] = alone[e]
    BY <1>2, <2>2 DEF Begin
  <2>4. alone[d]
    BY <1>2 DEF Begin, Solo
  <2> QED
    BY <2>1, <2>3, <2>4 DEF Calm, Spoiled
<1>3. ASSUME NEW d \in Deployments, Acts(d) PROVE Calm
  <2>1. \A e \in Deployments : (alone'[e] => alone[e]) /\ ignored[e] \subseteq ignored'[e]
    BY <1>3, ActsStep
  <2> QED
    BY <2>1 DEF Calm, Spoiled
<1> QED
  BY <1>1, <1>2, <1>3 DEF Next, Acts

------------------------------------------------------------------------------
(***************************************************************************)
(* One step of a deployment that is alone.                                 *)
(***************************************************************************)
LEMMA Attached ==
  ASSUME orphans = {}, NEW d, NEW s, NEW next
  PROVE  /\ At(d, s) <=> stage[d] = s
         /\ Goto(d, s, next) => stage' = [stage EXCEPT ![d] = next]
BY DEF At, Goto

LEMMA LoneShip ==
  ASSUME TypeOK, NEW d \in Deployments, Ship(d), orphans = {}, Shipped(d), Whole(d) => Recoverable(d),
         \A e \in Deployments \ {d} : stage[e] \notin Running
  PROVE  Shipped(d)' /\ (Whole(d)' => Recoverable(d)')
<1> USE PathTypes, Attached DEF TypeOK, Exists, Put, MoveFile, MoveDir, NowLive, history, Shipping, Activation, Rollback
<1>1. CASE KeepBinary(d)
  <2>1. stage[d] = "keep_binary" /\ stage'[d] \in {"copy_binary", "ship_binary"} /\ UNCHANGED history
    BY <1>1 DEF KeepBinary
  <2>2. Shipped(d)'
    BY <1>1, <2>1 DEF KeepBinary, Shipped, Parked
  <2>3. Whole(d)' => Recoverable(d)'
    BY <1>1, <2>1 DEF KeepBinary, Shipped, Recoverable, Whole, Kept, Spoiled, BinarySnapped, DistSnapped, Running, Remote
  <2> QED
    BY <2>2, <2>3
<1>2. CASE CopyBinary(d)
  <2>1. stage[d] = "copy_binary" /\ stage'[d] = "ship_binary" /\ UNCHANGED history
    BY <1>2 DEF CopyBinary
  <2>2. Shipped(d)'
    BY <1>2, <2>1 DEF CopyBinary, Shipped, Parked
  <2>3. Whole(d)' => Recoverable(d)'
    BY <1>2, <2>1 DEF CopyBinary, Shipped, Recoverable, Whole, Kept, Spoiled, BinarySnapped, DistSnapped, Running, Remote
  <2> QED
    BY <2>2, <2>3
<1>3. CASE ShipBinary(d)
  <2>1. stage[d] = "ship_binary" /\ stage'[d] = "keep_dist" /\ UNCHANGED history
    BY <1>3 DEF ShipBinary
  <2>2. Shipped(d)'
    BY <1>3, <2>1 DEF ShipBinary, Shipped, Parked
  <2>3. Whole(d)' => Recoverable(d)'
    BY <1>3, <2>1 DEF ShipBinary, Shipped, Recoverable, Whole, Kept, Spoiled, BinarySnapped, DistSnapped, Running, Remote
  <2> QED
    BY <2>2, <2>3
<1>4. CASE KeepDist(d)
  <2>1. stage[d] = "keep_dist" /\ stage'[d] \in {"copy_dist", "clear_new"} /\ UNCHANGED history
    BY <1>4 DEF KeepDist
  <2>2. Shipped(d)'
    BY <1>4, <2>1 DEF KeepDist, Shipped, Parked
  <2>3. Whole(d)' => Recoverable(d)'
    BY <1>4, <2>1 DEF KeepDist, Shipped, Recoverable, Whole, Kept, Spoiled, BinarySnapped, DistSnapped, Running, Remote
  <2> QED
    BY <2>2, <2>3
<1>5. CASE CopyDist(d)
  <2>1. stage[d] = "copy_dist" /\ stage'[d] \in {"clear_new", "fill_prev"} /\ UNCHANGED history
    BY <1>5 DEF CopyDist
  <2>2. Shipped(d)'
    BY <1>5, <2>1 DEF CopyDist, Shipped, Parked
  <2>3. Whole(d)' => Recoverable(d)'
    BY <1>5, <2>1 DEF CopyDist, Shipped, Recoverable, Whole, Kept, Spoiled, BinarySnapped, DistSnapped, Running, Remote
  <2> QED
    BY <2>2, <2>3
<1>6. CASE FillPrev(d)
  <2>1. stage[d] = "fill_prev" /\ stage'[d] = "clear_new" /\ UNCHANGED history
    BY <1>6 DEF FillPrev
  <2>2. Shipped(d)'
    BY <1>6, <2>1 DEF FillPrev, Shipped, Parked
  <2>3. Whole(d)' => Recoverable(d)'
    BY <1>6, <2>1 DEF FillPrev, Shipped, Recoverable, Whole, Kept, Spoiled, BinarySnapped, DistSnapped, Running, Remote
  <2> QED
    BY <2>2, <2>3
<1>7. CASE ClearNew(d)
  <2>1. stage[d] = "clear_new" /\ stage'[d] = "ship_dist" /\ UNCHANGED history
    BY <1>7 DEF ClearNew
  <2>2. Shipped(d)'
    BY <1>7, <2>1 DEF ClearNew, Shipped, Parked
  <2>3. Whole(d)' => Recoverable(d)'
    BY <1>7, <2>1 DEF ClearNew, Shipped, Recoverable, Whole, Kept, Spoiled, BinarySnapped, DistSnapped, Running, Remote
  <2> QED
    BY <2>2, <2>3
<1>8. CASE ShipDist(d)
  <2>1. stage[d] = "ship_dist" /\ stage'[d] = "send_dist" /\ UNCHANGED history
    BY <1>8 DEF ShipDist
  <2>2. Shipped(d)'
    BY <1>8, <2>1 DEF ShipDist, Shipped, Parked
  <2>3. Whole(d)' => Recoverable(d)'
    BY <1>8, <2>1 DEF ShipDist, Shipped, Recoverable, Whole, Kept, Spoiled, BinarySnapped, DistSnapped, Running, Remote
  <2> QED
    BY <2>2, <2>3
<1>9. CASE SendDist(d)
  <2>1. stage[d] = "send_dist" /\ stage'[d] = "swap_binary" /\ UNCHANGED history
    BY <1>9 DEF SendDist
  <2>4. disk' = [disk EXCEPT !["dist.new"] = d] /\ running' = running
    BY <1>9 DEF SendDist, Running, Remote
  <2>2. Shipped(d)'
    BY <2>1, <2>4 DEF Shipped, Parked
  <2>3. Whole(d)' => Recoverable(d)'
    BY <1>9, <2>1 DEF SendDist, Shipped, Recoverable, Whole, Kept, Spoiled, BinarySnapped, DistSnapped, Running, Remote
  <2> QED
    BY <2>2, <2>3
<1> QED
  BY <1>1, <1>2, <1>3, <1>4, <1>5, <1>6, <1>7, <1>8, <1>9 DEF Ship

LEMMA LoneActivate ==
  ASSUME TypeOK, NEW d \in Deployments, Activate(d), orphans = {}, Shipped(d), Whole(d) => Recoverable(d)
  PROVE  Shipped(d)' /\ (Whole(d)' => Recoverable(d)')
<1> USE PathTypes, Attached DEF TypeOK, Exists, Put, MoveFile, MoveDir, NowLive, history, Shipping, Activation, Rollback
<1>1. CASE SwapBinary(d)
  <2>1. stage[d] = "swap_binary" /\ stage'[d] = "drop_old" /\ UNCHANGED history
    BY <1>1 DEF SwapBinary
  <2>2. Shipped(d)'
    BY <1>1, <2>1 DEF SwapBinary, Shipped, Parked
  <2>3. Whole(d)' => Recoverable(d)'
    BY <1>1, <2>1 DEF SwapBinary, Shipped, Recoverable, Whole, Kept, Spoiled, BinarySnapped, DistSnapped, Running, Remote
  <2> QED
    BY <2>2, <2>3
<1>2. CASE DropOld(d)
  <2>1. stage[d] = "drop_old" /\ stage'[d] = "park_dist" /\ UNCHANGED history
    BY <1>2 DEF DropOld
  <2>2. Shipped(d)'
    BY <1>2, <2>1 DEF DropOld, Shipped, Parked
  <2>3. Whole(d)' => Recoverable(d)'
    BY <1>2, <2>1 DEF DropOld, Shipped, Recoverable, Whole, Kept, Spoiled, BinarySnapped, DistSnapped, Running, Remote
  <2> QED
    BY <2>2, <2>3
<1>3. CASE ParkDist(d)
  <2>1. stage[d] = "park_dist" /\ stage'[d] = "swap_dist" /\ UNCHANGED history
    BY <1>3 DEF ParkDist
  <2>2. Shipped(d)'
    BY <1>3, <2>1 DEF ParkDist, Shipped, Parked
  <2>3. Whole(d)' => Recoverable(d)'
    BY <1>3, <2>1 DEF ParkDist, Shipped, Recoverable, Whole, Kept, Spoiled, BinarySnapped, DistSnapped, Running, Remote
  <2> QED
    BY <2>2, <2>3
<1>4. CASE SwapDist(d)
  <2>1. stage[d] = "swap_dist" /\ stage'[d] = "restart" /\ UNCHANGED history
    BY <1>4 DEF SwapDist
  <2>2. Shipped(d)'
    BY <1>4, <2>1 DEF SwapDist, Shipped, Parked
  <2>3. Whole(d)' => Recoverable(d)'
    BY <1>4, <2>1 DEF SwapDist, Shipped, Recoverable, Whole, Kept, Spoiled, BinarySnapped, DistSnapped, Running, Remote
  <2> QED
    BY <2>2, <2>3
<1>5. CASE Restart(d)
  <2>1. stage[d] = "restart" /\ stage'[d] = "health" /\ UNCHANGED history
    BY <1>5 DEF Restart
  <2>4. disk' = disk /\ running' = d
    BY <1>5, <2>1 DEF Restart, Started, Shipped, Releases
  <2>2. Shipped(d)'
    BY <2>1, <2>4 DEF Shipped, Parked
  <2>3. Whole(d)' => Recoverable(d)'
    BY <1>5, <2>1 DEF Restart, Shipped, Recoverable, Whole, Kept, Spoiled, BinarySnapped, DistSnapped, Running, Remote
  <2> QED
    BY <2>2, <2>3
<1> QED
  BY <1>1, <1>2, <1>3, <1>4, <1>5 DEF Activate

LEMMA LoneRollBack ==
  ASSUME TypeOK, NEW d \in Deployments, RollBack(d), orphans = {}, Shipped(d), Whole(d) => Recoverable(d)
  PROVE  Shipped(d)' /\ (Whole(d)' => Recoverable(d)')
<1> USE PathTypes, Attached DEF TypeOK, Exists, Put, MoveFile, MoveDir, NowLive, history, Shipping, Activation, Rollback
<1>1. CASE RestoreBinary(d)
  <2>1. stage[d] = "restore_binary" /\ stage'[d] = "clear_dist" /\ UNCHANGED history
    BY <1>1 DEF RestoreBinary
  <2>2. Shipped(d)'
    BY <1>1, <2>1 DEF RestoreBinary, Shipped, Parked
  <2>3. Whole(d)' => Recoverable(d)'
    BY <1>1, <2>1 DEF RestoreBinary, Shipped, Recoverable, Whole, Kept, Spoiled, BinarySnapped, DistSnapped, Running, Remote
  <2> QED
    BY <2>2, <2>3
<1>2. CASE ClearDist(d)
  <2>1. stage[d] = "clear_dist" /\ stage'[d] \in {"remove_dist", "restart_previous"} /\ UNCHANGED history
    BY <1>2 DEF ClearDist
  <2>2. Shipped(d)'
    BY <1>2, <2>1 DEF ClearDist, Shipped, Parked
  <2>3. Whole(d)' => Recoverable(d)'
    BY <1>2, <2>1 DEF ClearDist, Shipped, Recoverable, Whole, Kept, Spoiled, BinarySnapped, DistSnapped, Running, Remote
  <2> QED
    BY <2>2, <2>3
<1>3. CASE RemoveDist(d)
  <2>1. stage[d] = "remove_dist" /\ stage'[d] = "restore_dist" /\ UNCHANGED history
    BY <1>3 DEF RemoveDist
  <2>2. Shipped(d)'
    BY <1>3, <2>1 DEF RemoveDist, Shipped, Parked
  <2>3. Whole(d)' => Recoverable(d)'
    BY <1>3, <2>1 DEF RemoveDist, Shipped, Recoverable, Whole, Kept, Spoiled, BinarySnapped, DistSnapped, Running, Remote
  <2> QED
    BY <2>2, <2>3
<1>4. CASE RestoreDist(d)
  <2>1. stage[d] = "restore_dist" /\ stage'[d] = "restart_previous" /\ UNCHANGED history
    BY <1>4 DEF RestoreDist
  <2>2. Shipped(d)'
    BY <1>4, <2>1 DEF RestoreDist, Shipped, Parked
  <2>3. Whole(d)' => Recoverable(d)'
    BY <1>4, <2>1 DEF RestoreDist, Shipped, Recoverable, Whole, Kept, Spoiled, BinarySnapped, DistSnapped, Running, Remote
  <2> QED
    BY <2>2, <2>3
<1>5. CASE RestartPrevious(d)
  <2>1. stage[d] = "restart_previous" /\ stage'[d] = "verify" /\ UNCHANGED history
    BY <1>5 DEF RestartPrevious
  <2>2. Shipped(d)'
    BY <1>5, <2>1 DEF RestartPrevious, Shipped, Parked
  <2>3. ASSUME Whole(d)' PROVE Recoverable(d)'
    <3>1. UNCHANGED <<disk, history, restored>>
      BY <1>5 DEF RestartPrevious
    <3>2. Recoverable(d)
      BY <2>1, <2>3 DEF Whole
    <3>3. Kept(d)'
      BY <2>1, <3>1, <3>2 DEF Recoverable, Kept, Running, Remote
    <3>4. ASSUME ~Spoiled(d)' PROVE NowLive' = [before'[d] EXCEPT !.running = before'[d].binary]
      <4>1. /\ disk["binary"] = before[d].binary /\ restored[d] /\ disk["dist"] = before[d].dist
            /\ disk["binary"] \in Releases
        BY <2>1, <2>3, <3>1, <3>2, <3>4 DEF Recoverable, Spoiled, Whole
      <4>2. running' = before[d].binary
        BY <1>5, <4>1 DEF RestartPrevious, Started
      <4>3. before[d] = [binary |-> before[d].binary, dist |-> before[d].dist, running |-> before[d].running]
        BY DEF Live
      <4> QED
        BY <3>1, <4>1, <4>2, <4>3
    <3> QED
      BY <2>1, <3>3, <3>4 DEF Recoverable, BinarySnapped, DistSnapped
  <2> QED
    BY <2>2, <2>3
<1>6. CASE VerifyOk(d) \/ VerifyFails(d)
  <2>1. stage'[d] \in {"rolled_back", "rollback_failed"}
    BY <1>6 DEF VerifyOk, VerifyFails
  <2>2. UNCHANGED history
    BY <1>6 DEF VerifyOk, VerifyFails
  <2> QED
    BY <2>1, <2>2 DEF Shipped, Parked, Recoverable, BinarySnapped, DistSnapped, Running, Remote
<1> QED
  BY <1>1, <1>2, <1>3, <1>4, <1>5, <1>6 DEF RollBack

LEMMA LoneHealth ==
  ASSUME TypeOK, NEW d \in Deployments, Healthy(d) \/ Unhealthy(d), Shipped(d), Whole(d) => Recoverable(d)
  PROVE  Shipped(d)' /\ (Whole(d)' => Recoverable(d)')
<1> USE DEF Shipping, Activation, Rollback
<1>1. stage[d] = "health" /\ stage'[d] \in {"deployed", "restore_binary"} /\ UNCHANGED <<disk, running, history, restored>>
  BY DEF Healthy, Unhealthy, TypeOK, history, host
<1>2. Shipped(d)'
  BY <1>1 DEF Shipped, Parked, NowLive, history
<1>3. Whole(d)' => Recoverable(d)'
  BY <1>1 DEF Recoverable, Whole, Kept, Spoiled, NowLive, history, BinarySnapped, DistSnapped, Running, Remote
<1> QED
  BY <1>2, <1>3

\* A command broken off leaves half of what its rm -rf was removing.
LEMMA HalfPaths ==
  ASSUME TypeOK, NEW d, NEW s, HalfDone(d, s)
  PROVE  /\ \A p \in {"binary", "binary.new", "binary.prev", "dist"} : disk'[p] = disk[p]
         /\ s # "keep_dist" => disk'["dist.prev"] = disk["dist.prev"]
         /\ s # "clear_new" => disk'["dist.new"] = disk["dist.new"]
         /\ s \notin {"restart", "restart_previous"} => running' = running
BY PathTypes DEF TypeOK, HalfDone, Put

\* A deployment that its failure has ended says nothing of the host any more; an
\* activation that failed leaves both snapshots; a failure of the rollback spoils it.
LEMMA LoneEnd ==
  ASSUME TypeOK, NEW d \in Deployments, HalfDone(d, stage[d]), UNCHANGED <<restored, before>>,
         Shipped(d), Whole(d) => Recoverable(d),
         \/ stage'[d] = "aborted" /\ (Parked(d)' <=> Parked(d))
         \/ stage[d] \in Activation /\ stage'[d] = "restore_binary" /\ ignored'[d] = ignored[d]
         \/ stage[d] \in Rollback /\ stage'[d] = "verify" /\ ignored'[d] = ignored[d] \cup {stage[d]}
  PROVE  Shipped(d)' /\ (Whole(d)' => Recoverable(d)')
<1> USE DEF Shipping, Activation, Rollback, Running, Remote
<1>1. CASE stage'[d] = "aborted" /\ (Parked(d)' <=> Parked(d))
  BY <1>1 DEF Shipped, Recoverable, BinarySnapped, DistSnapped
<1>2. CASE stage[d] \in Activation /\ stage'[d] = "restore_binary" /\ ignored'[d] = ignored[d]
  <2>1. Shipped(d)'
    BY <1>2 DEF Shipped, Parked
  <2>2. Whole(d)' => Recoverable(d)'
    BY <1>2, HalfPaths DEF Recoverable, Whole, Kept, Spoiled, BinarySnapped, DistSnapped
  <2> QED
    BY <2>1, <2>2
<1>3. CASE stage[d] \in Rollback /\ stage'[d] = "verify" /\ ignored'[d] = ignored[d] \cup {stage[d]}
  <2>1. Shipped(d)'
    BY <1>3 DEF Shipped, Parked
  <2>2. Whole(d)' => Recoverable(d)'
    BY <1>3, HalfPaths DEF Recoverable, Whole, Kept, Spoiled, BinarySnapped, DistSnapped
  <2> QED
    BY <2>1, <2>2
<1> QED
  BY <1>1, <1>2, <1>3

\* The failures a remote shell goes on after, without an end of the deployment.
LEMMA LoneOverlooked ==
  ASSUME TypeOK, NEW d \in Deployments, orphans = {}, Shipped(d), Whole(d) => Recoverable(d),
         NEW s \in Overlooked \ {"restart_previous"}, CommandFails(d, s)
  PROVE  Shipped(d)' /\ (Whole(d)' => Recoverable(d)')
<1> USE DEF Shipping, Activation, Rollback, Running, Remote
<1>1. /\ stage[d] = s /\ stage'[d] = AfterFailure(s) /\ before' = before
      /\ ignored'[d] = ignored[d] \cup {s}
      /\ HalfDone(d, s)
  <2>1. stage[d] = s /\ stage' = [stage EXCEPT ![d] = AfterFailure(s)] /\ before' = before /\ HalfDone(d, s)
    BY Attached DEF CommandFails
  <2>2. ignored' = [ignored EXCEPT ![d] = ignored[d] \cup {s}]
    BY DEF CommandFails
  <2> QED
    BY <2>1, <2>2 DEF TypeOK
<1>2. CASE s = "keep_dist"
  <2>1. stage'[d] = "copy_dist" /\ disk["dist"] # None
    BY <1>1, <1>2 DEF AfterFailure, CommandFails, Skipped, Exists
  <2>2. Shipped(d)'
    BY <1>1, <1>2, <2>1, HalfPaths DEF Shipped, Parked, NowLive
  <2>3. Whole(d)' => Recoverable(d)'
    BY <1>1, <1>2, <2>1, HalfPaths DEF Recoverable, Whole, Kept, Spoiled, BinarySnapped, DistSnapped
  <2> QED
    BY <2>2, <2>3
<1>3. CASE s \in {"drop_old", "park_dist"}
  <2>1. /\ s = "drop_old" => stage'[d] = "park_dist"
        /\ s = "park_dist" => stage'[d] = "swap_dist" /\ disk["dist"] # None
    BY <1>1, <1>3 DEF AfterFailure, CommandFails, Skipped, Exists
  <2>2. Shipped(d)'
    BY <1>1, <1>3, <2>1, HalfPaths DEF Shipped, Parked
  <2>3. Whole(d)' => Recoverable(d)'
    BY <1>1, <1>3, <2>1, HalfPaths DEF Recoverable, Whole, Kept, Spoiled, BinarySnapped, DistSnapped
  <2> QED
    BY <2>2, <2>3
<1>4. CASE s \in {"restore_binary", "clear_dist", "remove_dist", "restore_dist"}
  <2>1. /\ s = "restore_binary" => stage'[d] = "clear_dist"
        /\ s \in {"clear_dist", "remove_dist"} => stage'[d] = "restore_dist"
        /\ s = "restore_dist" => stage'[d] = "restart_previous"
    BY <1>1, <1>4 DEF AfterFailure
  <2>2. Shipped(d)'
    BY <1>1, <1>4, <2>1 DEF Shipped, Parked
  <2>3. Whole(d)' => Recoverable(d)'
    BY <1>1, <1>4, <2>1, HalfPaths DEF Recoverable, Whole, Kept, Spoiled, BinarySnapped, DistSnapped
  <2> QED
    BY <2>2, <2>3
<1> QED
  BY <1>2, <1>3, <1>4 DEF Overlooked

LEMMA LoneFailure ==
  ASSUME TypeOK, NEW d \in Deployments, Fail(d), orphans = {}, alone'[d], Shipped(d), Whole(d) => Recoverable(d)
  PROVE  Shipped(d)' /\ (Whole(d)' => Recoverable(d)')
<1>1. CASE SessionLost(d) \/ Killed(d)
  <2>1. HalfDone(d, stage[d]) /\ UNCHANGED <<restored, before>>
    BY <1>1, PartMoves DEF TypeOK
  <2>2. ignored'[d] = ignored[d] \cup ({stage[d]} \cap Rollback)
    BY <1>1, PartMoves DEF TypeOK
  <2>3. \/ stage'[d] = "aborted"
        \/ stage[d] \in Activation /\ stage'[d] = "restore_binary"
        \/ stage[d] \in Rollback /\ stage'[d] = "verify"
    BY <1>1 DEF SessionLost, Killed, Caught, TypeOK, Remote, Shipping, Activation, Rollback
  <2>4. Parked(d)' <=> Parked(d)
    BY <2>2 DEF Parked, Rollback
  <2>5. stage[d] \in Activation => ignored'[d] = ignored[d]
    BY <2>2 DEF Activation, Rollback
  <2>6. stage[d] \in Rollback => ignored'[d] = ignored[d] \cup {stage[d]}
    BY <2>2
  <2> QED
    BY <2>1, <2>3, <2>4, <2>5, <2>6, LoneEnd
<1>2. ASSUME NEW s \in Remote, CommandFails(d, s)
      PROVE  Shipped(d)' /\ (Whole(d)' => Recoverable(d)')
  <2>1. CASE s \in Overlooked \ {"restart_previous"}
    BY <1>2, <2>1, LoneOverlooked
  <2>2. CASE s \notin Overlooked \ {"restart_previous"}
    <3>1. stage[d] = s /\ stage'[d] = Caught(s) /\ before' = before /\ HalfDone(d, stage[d])
      BY <1>2, <2>2, Attached DEF CommandFails, AfterFailure, Overlooked, Rollback, TypeOK
    <3>2. restored' = restored
      <4>1. s \notin {"restore_binary", "restore_dist"}
        BY <2>2 DEF Overlooked, Rollback
      <4> QED
        BY <1>2, <4>1 DEF CommandFails, TypeOK
    <3>3. ignored'[d] = ignored[d] \cup ({s} \cap Overlooked)
      BY <1>2 DEF CommandFails, TypeOK
    <3>4. s \in Rollback => s = "restart_previous"
      BY <2>2 DEF Overlooked
    <3>5. \/ stage'[d] = "aborted"
          \/ s \in Activation /\ stage'[d] = "restore_binary"
          \/ s \in Rollback /\ stage'[d] = "verify"
      BY <3>1 DEF Caught, Remote, Shipping, Activation, Rollback
    <3>6. (Parked(d)' <=> Parked(d)) /\ (s \in Activation => ignored'[d] = ignored[d])
      BY <2>2, <3>3 DEF Parked, Overlooked, Activation, Rollback
    <3>7. s \in Rollback => ignored'[d] = ignored[d] \cup {s}
      BY <3>3 DEF Overlooked
    <3> QED
      BY <3>1, <3>2, <3>5, <3>6, <3>7, LoneEnd
  <2> QED
    BY <2>1, <2>2
<1> QED
  BY <1>1, <1>2 DEF Fail

LEMMA LoneStep ==
  ASSUME TypeOK, Solo, Lone, [Next]_vars
  PROVE  Lone'
<1>1. CASE UNCHANGED vars
  BY <1>1 DEF Lone, Shipped, Parked, Recoverable, Whole, Kept, Spoiled, NowLive, vars
<1>2. ASSUME NEW d \in Deployments, Begin(d) PROVE Lone'
  <2> SUFFICES ASSUME NEW e \in Deployments, alone'[e]
               PROVE  Shipped(e)' /\ (Whole(e)' => Recoverable(e)')
    BY DEF Lone
  <2>1. CASE e = d
    <3>1. stage'[d] = "keep_binary" /\ before'[d] = NowLive /\ UNCHANGED <<disk, running>>
      BY <1>2 DEF Begin, TypeOK, host
    <3>2. ignored'[d] = {}
      BY <1>2 DEF Begin, Solo
    <3>3. Shipped(d)'
      BY <3>1, <3>2 DEF Shipped, Parked, Shipping, NowLive
    <3>4. Recoverable(d)'
      BY <3>1, <3>2 DEF Recoverable, Kept, NowLive, BinarySnapped, DistSnapped, Activation
    <3> QED
      BY <2>1, <3>3, <3>4
  <2>2. CASE e # d
    <3>1. stage'[e] \notin Running
      BY <1>2, <2>2 DEF Begin, Active, TypeOK
    <3>2. Shipped(e) /\ before'[e] = before[e] /\ ignored'[e] = ignored[e]
      <4>1. alone[e]
        BY <1>2, <2>2, <3>1 DEF Begin, Active, TypeOK
      <4> QED
        BY <1>2, <2>2, <4>1 DEF Begin, Lone, TypeOK
    <3> QED
      BY <3>1, <3>2 DEF Shipped, Parked, Recoverable, BinarySnapped, DistSnapped, Running, Remote, Shipping, Activation, Rollback
  <2> QED
    BY <2>1, <2>2
<1>3. ASSUME NEW d \in Deployments, Acts(d) PROVE Lone'
  <2> SUFFICES ASSUME NEW e \in Deployments, alone'[e]
               PROVE  Shipped(e)' /\ (Whole(e)' => Recoverable(e)')
    BY DEF Lone
  <2>1. CASE e = d
    <3>1. /\ alone[d] /\ orphans = {} /\ stage[d] \in Running
          /\ \A f \in Deployments \ {d} : stage[f] \notin Running
      BY <1>3, <2>1, AloneStep
    <3>2. Shipped(d) /\ (Whole(d) => Recoverable(d))
      BY <3>1 DEF Lone
    <3> QED
      BY <1>3, <2>1, <3>1, <3>2, LoneShip, LoneActivate, LoneRollBack, LoneHealth, LoneFailure DEF Acts
  <2>2. CASE e # d
    <3>1. /\ stage'[e] = stage[e] /\ ignored'[e] = ignored[e] /\ before'[e] = before[e] /\ alone[e]
          /\ stage[d] \in Running \/ orphans # {}
      BY <1>3, <2>2, ActsStep
    <3>2. stage'[e] \notin Running
      BY <2>2, <3>1 DEF Solo
    <3>3. Shipped(e)
      BY <3>1 DEF Lone
    <3> QED
      BY <3>1, <3>2, <3>3 DEF Shipped, Parked, Recoverable, BinarySnapped, DistSnapped, Running, Remote, Shipping, Activation, Rollback
  <2> QED
    BY <2>1, <2>2
<1> QED
  BY <1>1, <1>2, <1>3 DEF Next, Acts

------------------------------------------------------------------------------
(***************************************************************************)
(* The live dist.                                                          *)
(***************************************************************************)
\* What Unbroken says, of one deployment that is the only one active.
Sound(d) ==
  /\ disk["dist"] = Partial => stage[d] = "remove_dist"
  /\ disk["dist.prev"] = Partial => disk["dist"] # None /\ stage[d] \notin DistSnapped

LEMMA SoundShip ==
  ASSUME TypeOK, NEW d \in Deployments, Ship(d), orphans = {}, Shipped(d), Sound(d), ~Spoiled(d)
  PROVE  Sound(d)'
<1> USE PathTypes, Attached DEF TypeOK, Exists, Put, MoveFile, MoveDir, Releases, Sound, DistSnapped, Activation
<1>1. CASE KeepBinary(d)
  BY <1>1 DEF KeepBinary
<1>2. CASE CopyBinary(d)
  BY <1>2 DEF CopyBinary
<1>3. CASE ShipBinary(d)
  BY <1>3 DEF ShipBinary
<1>4. CASE KeepDist(d)
  BY <1>4 DEF KeepDist, Shipped, Shipping
<1>5. CASE CopyDist(d)
  BY <1>5 DEF CopyDist, Shipped, Shipping, Parked, Spoiled
<1>6. CASE FillPrev(d)
  BY <1>6 DEF FillPrev, Shipped, Shipping, Parked
<1>7. CASE ClearNew(d)
  BY <1>7 DEF ClearNew
<1>8. CASE ShipDist(d)
  BY <1>8 DEF ShipDist
<1>9. CASE SendDist(d)
  BY <1>9 DEF SendDist
<1> QED
  BY <1>1, <1>2, <1>3, <1>4, <1>5, <1>6, <1>7, <1>8, <1>9 DEF Ship

LEMMA SoundActivate ==
  ASSUME TypeOK, NEW d \in Deployments, Activate(d), orphans = {}, Shipped(d), Sound(d), ~Spoiled(d)
  PROVE  Sound(d)'
<1> USE PathTypes, Attached DEF TypeOK, Exists, Put, MoveFile, MoveDir, Releases, Sound, DistSnapped, Activation
<1>1. CASE SwapBinary(d)
  BY <1>1 DEF SwapBinary
<1>2. CASE DropOld(d)
  BY <1>2 DEF DropOld
<1>3. CASE ParkDist(d)
  BY <1>3 DEF ParkDist
<1>4. CASE SwapDist(d)
  BY <1>4 DEF SwapDist, Shipped, Shipping, Parked
<1>5. CASE Restart(d)
  BY <1>5 DEF Restart
<1> QED
  BY <1>1, <1>2, <1>3, <1>4, <1>5 DEF Activate

LEMMA SoundRollBack ==
  ASSUME TypeOK, NEW d \in Deployments, RollBack(d), orphans = {}, Shipped(d), Sound(d), ~Spoiled(d)
  PROVE  Sound(d)'
<1> USE PathTypes, Attached DEF TypeOK, Exists, Put, MoveFile, MoveDir, Releases, Sound, DistSnapped, Activation
<1>1. CASE RestoreBinary(d)
  BY <1>1 DEF RestoreBinary
<1>2. CASE ClearDist(d)
  BY <1>2 DEF ClearDist
<1>3. CASE RemoveDist(d)
  BY <1>3 DEF RemoveDist
<1>4. CASE RestoreDist(d)
  BY <1>4 DEF RestoreDist, Shipped, Spoiled, Rollback
<1>5. CASE RestartPrevious(d)
  BY <1>5 DEF RestartPrevious
<1>6. CASE VerifyOk(d) \/ VerifyFails(d)
  BY <1>6 DEF VerifyOk, VerifyFails, host
<1> QED
  BY <1>1, <1>2, <1>3, <1>4, <1>5, <1>6 DEF RollBack

\* A failure that spoils nothing leaves the live dist and its snapshot alone, or
\* ends a deployment that was about to make the snapshot anew.
LEMMA SoundFailure ==
  ASSUME TypeOK, NEW d \in Deployments, Fail(d), orphans = {}, alone'[d], Sound(d), ~Spoiled(d)'
  PROVE  Sound(d)'
<1> USE DEF Rollback, Remote, Shipping, Activation
<1>1. CASE SessionLost(d) \/ Killed(d)
  <2>1. HalfDone(d, stage[d]) /\ ignored'[d] = ignored[d] \cup ({stage[d]} \cap Rollback)
    BY <1>1, PartMoves DEF TypeOK
  <2>2. stage[d] \notin Rollback
    BY <2>1 DEF Spoiled
  <2>3. stage'[d] = "aborted" \/ (stage[d] \in Activation /\ stage'[d] = "restore_binary")
    BY <1>1, <2>2 DEF SessionLost, Killed, Caught, TypeOK
  <2>4. disk'["dist"] = disk["dist"] /\ (stage[d] # "keep_dist" => disk'["dist.prev"] = disk["dist.prev"])
    BY <2>1, HalfPaths
  <2>5. CASE stage[d] = "keep_dist"
    <3>1. disk["dist"] # None \/ disk' = disk
      BY <2>1, <2>5 DEF HalfDone, Skipped, Exists
    <3>2. stage'[d] = "aborted"
      BY <2>3, <2>5
    <3> QED
      BY <2>4, <2>5, <3>1, <3>2 DEF Sound, DistSnapped
  <2>6. CASE stage[d] # "keep_dist"
    BY <2>2, <2>3, <2>4, <2>6 DEF Sound, DistSnapped
  <2> QED
    BY <2>5, <2>6
<1>2. ASSUME NEW s \in Remote, CommandFails(d, s)
      PROVE  Sound(d)'
  <2>1. stage[d] = s /\ stage' = [stage EXCEPT ![d] = AfterFailure(s)] /\ HalfDone(d, s)
    BY <1>2, Attached DEF CommandFails
  <2>2. ignored'[d] = ignored[d] \cup ({s} \cap Overlooked)
    BY <1>2 DEF CommandFails, TypeOK
  <2>3. s \notin {"keep_dist"} \cup Rollback
    BY <2>2 DEF Spoiled, Overlooked
  <2>4. disk'["dist"] = disk["dist"] /\ disk'["dist.prev"] = disk["dist.prev"]
    BY <2>1, <2>3, HalfPaths
  <2>5. \/ s \in Shipping /\ stage'[d] = "aborted"
        \/ s \in Activation /\ stage'[d] \in Activation \cup {"restore_binary"}
    BY <2>1, <2>3 DEF AfterFailure, Caught, TypeOK
  <2> QED
    BY <2>1, <2>3, <2>4, <2>5 DEF Sound, DistSnapped
<1> QED
  BY <1>1, <1>2 DEF Fail

LEMMA UnbrokenStep ==
  ASSUME TypeOK, Solo, Lone, Unbroken, [Next]_vars
  PROVE  Unbroken'
<1> SUFFICES ASSUME Calm'
             PROVE  /\ disk'["dist"] = Partial => \E d \in Deployments : stage'[d] = "remove_dist"
                    /\ disk'["dist.prev"] = Partial =>
                         disk'["dist"] # None /\ \A d \in Deployments : stage'[d] \notin DistSnapped
  BY DEF Unbroken
<1>0. Calm
  BY CalmBefore
<1>1. CASE UNCHANGED vars
  BY <1>0, <1>1 DEF Unbroken, vars
<1>2. ASSUME NEW d \in Deployments, Begin(d)
      PROVE  /\ disk'["dist"] = Partial => \E e \in Deployments : stage'[e] = "remove_dist"
             /\ disk'["dist.prev"] = Partial =>
                  disk'["dist"] # None /\ \A e \in Deployments : stage'[e] \notin DistSnapped
  <2>1. /\ disk' = disk /\ stage[d] = "queued" /\ stage'[d] = "keep_binary"
        /\ \A e \in Deployments \ {d} : stage'[e] = stage[e]
    BY <1>2 DEF Begin, TypeOK, host
  <2> QED
    BY <1>0, <2>1 DEF Unbroken, DistSnapped, Activation
<1>3. ASSUME NEW d \in Deployments, Acts(d)
      PROVE  /\ disk'["dist"] = Partial => \E e \in Deployments : stage'[e] = "remove_dist"
             /\ disk'["dist.prev"] = Partial =>
                  disk'["dist"] # None /\ \A e \in Deployments : stage'[e] \notin DistSnapped
  <2>1. alone'[d] /\ ~Spoiled(d) /\ ~Spoiled(d)'
    BY <1>0 DEF Calm
  <2>2. /\ alone[d] /\ orphans = {} /\ stage[d] \in Running
        /\ \A e \in Deployments \ {d} : stage[e] \notin Running /\ stage'[e] = stage[e]
    BY <1>3, <2>1, AloneStep, ActsStep
  <2>3. "remove_dist" \in Running /\ DistSnapped \subseteq Running
    BY DEF DistSnapped, Running, Remote, Shipping, Activation, Rollback
  <2>4. Shipped(d) /\ Sound(d)
    BY <1>0, <2>2, <2>3 DEF Lone, Unbroken, Sound
  <2>5. Sound(d)'
    <3>1. CASE Healthy(d) \/ Unhealthy(d)
      <4>1. disk' = disk /\ stage[d] = "health" /\ stage'[d] \in {"deployed", "restore_binary"}
        BY <3>1 DEF Healthy, Unhealthy, TypeOK, host
      <4> QED
        BY <2>4, <4>1 DEF Sound, DistSnapped
    <3>2. CASE Ship(d) \/ Activate(d) \/ RollBack(d)
      BY <2>1, <2>2, <2>4, <3>2, SoundShip, SoundActivate, SoundRollBack
    <3>3. CASE Fail(d)
      BY <2>1, <2>2, <2>4, <3>3, SoundFailure
    <3> QED
      BY <1>3, <3>1, <3>2, <3>3 DEF Acts
  <2> QED
    BY <2>2, <2>3, <2>5 DEF Sound
<1> QED
  BY <1>1, <1>2, <1>3 DEF Next, Acts

------------------------------------------------------------------------------
(***************************************************************************)
(* The theorems.                                                           *)
(***************************************************************************)
\* The inductive invariant.
THEOREM DeployInvariant == Spec => []IInv
<1>1. Init => IInv
  BY InitIInv
<1>2. IInv /\ [Next]_vars => IInv'
  BY TypeStep, SoloStep, LoneStep, UnbrokenStep DEF IInv
<1> QED
  BY <1>1, <1>2, PTL DEF Spec

\* A deployment that runs alone never loses the previous release, wherever it stops
\* and whatever fails, but for an rm -rf of dist.prev or dist.
THEOREM PreviousIsKept == Spec => []PreviousKept
<1>1. IInv => PreviousKept
  BY DEF IInv, Lone, Recoverable, Kept, PreviousKept
<1> QED
  BY <1>1, DeployInvariant, PTL

\* Shipping and activation never leave a half-written dist in the live path.
THEOREM DistIsWhole == Spec => []NeverHalfWritten
<1>1. IInv => NeverHalfWritten
  BY DEF IInv, Unbroken, Calm, NeverHalfWritten
<1> QED
  BY <1>1, DeployInvariant, PTL

\* Only VerifyOk reports ROLLBACK OK, and only Healthy reports success.
LEMMA Reports ==
  ASSUME TypeOK, [Next]_vars, NEW d \in Deployments, stage'[d] # stage[d]
  PROVE  /\ stage'[d] = "rolled_back" => VerifyOk(d)
         /\ stage'[d] = "deployed" => Healthy(d)
<1>1. ASSUME NEW e \in Deployments, Acts(e), e # d PROVE FALSE
  <2>1. \A f \in Deployments \ {e} : stage'[f] = stage[f]
    BY <1>1, ActsStep
  <2> QED
    BY <1>1, <2>1
<1> USE DEF TypeOK, Running, Remote, Shipping, Activation, Rollback
<1>2. CASE UNCHANGED vars
  BY <1>2 DEF vars
<1>3. ASSUME NEW e \in Deployments, Begin(e)
      PROVE  stage'[d] \notin {"rolled_back", "deployed"}
  BY <1>3 DEF Begin
<1>4. ASSUME NEW s, NEW next, At(d, s), Goto(d, s, next) PROVE stage'[d] = next
  BY <1>4 DEF At, Goto
<1>5. CASE Ship(d)
  BY <1>4, <1>5 DEF Ship, KeepBinary, CopyBinary, ShipBinary, KeepDist, CopyDist, FillPrev, ClearNew, ShipDist, SendDist
<1>6. CASE Activate(d)
  BY <1>4, <1>6 DEF Activate, SwapBinary, DropOld, ParkDist, SwapDist, Restart
<1>7. CASE RollBack(d)
  BY <1>4, <1>7 DEF RollBack, RestoreBinary, ClearDist, RemoveDist, RestoreDist, RestartPrevious, VerifyOk, VerifyFails
<1>8. CASE Healthy(d) \/ Unhealthy(d)
  BY <1>8 DEF Healthy, Unhealthy
<1>9. ASSUME NEW s \in Remote
      PROVE  Caught(s) \notin {"rolled_back", "deployed"} /\ AfterFailure(s) \notin {"rolled_back", "deployed"}
  BY DEF Caught, AfterFailure
<1>10. CASE Fail(d)
  <2>1. CASE SessionLost(d) \/ Killed(d)
    BY <1>9, <2>1 DEF SessionLost, Killed
  <2>2. CASE \E s \in Remote : CommandFails(d, s)
    BY <1>4, <1>9, <2>2 DEF CommandFails
  <2> QED
    BY <1>10, <2>1, <2>2 DEF Fail
<1> QED
  BY <1>1, <1>2, <1>3, <1>5, <1>6, <1>7, <1>8, <1>10 DEF Next, Acts

\* ROLLBACK OK means the previous release is live, unless a failure that spoils
\* the rollback was ignored.
THEOREM RollbackIsHonest == Spec => RollbackRestores
<1>1. ASSUME IInv, [Next]_vars, NEW d \in Deployments,
             stage[d] = "verify", stage'[d] = "rolled_back", alone[d], Whole(d), ~Spoiled(d)
      PROVE  NowLive' = [before[d] EXCEPT !.running = before[d].binary]
  <2>1. NowLive = [before[d] EXCEPT !.running = before[d].binary]
    BY <1>1 DEF IInv, Lone, Recoverable
  <2>2. UNCHANGED host
    BY <1>1, Reports DEF IInv, VerifyOk
  <2> QED
    BY <2>1, <2>2 DEF NowLive, host
<1>2. IInv /\ [Next]_vars =>
        [\A d \in Deployments :
           stage[d] = "verify" /\ stage'[d] = "rolled_back" /\ alone[d] /\ Whole(d) /\ ~Spoiled(d) =>
             NowLive' = [before[d] EXCEPT !.running = before[d].binary]]_vars
  BY <1>1
<1> QED
  BY <1>2, DeployInvariant, PTL DEF Spec, RollbackRestores

\* A lone deployment that reports success is what serves the site, but for the
\* dist that a failed mv left in place.
THEOREM SuccessIsHonest == Spec => SuccessIsLive
<1>1. ASSUME IInv, [Next]_vars, NEW d \in Deployments,
             stage[d] # "deployed", stage'[d] = "deployed", alone[d]
      PROVE  NowLive' = [binary |-> d, running |-> d,
                         dist |-> IF "park_dist" \in ignored[d] THEN before[d].dist ELSE d]
  <2>1. UNCHANGED host /\ stage[d] = "health"
    BY <1>1, Reports DEF IInv, Healthy
  <2> QED
    BY <1>1, <2>1 DEF IInv, Lone, Shipped, Parked, NowLive, host
<1>2. IInv /\ [Next]_vars =>
        [\A d \in Deployments :
           stage[d] # "deployed" /\ stage'[d] = "deployed" /\ alone[d] =>
             NowLive' = [binary |-> d, running |-> d,
                         dist |-> IF "park_dist" \in ignored[d] THEN before[d].dist ELSE d]]_vars
  BY <1>1
<1> QED
  BY <1>2, DeployInvariant, PTL DEF Spec, SuccessIsLive
==============================================================================
