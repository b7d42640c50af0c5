-------------------------------- MODULE Deploy --------------------------------
(***************************************************************************)
(* service/deploy/deploy.sh: snapshot the live binary and web dist, ship   *)
(* the new ones beside them, move them into place, restart the unit, ask   *)
(* /healthz, and roll back when activation or the health check fails.      *)
(*                                                                         *)
(* The script stops at a command that fails (set -e), but the shells it    *)
(* starts on the host do not: after a `;` they go on whatever the command  *)
(* before it did, and what their last command says is what counts.         *)
(*                                                                         *)
(* The paths of the host are shared and nothing locks them: deployments    *)
(* may follow one another or overlap.  A command may fail, an ssh session  *)
(* may be lost, the script may be killed; a remote shell has no terminal   *)
(* that ends it, and may go on after its session or its script is gone.    *)
(* A rename is one step; a copy, an rsync of a directory and the rm -rf of *)
(* the live dist take two, with a partial file or directory in between.    *)
(***************************************************************************)
EXTENDS Naturals

CONSTANTS
  Deployments, \* runs of the script; each ships the release it is named after
  First,       \* the release installed by hand before them
  None,        \* no such file, no process
  Partial,     \* a file or directory half written or half removed
  MaxFaults    \* bound of the run: failed commands, lost sessions, killed scripts,
               \* and deployments started while another runs

Releases == Deployments \cup {First}

ASSUME DeployAssumption ==
  /\ First \notin Deployments
  /\ None \notin Releases /\ Partial \notin Releases /\ None # Partial

ASSUME BoundAssumption == MaxFaults \in Nat

Paths == {"binary", "binary.new", "binary.prev", "dist", "dist.new", "dist.old", "dist.prev"}
Contents == Releases \cup {None, Partial}

\* What serves the site: the binary on disk, the web dist, the running process.
Live == [binary : Contents, dist : Contents, running : Releases \cup {None}]

VARIABLES
  disk,     \* what is at each path of the host
  running,  \* the release of the process of the unit
  stage,    \* where each deployment is
  orphans,  \* commands that run on without their script, and where they are
  restored, \* the shell variable of the rollback
  faults,   \* faults so far
  before,   \* history: what was live when the deployment started
  alone,    \* history: nothing has run beside it, no other deployment and no orphan
  ignored   \* history: its commands whose failure nothing stopped for, and those at
            \* which its rollback was broken off

host == <<disk, running>>
history == <<before, alone, ignored>>
vars == <<disk, running, stage, orphans, restored, faults, before, alone, ignored>>

Shipping == {"keep_binary", "copy_binary", "ship_binary", "keep_dist", "copy_dist", "fill_prev",
             "clear_new", "ship_dist", "send_dist"}
Activation == {"swap_binary", "drop_old", "park_dist", "swap_dist", "restart"}
Rollback == {"restore_binary", "clear_dist", "remove_dist", "restore_dist", "restart_previous"}
Remote == Shipping \cup Activation \cup Rollback
Running == Remote \cup {"health", "verify"}
Ended == {"deployed", "rolled_back", "rollback_failed", "aborted"}

\* The ssh and rsync calls of the script; Uploads are rsync's, the others a shell.
Uploads == {"ship_binary", "ship_dist", "send_dist"}
Calls == {{"keep_binary", "copy_binary"}, {"ship_binary"}, {"keep_dist", "copy_dist", "fill_prev"},
          {"clear_new"}, {"ship_dist", "send_dist"}, Activation, Rollback}

\* Commands of the remote shells that are followed by a `;`, and the rollback,
\* all of it followed by `|| true`.
Overlooked == {"keep_dist", "drop_old", "park_dist"} \cup Rollback

Active == {d \in Deployments : stage[d] \in Running}

NowLive == [binary |-> disk["binary"], dist |-> disk["dist"], running |-> running]

Init ==
  /\ \E r \in {None, First} :
       /\ disk = [p \in Paths |-> IF p \in {"binary", "dist"} THEN r ELSE None]
       /\ running = r
  /\ stage = [d \in Deployments |-> "queued"]
  /\ orphans = {}
  /\ restored = [d \in Deployments |-> FALSE]
  /\ faults = 0
  /\ before = [d \in Deployments |-> [binary |-> None, dist |-> None, running |-> None]]
  /\ alone = [d \in Deployments |-> TRUE]
  /\ ignored = [d \in Deployments |-> {}]

\* The command s of d is next: in the call its script waits for, or in an orphan.
At(d, s) == stage[d] = s \/ <<d, s>> \in orphans

\* Past s, the script is at next; an orphan goes no further than its call.
Goto(d, s, next) ==
  IF <<d, s>> \in orphans
    THEN /\ orphans' = (orphans \ {<<d, s>>}) \cup
                         (IF \E call \in Calls : {s, next} \subseteq call THEN {<<d, next>>} ELSE {})
         /\ UNCHANGED stage
    ELSE stage' = [stage EXCEPT ![d] = next] /\ UNCHANGED orphans

Exists(p) == disk[p] # None
Put(p, content) == disk' = [disk EXCEPT ![p] = content]

\* mv of a file replaces the target; mv of a directory puts it inside a target
\* that exists, whose own files stay what they were.
MoveFile(from, to) == disk' = [disk EXCEPT ![to] = disk[from], ![from] = None]
MoveDir(from, to) == disk' = [disk EXCEPT ![to] = IF Exists(to) THEN @ ELSE disk[from], ![from] = None]

------------------------------------------------------------------------------
(***************************************************************************)
(* Shipping.                                                               *)
(***************************************************************************)
Fault == faults < MaxFaults /\ faults' = faults + 1

\* The build, on the operator's machine.  Nothing keeps a second one waiting.
Begin(d) ==
  /\ stage[d] = "queued"
  /\ IF Active = {} THEN UNCHANGED faults ELSE Fault
  /\ stage' = [stage EXCEPT ![d] = "keep_binary"]
  /\ before' = [before EXCEPT ![d] = NowLive]
  /\ alone' = [e \in Deployments |->
                 IF e \in Active \cup {d} THEN Active = {} /\ orphans = {} ELSE alone[e]]
  /\ UNCHANGED <<host, orphans, restored, ignored>>

\* Mutant: a snapshot that is there already is kept.
MutantKeepBinary(d) ==
  /\ At(d, "keep_binary")
  /\ IF Exists("binary") /\ ~Exists("binary.prev")
       THEN Put("binary.prev", Partial) /\ Goto(d, "keep_binary", "copy_binary")
       ELSE UNCHANGED disk /\ Goto(d, "keep_binary", "ship_binary")
  /\ UNCHANGED <<running, restored, faults, history>>

KeepBinary(d) ==
  /\ At(d, "keep_binary")
  /\ IF Exists("binary")
       THEN Put("binary.prev", Partial) /\ Goto(d, "keep_binary", "copy_binary")
       ELSE UNCHANGED disk /\ Goto(d, "keep_binary", "ship_binary")
  /\ UNCHANGED <<running, restored, faults, history>>

CopyBinary(d) ==
  /\ At(d, "copy_binary") /\ Goto(d, "copy_binary", "ship_binary")
  /\ Put("binary.prev", disk["binary"])
  /\ UNCHANGED <<running, restored, faults, history>>

\* rsync renames the file into place once it is complete.
ShipBinary(d) ==
  /\ At(d, "ship_binary") /\ Goto(d, "ship_binary", "keep_dist")
  /\ Put("binary.new", d)
  /\ UNCHANGED <<running, restored, faults, history>>

\* Mutant: a snapshot that is there already is kept.
MutantKeepDist(d) ==
  /\ At(d, "keep_dist")
  /\ IF Exists("dist") /\ ~Exists("dist.prev")
       THEN Put("dist.prev", None) /\ Goto(d, "keep_dist", "copy_dist")
       ELSE UNCHANGED disk /\ Goto(d, "keep_dist", "clear_new")
  /\ UNCHANGED <<running, restored, faults, history>>

\* rm -rf dist.prev; without a dist, a dist.prev stays.
KeepDist(d) ==
  /\ At(d, "keep_dist")
  /\ IF Exists("dist")
       THEN Put("dist.prev", None) /\ Goto(d, "keep_dist", "copy_dist")
       ELSE UNCHANGED disk /\ Goto(d, "keep_dist", "clear_new")
  /\ UNCHANGED <<running, restored, faults, history>>

\* The copy begins; into a dist.prev still there it goes as one more directory,
\* and the shell is content.
CopyDist(d) ==
  /\ At(d, "copy_dist") /\ Exists("dist")
  /\ IF Exists("dist.prev")
       THEN UNCHANGED disk /\ Goto(d, "copy_dist", "clear_new")
       ELSE Put("dist.prev", Partial) /\ Goto(d, "copy_dist", "fill_prev")
  /\ UNCHANGED <<running, restored, faults, history>>

FillPrev(d) ==
  /\ At(d, "fill_prev") /\ Exists("dist") /\ Goto(d, "fill_prev", "clear_new")
  /\ Put("dist.prev", disk["dist"])
  /\ UNCHANGED <<running, restored, faults, history>>

ClearNew(d) ==
  /\ At(d, "clear_new") /\ Goto(d, "clear_new", "ship_dist")
  /\ Put("dist.new", None)
  /\ UNCHANGED <<running, restored, faults, history>>

ShipDist(d) ==
  /\ At(d, "ship_dist") /\ Goto(d, "ship_dist", "send_dist")
  /\ Put("dist.new", Partial)
  /\ UNCHANGED <<running, restored, faults, history>>

\* Another deployment still sending leaves a mixture.
SendDist(d) ==
  /\ At(d, "send_dist") /\ Goto(d, "send_dist", "swap_binary")
  /\ Put("dist.new", IF \E e \in Deployments \ {d} : At(e, "send_dist") THEN Partial ELSE d)
  /\ UNCHANGED <<running, restored, faults, history>>

------------------------------------------------------------------------------
(***************************************************************************)
(* Activation and health check.                                            *)
(***************************************************************************)
SwapBinary(d) ==
  /\ At(d, "swap_binary") /\ Exists("binary.new") /\ Goto(d, "swap_binary", "drop_old")
  /\ MoveFile("binary.new", "binary")
  /\ UNCHANGED <<running, restored, faults, history>>

DropOld(d) ==
  /\ At(d, "drop_old") /\ Goto(d, "drop_old", "park_dist")
  /\ Put("dist.old", None)
  /\ UNCHANGED <<running, restored, faults, history>>

\* Mutant: the live dist is not moved away first.
MutantParkDist(d) ==
  /\ At(d, "park_dist") /\ Goto(d, "park_dist", "swap_dist")
  /\ UNCHANGED <<disk, running, restored, faults, history>>

ParkDist(d) ==
  /\ At(d, "park_dist") /\ Goto(d, "park_dist", "swap_dist")
  /\ MoveDir("dist", "dist.old")
  /\ UNCHANGED <<running, restored, faults, history>>

SwapDist(d) ==
  /\ At(d, "swap_dist") /\ Exists("dist.new") /\ Goto(d, "swap_dist", "restart")
  /\ MoveDir("dist.new", "dist")
  /\ UNCHANGED <<running, restored, faults, history>>

\* Mutant: a half-written binary starts.
MutantStarted == disk["binary"]

\* A missing or half-written binary does not start.
Started == IF disk["binary"] \in Releases THEN disk["binary"] ELSE None

Restart(d) ==
  /\ At(d, "restart") /\ Goto(d, "restart", "health")
  /\ running' = Started
  /\ UNCHANGED <<disk, restored, faults, history>>

\* Ten attempts at /healthz: nothing answers without a process, and a process
\* may fail to answer in time.
Answers == running # None

Healthy(d) ==
  /\ stage[d] = "health" /\ Answers
  /\ stage' = [stage EXCEPT ![d] = "deployed"]
  /\ UNCHANGED <<host, orphans, restored, faults, history>>

Unhealthy(d) ==
  /\ stage[d] = "health"
  /\ stage' = [stage EXCEPT ![d] = "restore_binary"]
  /\ UNCHANGED <<host, orphans, restored, faults, history>>

------------------------------------------------------------------------------
(***************************************************************************)
(* Rollback.                                                               *)
(***************************************************************************)
RestoreBinary(d) ==
  /\ At(d, "restore_binary") /\ Goto(d, "restore_binary", "clear_dist")
  /\ IF Exists("binary.prev")
       THEN MoveFile("binary.prev", "binary") /\ restored' = [restored EXCEPT ![d] = TRUE]
       ELSE UNCHANGED <<disk, restored>>
  /\ UNCHANGED <<running, faults, history>>

\* rm -rf of the live dist begins.
ClearDist(d) ==
  /\ At(d, "clear_dist")
  /\ IF Exists("dist.prev")
       THEN Put("dist", IF Exists("dist") THEN Partial ELSE None) /\ Goto(d, "clear_dist", "remove_dist")
       ELSE UNCHANGED disk /\ Goto(d, "clear_dist", "restart_previous")
  /\ UNCHANGED <<running, restored, faults, history>>

RemoveDist(d) ==
  /\ At(d, "remove_dist") /\ Goto(d, "remove_dist", "restore_dist")
  /\ Put("dist", None)
  /\ UNCHANGED <<running, restored, faults, history>>

RestoreDist(d) ==
  /\ At(d, "restore_dist") /\ Exists("dist.prev") /\ Goto(d, "restore_dist", "restart_previous")
  /\ MoveDir("dist.prev", "dist") /\ restored' = [restored EXCEPT ![d] = TRUE]
  /\ UNCHANGED <<running, faults, history>>

RestartPrevious(d) ==
  /\ At(d, "restart_previous") /\ Goto(d, "restart_previous", "verify")
  /\ running' = IF restored[d] THEN Started ELSE running
  /\ UNCHANGED <<disk, restored, faults, history>>

VerifyOk(d) ==
  /\ stage[d] = "verify" /\ Answers
  /\ stage' = [stage EXCEPT ![d] = "rolled_back"]
  /\ UNCHANGED <<host, orphans, restored, faults, history>>

VerifyFails(d) ==
  /\ stage[d] = "verify"
  /\ stage' = [stage EXCEPT ![d] = "rollback_failed"]
  /\ UNCHANGED <<host, orphans, restored, faults, history>>

------------------------------------------------------------------------------
(***************************************************************************)
(* Failures.                                                               *)
(***************************************************************************)
\* Mutant: shipping goes on when the rsync of the dist fails.
MutantCaught(s) ==
  CASE s \in Shipping -> IF s = "send_dist" THEN "swap_binary" ELSE "aborted"
    [] s \in Activation -> "restore_binary"
    [] s \in Rollback -> "verify"

\* What the script does about a call that fails: set -e, `if !`, `|| true`.
Caught(s) ==
  CASE s \in Shipping -> "aborted"
    [] s \in Activation -> "restore_binary"
    [] s \in Rollback -> "verify"

\* Where it goes on when this command of a call fails: after a `;`, at the next
\* command; otherwise the call fails.
AfterFailure(s) ==
  CASE s = "keep_dist" -> "copy_dist"
    [] s = "drop_old" -> "park_dist"
    [] s = "park_dist" -> "swap_dist"
    [] s = "restore_binary" -> "clear_dist"
    [] s \in {"clear_dist", "remove_dist"} -> "restore_dist"
    [] s = "restore_dist" -> "restart_previous"
    [] OTHER -> Caught(s)

\* A command whose source is gone: another deployment has moved it away.
SourceGone(s) ==
  \/ s \in {"copy_dist", "fill_prev"} /\ ~Exists("dist")
  \/ s = "swap_binary" /\ ~Exists("binary.new")
  \/ s = "swap_dist" /\ ~Exists("dist.new")
  \/ s = "restore_dist" /\ ~Exists("dist.prev")

\* No command to fail: its `if` is false, or there is nothing to remove.
Skipped(d, s) ==
  \/ s = "keep_binary" /\ ~Exists("binary")
  \/ s \in {"keep_dist", "park_dist", "clear_dist", "remove_dist"} /\ ~Exists("dist")
  \/ s \in {"keep_dist", "clear_dist"} /\ ~Exists("dist.prev")
  \/ s = "clear_new" /\ ~Exists("dist.new")
  \/ s = "drop_old" /\ ~Exists("dist.old")
  \/ s = "restore_binary" /\ ~Exists("binary.prev")
  \/ s = "restart_previous" /\ ~restored[d]

\* What a command that fails or is broken off has done: nothing, or half of an
\* rm -rf; a restart has stopped the unit, or started it after all.
HalfDone(d, s) ==
  /\ \/ UNCHANGED disk
     \/ /\ ~Skipped(d, s)
        /\ \/ s = "keep_dist" /\ Put("dist.prev", Partial)
           \/ s = "clear_new" /\ Put("dist.new", Partial)
           \/ s = "drop_old" /\ Put("dist.old", Partial)
  /\ \/ UNCHANGED running
     \/ s \in {"restart", "restart_previous"} /\ ~Skipped(d, s) /\ running' \in {None, Started}

\* restored=1 follows its mv after a `;`, too.
CommandFails(d, s) ==
  /\ At(d, s) /\ ~Skipped(d, s)
  /\ IF SourceGone(s) THEN UNCHANGED faults ELSE Fault
  /\ Goto(d, s, AfterFailure(s)) /\ HalfDone(d, s)
  /\ restored' = [restored EXCEPT ![d] = @ \/ s \in {"restore_binary", "restore_dist"}]
  /\ ignored' = [ignored EXCEPT ![d] = @ \cup ({s} \cap Overlooked)]
  /\ UNCHANGED <<before, alone>>

\* The script and its call part: the call goes on as an orphan, or is broken off.
Parted(d, mayGoOn) ==
  /\ \/ /\ stage[d] \in mayGoOn
        /\ orphans' = orphans \cup {<<d, stage[d]>>}
        /\ alone' = [alone EXCEPT ![d] = FALSE]
        /\ UNCHANGED host
     \/ HalfDone(d, stage[d]) /\ UNCHANGED <<orphans, alone>>
  /\ ignored' = [ignored EXCEPT ![d] = @ \cup ({stage[d]} \cap Rollback)]
  /\ UNCHANGED <<restored, before>>

\* The session is lost, or never opened; an rsync ends with it.
SessionLost(d) ==
  /\ stage[d] \in Remote /\ Fault
  /\ stage' = [stage EXCEPT ![d] = Caught(stage[d])]
  /\ Parted(d, Remote \ Uploads)

Killed(d) ==
  /\ stage[d] \in Running /\ Fault
  /\ stage' = [stage EXCEPT ![d] = "aborted"]
  /\ Parted(d, Remote)

------------------------------------------------------------------------------
Ship(d) ==
  \/ KeepBinary(d) \/ CopyBinary(d) \/ ShipBinary(d) \/ KeepDist(d) \/ CopyDist(d) \/ FillPrev(d)
  \/ ClearNew(d) \/ ShipDist(d) \/ SendDist(d)

Activate(d) == SwapBinary(d) \/ DropOld(d) \/ ParkDist(d) \/ SwapDist(d) \/ Restart(d)

RollBack(d) ==
  \/ RestoreBinary(d) \/ ClearDist(d) \/ RemoveDist(d) \/ RestoreDist(d) \/ RestartPrevious(d)
  \/ VerifyOk(d) \/ VerifyFails(d)

Fail(d) == (\E s \in Remote : CommandFails(d, s)) \/ SessionLost(d) \/ Killed(d)

Next ==
  \E d \in Deployments :
    Begin(d) \/ Ship(d) \/ Activate(d) \/ Healthy(d) \/ Unhealthy(d) \/ RollBack(d) \/ Fail(d)

Spec == Init /\ [][Next]_vars

------------------------------------------------------------------------------
(***************************************************************************)
(* Properties.                                                             *)
(***************************************************************************)
\* Every variable holds values the host and the scripts could give it; the
\* unit never runs a half-written binary.
TypeOK ==
  /\ disk \in [Paths -> Contents]
  /\ running \in Releases \cup {None}
  /\ stage \in [Deployments -> Running \cup Ended \cup {"queued"}]
  /\ orphans \subseteq Deployments \X Remote
  /\ restored \in [Deployments -> BOOLEAN]
  /\ faults \in 0 .. MaxFaults
  /\ before \in [Deployments -> Live]
  /\ alone \in [Deployments -> BOOLEAN]
  /\ ignored \in [Deployments -> SUBSET Overlooked]

\* The site the deployment started from: one the rollback can bring back.
Whole(d) == before[d].binary \in Releases /\ before[d].dist \in Releases

\* The failures after which the snapshot or its restoration cannot be trusted.
Spoiled(d) == ignored[d] \cap ({"keep_dist"} \cup Rollback) # {}

\* ROLLBACK OK means what it says, "service healthy on previous release": binary,
\* web dist and process are those that were live before, for a deployment that
\* ran alone on a whole site, wherever the activation stopped and whatever
\* earlier deployments left behind.  Only a failure that the remote shell or the
\* `|| true` ignored makes it untrue: of a command of the rollback, or of the
\* rm -rf dist.prev before the snapshot.
RollbackRestores ==
  [][\A d \in Deployments :
       stage[d] = "verify" /\ stage'[d] = "rolled_back" /\ alone[d] /\ Whole(d) /\ ~Spoiled(d) =>
         NowLive' = [before[d] EXCEPT !.running = before[d].binary]]_vars

\* A deployment that reports success and ran alone is live, all of it, whatever
\* earlier deployments left in the .new, .old and .prev paths and whichever of
\* its commands failed unnoticed, but for one: when `mv dist dist.old` failed,
\* success is reported with the previous dist still in place.
SuccessIsLive ==
  [][\A d \in Deployments :
       stage[d] # "deployed" /\ stage'[d] = "deployed" /\ alone[d] =>
         NowLive' = [binary |-> d, running |-> d,
                     dist |-> IF "park_dist" \in ignored[d] THEN before[d].dist ELSE d]]_vars

\* At every moment of a deployment that runs alone on a whole site, and so wherever
\* a failure or a kill stops it, the previous binary is on the host, complete;
\* and so is the previous web dist, live or as the snapshot, unless an rm -rf of
\* either has failed, after which mv and cp nest one directory in another.
PreviousKept ==
  \A d \in Deployments : stage[d] \in Running /\ alone[d] /\ Whole(d) =>
    /\ before[d].binary \in {disk["binary"], disk["binary.prev"]}
    /\ ignored[d] \cap {"keep_dist", "clear_dist", "remove_dist"} = {} =>
         before[d].dist \in {disk["dist"], disk["dist.prev"]}

\* "The live dist path is never half-written" (delta 13): with deployments one at
\* a time, only a rollback that is removing the dist, one that went wrong, or one
\* whose snapshot was spoiled, leaves a partial dist there; shipping and
\* activation never do, whichever of their commands fails.
NeverHalfWritten ==
  disk["dist"] = Partial =>
    \E d \in Deployments : ~alone[d] \/ Spoiled(d) \/ stage[d] = "remove_dist"
==============================================================================
