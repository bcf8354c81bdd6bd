------------------------------ MODULE ImageDeploy ------------------------------
(***************************************************************************)
(* hetzner/provision/branchleft_deploy.py: pin one Compose stack to an     *)
(* image digest and restart it, and roll the pin back when the restart     *)
(* fails and the image is to blame.                                        *)
(*                                                                         *)
(* Each process p of Deployer is one execution of the program.  They meet  *)
(* at the stack's lock file, its pin file <stack>.image.env, and the       *)
(* systemd unit branchleft-compose@<stack>, which has a life of its own:   *)
(* it starts when the host boots and retries a start that has failed.      *)
(***************************************************************************)
EXTENDS Naturals

CONSTANTS
  Deployer,     \* executions of the program that may overlap
  Image,        \* digests
  None,         \* no digest, no process
  Burst,        \* StartLimitBurst: starts in one StartLimitIntervalSec
  MaxKills      \* bound: kills of a deployer, and reboots

ASSUME NoneAssumption == None \notin Image \cup Deployer
ASSUME CountAssumption == Burst \in Nat \ {0} /\ MaxKills \in Nat

VARIABLES
  pc,           \* where each process is; "idle" before a deploy and after it
  asked,        \* the image it deploys
  previous,     \* the pin it found
  result,       \* what it is going to report
  lock,         \* who holds the flock
  pin,          \* the image in the pin file, None when there is no file
  unit,         \* the state of the unit, and the image its last `up` read
  starts,       \* starts of the unit in the current interval
  container,    \* the container of the pinned service: its image, and whether up
  kills,        \* how many kills and reboots there have been
  lastWorked    \* history: the image of the last start that succeeded

deployer == <<pc, asked, previous, result>>
service == <<unit, starts, container, lastWorked>>
vars == <<deployer, lock, pin, service, kills>>

Held == {"read", "write", "restart", "restarting", "unpin", "judge", "rollback",
         "restart again", "restarting again", "release"}
Label == {"idle", "wait", "refused"} \cup Held
Result == {"none", "refused", "deployed", "no fallback", "left", "unknown",
           "rolled back", "both failed", "error"}
UnitState == {"inactive", "pulling", "starting", "active", "failed", "limited"}

Init ==
  /\ pc = [p \in Deployer |-> "idle"]
  /\ asked = [p \in Deployer |-> None]
  /\ previous = [p \in Deployer |-> None]
  /\ result = [p \in Deployer |-> "none"]
  /\ lock = None
  /\ pin = None
  /\ unit = [state |-> "inactive", image |-> None]
  /\ starts = 0
  /\ container = [image |-> None, up |-> FALSE]
  /\ kills = 0
  /\ lastWorked = None

Goto(p, l) == pc' = [pc EXCEPT ![p] = l]
Conclude(p, r, l) == result' = [result EXCEPT ![p] = r] /\ Goto(p, l)
-----------------------------------------------------------------------------
(* The unit: branchleft-compose@.service.                                    *)

(* A start: refused by AssertPathExists without a pin file, and by the start *)
(* limit when too many have been made; else `docker compose pull` begins.    *)
MutBeginStart ==
  IF pin = None THEN unit' = [unit EXCEPT !.state = "inactive"] /\ UNCHANGED starts
  ELSE unit' = [unit EXCEPT !.state = "pulling"] /\ starts' = starts + 1

BeginStart ==
  IF pin = None THEN unit' = [unit EXCEPT !.state = "inactive"] /\ UNCHANGED starts
  ELSE IF starts = Burst THEN unit' = [unit EXCEPT !.state = "limited"] /\ UNCHANGED starts
  ELSE unit' = [unit EXCEPT !.state = "pulling"] /\ starts' = starts + 1

(* The pin file is read again for each command of the unit: what `up` runs   *)
(* on is what it holds when the pull is over.                                *)
PullEnds ==
  /\ unit.state = "pulling"
  /\ pin # None
  /\ unit' = [state |-> "starting", image |-> pin]
  /\ UNCHANGED <<deployer, lock, pin, starts, container, kills, lastWorked>>

PullFails ==
  /\ unit.state = "pulling"
  /\ unit' = [unit EXCEPT !.state = "failed"]
  /\ UNCHANGED <<deployer, lock, pin, starts, container, kills, lastWorked>>

(* `up --wait`: every service is healthy in time ...                         *)
UpSucceeds ==
  /\ unit.state = "starting"
  /\ unit' = [unit EXCEPT !.state = "active"]
  /\ container' = [image |-> unit.image, up |-> TRUE]
  /\ lastWorked' = unit.image
  /\ UNCHANGED <<deployer, lock, pin, starts, kills>>

(* ... or not: the container was not replaced, or does not come up, or it    *)
(* does and another service is to blame.                                     *)
UpFails ==
  /\ unit.state = "starting"
  /\ unit' = [unit EXCEPT !.state = "failed"]
  /\ \/ UNCHANGED container
     \/ \E up \in BOOLEAN : container' = [image |-> unit.image, up |-> up]
  /\ UNCHANGED <<deployer, lock, pin, starts, kills, lastWorked>>

(* RestartSec after a failure.  Who waited for the failed start has its      *)
(* status at once, and removes a pin without a fallback well before that.    *)
Retry ==
  /\ unit.state = "failed"
  /\ \A p \in Deployer : pc[p] \notin {"restarting", "restarting again", "unpin"}
  /\ BeginStart
  /\ UNCHANGED <<deployer, lock, pin, container, kills, lastWorked>>

(* StartLimitIntervalSec passes. *)
IntervalPasses ==
  /\ starts # 0
  /\ starts' = 0
  /\ UNCHANGED <<deployer, lock, pin, unit, container, kills, lastWorked>>

(* A container fails or recovers by itself. *)
ContainerFlaps ==
  /\ container.image # None
  /\ container' = [container EXCEPT !.up = ~@]
  /\ UNCHANGED <<deployer, lock, pin, unit, starts, kills, lastWorked>>
-----------------------------------------------------------------------------
(* One deploy.                                                               *)

(* A request for image i, whose names, Compose file and health signals have  *)
(* been found good; one that is refused for them changes nothing.            *)
Ask(p, i) ==
  /\ pc[p] = "idle"
  /\ asked' = [asked EXCEPT ![p] = i]
  /\ Goto(p, "wait")
  /\ UNCHANGED <<previous, result, lock, pin, service, kills>>

MutLockFree == TRUE
LockFree == lock = None

Acquire(p) ==
  /\ pc[p] = "wait"
  /\ LockFree
  /\ lock' = p
  /\ Goto(p, "read")
  /\ UNCHANGED <<asked, previous, result, pin, service, kills>>

(* An attempt fails after the deadline. *)
MutWaitTimesOut(p) == FALSE
WaitTimesOut(p) ==
  /\ pc[p] = "wait"
  /\ ~LockFree
  /\ Conclude(p, "refused", "refused")
  /\ UNCHANGED <<asked, previous, lock, pin, service, kills>>

ReadCurrentImage(p) ==
  /\ pc[p] = "read"
  /\ previous' = [previous EXCEPT ![p] = pin]
  /\ Goto(p, "write")
  /\ UNCHANGED <<asked, result, lock, pin, service, kills>>

(* The rename of write_image_env. *)
WriteImageEnv(p) ==
  /\ pc[p] = "write"
  /\ pin' = asked[p]
  /\ Goto(p, "restart")
  /\ UNCHANGED <<asked, previous, result, lock, service, kills>>

(* The file cannot be written: an exception no handler catches. *)
WriteFails(p) ==
  /\ pc[p] \in {"write", "rollback"}
  /\ Conclude(p, "error", "release")
  /\ UNCHANGED <<asked, previous, lock, pin, service, kills>>

(* systemctl restart: a start that is under way is cut off. *)
Restart(p) ==
  /\ pc[p] = "restart"
  /\ BeginStart
  /\ Goto(p, "restarting")
  /\ UNCHANGED <<asked, previous, result, lock, pin, container, lastWorked, kills>>

StartOver == unit.state \notin {"pulling", "starting"}

Deployed(p) ==
  /\ pc[p] = "restarting"
  /\ unit.state = "active"
  /\ Conclude(p, "deployed", "release")
  /\ UNCHANGED <<asked, previous, lock, pin, service, kills>>

(* What a failed restart leads to: without a previous pin there is nothing   *)
(* to go back to.                                                            *)
AfterFailure(p) == IF previous[p] = None THEN "unpin" ELSE "judge"

RestartFails(p) ==
  /\ pc[p] = "restarting"
  /\ StartOver /\ unit.state # "active"
  /\ Goto(p, AfterFailure(p))
  /\ UNCHANGED <<asked, previous, result, lock, pin, service, kills>>

RemovePin(p) ==
  /\ pc[p] = "unpin"
  /\ pin' = None
  /\ Conclude(p, "no fallback", "release")
  /\ UNCHANGED <<asked, previous, lock, service, kills>>

(* pinned_image_is_up: a container of the image, and none of them is down.   *)
PinnedImageIsUp(p) == container.image = asked[p] /\ container.up

(* It is up, or `docker ps` fails, or there is no docker: the pin stays.      *)
LeavePin(p) ==
  /\ pc[p] = "judge"
  /\ \/ PinnedImageIsUp(p) /\ Conclude(p, "left", "release")
     \/ \E r \in {"unknown", "error"} : Conclude(p, r, "release")
  /\ UNCHANGED <<asked, previous, lock, pin, service, kills>>

JudgeDown(p) ==
  /\ pc[p] = "judge"
  /\ ~PinnedImageIsUp(p)
  /\ Goto(p, "rollback")
  /\ UNCHANGED <<asked, previous, result, lock, pin, service, kills>>

MutWritePrevious(p) ==
  /\ pc[p] = "rollback"
  /\ pin' = previous[p]
  /\ Conclude(p, "left", "release")
  /\ UNCHANGED <<asked, previous, lock, service, kills>>

WritePrevious(p) ==
  /\ pc[p] = "rollback"
  /\ pin' = previous[p]
  /\ Goto(p, "restart again")
  /\ UNCHANGED <<asked, previous, result, lock, service, kills>>

RestartAgain(p) ==
  /\ pc[p] = "restart again"
  /\ BeginStart
  /\ Goto(p, "restarting again")
  /\ UNCHANGED <<asked, previous, result, lock, pin, container, lastWorked, kills>>

(* The outcome of the rollback's own restart decides what is reported.       *)
MutRolledBack(p) ==
  /\ pc[p] = "restarting again"
  /\ StartOver
  /\ Conclude(p, "rolled back", "release")
  /\ UNCHANGED <<asked, previous, lock, pin, service, kills>>

RolledBack(p) ==
  /\ pc[p] = "restarting again"
  /\ StartOver
  /\ Conclude(p, IF unit.state = "active" THEN "rolled back" ELSE "both failed", "release")
  /\ UNCHANGED <<asked, previous, lock, pin, service, kills>>

Forget(p) ==
  /\ Goto(p, "idle")
  /\ asked' = [asked EXCEPT ![p] = None]
  /\ previous' = [previous EXCEPT ![p] = None]
  /\ result' = [result EXCEPT ![p] = "none"]

(* The lock is given back and the result reported. *)
Release(p) ==
  /\ pc[p] \in {"release", "refused"}
  /\ lock' = IF pc[p] = "release" THEN None ELSE lock
  /\ Forget(p)
  /\ UNCHANGED <<pin, service, kills>>

(* KILL: the kernel drops the lock; a start that was asked for goes on. *)
Kill(p) ==
  /\ pc[p] # "idle"
  /\ kills < MaxKills
  /\ kills' = kills + 1
  /\ lock' = IF lock = p THEN None ELSE lock
  /\ Forget(p)
  /\ UNCHANGED <<pin, service>>

(* The host restarts, and the unit with it. *)
Reboot ==
  /\ kills < MaxKills
  /\ kills' = kills + 1
  /\ pc' = [p \in Deployer |-> "idle"]
  /\ asked' = [p \in Deployer |-> None]
  /\ previous' = [p \in Deployer |-> None]
  /\ result' = [p \in Deployer |-> "none"]
  /\ lock' = None
  /\ starts' = IF pin = None THEN 0 ELSE 1
  /\ unit' = [unit EXCEPT !.state = IF pin = None THEN "inactive" ELSE "pulling"]
  /\ container' = [container EXCEPT !.up = FALSE]
  /\ UNCHANGED <<pin, lastWorked>>
-----------------------------------------------------------------------------
UnitStep == PullEnds \/ PullFails \/ UpSucceeds \/ UpFails

Step(p) ==
  \/ Acquire(p) \/ WaitTimesOut(p) \/ ReadCurrentImage(p) \/ WriteImageEnv(p) \/ WriteFails(p)
  \/ Restart(p) \/ Deployed(p) \/ RestartFails(p) \/ RemovePin(p)
  \/ LeavePin(p) \/ JudgeDown(p) \/ WritePrevious(p) \/ RestartAgain(p) \/ RolledBack(p)
  \/ Release(p)

Environment ==
  \/ \E p \in Deployer : (\E i \in Image : Ask(p, i)) \/ Kill(p)
  \/ Retry \/ IntervalPasses \/ ContainerFlaps \/ Reboot

Next == UnitStep \/ Environment \/ \E p \in Deployer : Step(p)

Spec == Init /\ [][Next]_vars

(* A process that is alive is scheduled, and TimeoutStartSec ends each       *)
(* command of the unit.                                                      *)
FairSpec == Spec /\ WF_vars(UnitStep) /\ \A p \in Deployer : WF_vars(Step(p))
-----------------------------------------------------------------------------
(* Properties.                                                               *)

TypeOK ==
  /\ pc \in [Deployer -> Label]
  /\ asked \in [Deployer -> Image \cup {None}]
  /\ previous \in [Deployer -> Image \cup {None}]
  /\ result \in [Deployer -> Result]
  /\ lock \in Deployer \cup {None}
  /\ pin \in Image \cup {None}
  /\ unit \in [state: UnitState, image: Image \cup {None}]
  /\ starts \in 0..Burst
  /\ container \in [image: Image \cup {None}, up: BOOLEAN]
  /\ kills \in 0..MaxKills
  /\ lastWorked \in Image \cup {None}

(* stack_deploy_lock: the read, the write, the restart and the rollback are  *)
(* one section, and no two deploys are in it.                                *)
OneWriter == \A p \in Deployer : pc[p] \in Held <=> lock = p

(* What a deploy is about to report is what is on the host: a deployed image *)
(* is pinned and runs; one rolled back is off, and the one before it runs;   *)
(* one left in place is pinned; without a fallback there is no pin.          *)
Runs(i) == pin = i /\ unit.state = "active" /\ unit.image = i /\ container.image = i

Honest(p) ==
  /\ result[p] = "deployed" => Runs(asked[p])
  /\ result[p] = "rolled back" => Runs(previous[p])
  /\ result[p] = "both failed" => pin = previous[p]
  /\ result[p] \in {"left", "unknown"} => pin = asked[p]
  /\ result[p] = "no fallback" => pin = None

ReportTrue == \A p \in Deployer : pc[p] = "release" => Honest(p)

(* With no deploy under way, no kill and no reboot, a unit that is active    *)
(* runs the pin: neither a rollback nor a retry of the unit leaves the host  *)
(* running an image that the next start would replace.                       *)
UnitFollowsPin == kills = 0 /\ lock = None /\ unit.state = "active" => unit.image = pin

(* The lock makes each attempt whole: no deploy comes between another's      *)
(* write and its rollback, which puts back exactly what it replaced.         *)
Undecided == {"restart", "restarting", "unpin", "judge", "rollback"}
Attempt == {previous[p] : p \in {q \in Deployer : pc[q] \in Undecided}}
P == INSTANCE PinRegister WITH attempt <- Attempt
PinRegisterSpec == P!Spec

(* To the other programs of the host a deploy is what StackHost says: whoever *)
(* has the lock, and only they, move the pin and restart the unit.           *)
H == INSTANCE StackHost WITH
       Deploy <- "deploy",
       lock <- IF lock = None THEN None ELSE "deploy",
       unit <- IF unit.state = "limited" THEN "failed" ELSE unit.state
StackHostSpec == H!Spec

(* branchleft_deploy.md: a deploy whose image will not run "leaves the host  *)
(* on the last image that worked".                                           *)
LastWorkedIsBack ==
  \A p \in Deployer :
    result[p] \in {"rolled back", "both failed"} /\ lastWorked \notin {None, asked[p]}
      => pin = lastWorked

(* Every deploy ends: the lock is waited for within a limit, each start of   *)
(* the unit is too, and a holder that dies takes the lock with it.           *)
EveryDeployEnds == \A p \in Deployer : pc[p] # "idle" ~> pc[p] = "idle"
===============================================================================
