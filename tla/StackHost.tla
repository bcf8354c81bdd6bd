------------------------------- MODULE StackHost -------------------------------
(***************************************************************************)
(* What the programs that work on one Compose stack share on its host: the *)
(* lock, the pin file and the systemd unit, as the image deploys leave     *)
(* them to others.  A deploy moves the pin and restarts the unit while it  *)
(* holds the lock, and never without it; ImageDeploy implements this.      *)
(***************************************************************************)
CONSTANTS
  Image,        \* digests
  None,         \* no digest, nobody
  Deploy        \* the holder of the lock that is an image deploy

VARIABLES
  lock,         \* who holds the flock
  pin,          \* the image in the pin file, None when there is no file
  unit          \* the state of the unit

vars == <<lock, pin, unit>>

UnitState == {"inactive", "pulling", "starting", "active", "failed"}

Init == lock = None /\ pin = None /\ unit = "inactive"
-----------------------------------------------------------------------------
(* A start: without a pin there is none, and the start limit may refuse it. *)
Start ==
  \/ pin = None /\ unit' = "inactive"
  \/ pin # None /\ unit' \in {"pulling", "failed"}

PullEnds == unit = "pulling" /\ pin # None /\ unit' = "starting" /\ UNCHANGED <<lock, pin>>
PullFails == unit = "pulling" /\ unit' = "failed" /\ UNCHANGED <<lock, pin>>
UpSucceeds == unit = "starting" /\ unit' = "active" /\ UNCHANGED <<lock, pin>>
UpFails == unit = "starting" /\ unit' = "failed" /\ UNCHANGED <<lock, pin>>

(* The unit starts again by itself after a failure, whoever has the lock. *)
Retry == unit = "failed" /\ Start /\ UNCHANGED <<lock, pin>>

LockFree == lock = None
Take == LockFree /\ lock' = Deploy /\ UNCHANGED <<pin, unit>>
Give == lock = Deploy /\ lock' = None /\ UNCHANGED <<pin, unit>>
MovePin == lock = Deploy /\ pin' \in Image \cup {None} /\ UNCHANGED <<lock, unit>>
Restart == lock = Deploy /\ Start /\ UNCHANGED <<lock, pin>>

(* The host restarts: no program is left, and an enabled unit starts. *)
Reboot ==
  /\ lock' = None
  /\ unit' = IF pin = None THEN "inactive" ELSE "pulling"
  /\ UNCHANGED pin

UnitStep == PullEnds \/ PullFails \/ UpSucceeds \/ UpFails
DeployStep == Take \/ Give \/ MovePin \/ Restart
Next == UnitStep \/ Retry \/ DeployStep \/ Reboot

Spec == Init /\ [][Next]_vars
===============================================================================
