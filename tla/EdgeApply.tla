------------------------------- MODULE EdgeApply -------------------------------
(***************************************************************************)
(* ansible/roles/edge_stack: the role that brings the files of the edge    *)
(* stack to the host and applies each class of them by its own action, on  *)
(* a host where image deploys of the same stack go on (StackHost).         *)
(*                                                                         *)
(* A play of the role decides what is due from the files and the stamps,   *)
(* validates the candidates under the deploy lock, marks the classes and   *)
(* places the files without it, and acts under it again: edge_apply.sh in  *)
(* its modes validate and apply.  One play runs at a time (SingleFlight of *)
(* PullTrigger); it may die, or a task of it fail, at any point.           *)
(***************************************************************************)
EXTENDS Naturals, StackHost

CONSTANTS
  Play,           \* the holder of the lock that is a play
  Content,        \* contents of the files of a class
  Version,        \* trees the repository may hold: a content for each class
  CaddyAccepts,   \* pairs of a Caddyfile and an image whose Caddy finds it valid
  ComposeAccepts, \* the Compose files that Compose finds valid
  Other,          \* a content no repository holds: torn, mixed or edited by hand
  Absent,         \* no stamp
  Pending,        \* the stamp of a class that is being changed
  MaxFaults       \* bound: plays that die, tasks and commands that fail, reboots,
                  \* edits of a file and rotations of edge.env by hand

Class == {"caddy", "compose", "crowdsec"}

ASSUME VersionAssumption == Version \subseteq [Class -> Content]
ASSUME ContentAssumption == {Other, None} \cap Content = {} /\ Other # None
ASSUME HolderAssumption == Play # Deploy /\ None \notin {Play, Deploy} \cup Image
ASSUME StampAssumption ==
  /\ Absent # Pending
  /\ {Absent, Pending} \cap (Class \X (Content \cup {Other}) \X Nat) = {}
ASSUME BoundAssumption == MaxFaults \in Nat

VARIABLES
  at,           \* where the play is
  want,         \* the version in its checkout
  plan,         \* what it decided: the classes that drift, are due, are to be adopted
  secrets,      \* the edge.env it fingerprinted
  validated,    \* the pin its candidates were validated in
  done,         \* the classes edge_apply.sh printed a marker for
  file,         \* the files of each class on the host
  stamp,        \* of each class: Absent, Pending or a fingerprint
  env,          \* edge.env, the owner's file: how often it was rotated
  enabled,      \* the unit is enabled
  loaded,       \* what the services of each class run with, as a fingerprint
  reading,      \* what the `up` under way has read of the Compose class
  faults        \* how many of them there have been

play == <<at, want, plan, secrets, validated, done>>
files == <<file, stamp>>
services == <<loaded, reading>>
owner == <<env, enabled>>
edge == <<play, files, services, owner, faults>>
allVars == <<vars, edge>>

(* Labels of a play that has the lock to apply, and all labels. *)
Locked == {"write", "writing", "unit", "restarting", "bouncer", "reload", "unlock"}
At == {"idle", "validate", "mark", "compose", "crowdsec", "placing", "apply", "adopt", "record"}
        \cup Locked

(* The fingerprint of a class; the one of Compose covers edge.env as well. *)
Fingerprint(k, content, e) == <<k, content, IF k = "compose" THEN e ELSE 0>>
HostNow(k) == Fingerprint(k, file[k], env)

NoPlay == [at |-> "idle", plan |-> [drift |-> {}, due |-> {}, adopt |-> {}]]

EdgeInit ==
  /\ Init
  /\ at = "idle" /\ plan = NoPlay.plan
  /\ want = None /\ secrets = 0 /\ validated = None /\ done = {}
  /\ file \in {v \in Version : v.compose \in ComposeAccepts} /\ stamp = [k \in Class |-> Absent]
  /\ env = 0 /\ enabled = FALSE
  /\ loaded = [k \in Class |-> None] /\ reading = None
  /\ faults = 0

Move(l) == at' = l
Fault == faults < MaxFaults /\ faults' = faults + 1
-----------------------------------------------------------------------------
(* A play, up to the files.                                                  *)

(* _decide.yml and _stamp_decide.yml: a class without a stamp whose files are *)
(* there is adopted, one that drifts or whose stamp is another is due.  While *)
(* the unit is not enabled, the Compose class is neither.                    *)
Gate == {k \in Class : k = "compose" => enabled}

Decide(w) ==
  LET drift == {k \in Class : file[k] # w[k]}
      adopt == {k \in Gate \ drift : stamp[k] = Absent}
      due == {k \in Gate \ adopt : k \in drift \/ stamp[k] # Fingerprint(k, w[k], env)}
  IN  [drift |-> drift, due |-> due, adopt |-> adopt]

(* The role refuses a host without a pin. *)
Begin(w) ==
  /\ at = "idle"
  /\ pin # None
  /\ want' = w
  /\ plan' = Decide(w)
  /\ secrets' = env
  /\ Move("validate")
  /\ UNCHANGED <<vars, validated, done, files, services, owner, faults>>

(* The play is over; the candidates it leaves, if it died, the next replaces. *)
Over ==
  /\ at' = "idle" /\ plan' = NoPlay.plan
  /\ want' = None /\ secrets' = 0 /\ validated' = None /\ done' = {}

ValidateNeeded == plan.due # {} \/ "compose" \in plan.drift

(* edge_apply.sh validate, under the lock: what Caddy of the pinned image and *)
(* Compose say of the candidates of the files that drift.                    *)
MutAccepted == TRUE
Accepted ==
  /\ "caddy" \in plan.drift => <<want["caddy"], pin>> \in CaddyAccepts
  /\ "compose" \in plan.drift => want["compose"] \in ComposeAccepts

ValidateSkipped ==
  /\ at = "validate"
  /\ ~ValidateNeeded
  /\ Move("mark")
  /\ UNCHANGED <<vars, want, plan, secrets, validated, done, files, services, owner, faults>>

Validate ==
  /\ at = "validate"
  /\ ValidateNeeded /\ LockFree
  /\ pin # None /\ Accepted
  /\ validated' = pin
  /\ Move("mark")
  /\ UNCHANGED <<vars, want, plan, secrets, done, files, services, owner, faults>>

(* A candidate is refused, or the pin file is, or the lock is not free in    *)
(* time: nothing is placed.                                                  *)
Refuse ==
  /\ at = "validate"
  /\ ValidateNeeded
  /\ LockFree => pin = None \/ ~Accepted
  /\ Over
  /\ UNCHANGED <<vars, files, services, owner, faults>>

(* _stamp_mark_pending.yml *)
MutMarked == plan.due
Marked == plan.due \cup plan.drift

Mark ==
  /\ at = "mark"
  /\ stamp' = [k \in Class |-> IF k \in Marked THEN Pending ELSE stamp[k]]
  /\ Move("compose")
  /\ UNCHANGED <<vars, want, plan, secrets, validated, done, file, services, owner, faults>>

(* Copied from the candidate, by rename. *)
PlaceCompose ==
  /\ at = "compose"
  /\ file' = IF "compose" \in plan.drift THEN [file EXCEPT !["compose"] = want["compose"]] ELSE file
  /\ Move("crowdsec")
  /\ UNCHANGED <<vars, want, plan, secrets, validated, done, stamp, services, owner, faults>>

(* Several files, one after the other: in between they are no version. *)
PlaceCrowdsec ==
  /\ \/ at = "crowdsec" /\ file["crowdsec"] = want["crowdsec"] /\ Move("apply") /\ UNCHANGED file
     \/ at = "crowdsec" /\ file["crowdsec"] # want["crowdsec"] /\ Move("placing")
          /\ file' = [file EXCEPT !["crowdsec"] = Other]
     \/ at = "placing" /\ Move("apply") /\ file' = [file EXCEPT !["crowdsec"] = want["crowdsec"]]
  /\ UNCHANGED <<vars, want, plan, secrets, validated, done, stamp, services, owner, faults>>
-----------------------------------------------------------------------------
(* edge_apply.sh apply, under the lock.                                      *)

(* The pin is the one the candidates were validated in, or nothing is done.  *)
MutPinKept == pin # None
PinKept == pin # None /\ pin = validated

Apply ==
  /\ at = "apply"
  /\ plan.due # {} /\ LockFree
  /\ lock' = Play
  /\ Move(IF PinKept THEN "write" ELSE "unlock")
  /\ UNCHANGED <<pin, unit, want, plan, secrets, validated, done, files, services, owner, faults>>

(* There is nothing to do, or the lock is not free in time. *)
ApplySkipped ==
  /\ at = "apply"
  /\ plan.due = {} \/ ~LockFree
  /\ Move("adopt")
  /\ UNCHANGED <<vars, want, plan, secrets, validated, done, files, services, owner, faults>>

(* The Caddyfile is truncated and written in place. *)
WriteCaddyfile ==
  /\ \/ at = "write" /\ "caddy" \notin plan.drift /\ Move("unit") /\ UNCHANGED file
     \/ at = "write" /\ "caddy" \in plan.drift /\ Move("writing")
          /\ file' = [file EXCEPT !["caddy"] = Other]
     \/ at = "writing" /\ Move("unit") /\ file' = [file EXCEPT !["caddy"] = want["caddy"]]
  /\ UNCHANGED <<vars, want, plan, secrets, validated, done, stamp, services, owner, faults>>

MutUnitRestart ==
  /\ at = "unit"
  /\ Start /\ reading' = None /\ Move("restarting")
  /\ UNCHANGED <<lock, pin, want, plan, secrets, validated, done, files, loaded, owner, faults>>

UnitRestart ==
  /\ at = "unit"
  /\ IF "compose" \in plan.due THEN Start /\ reading' = None /\ Move("restarting")
     ELSE UNCHANGED <<unit, reading>> /\ Move("bouncer")
  /\ UNCHANGED <<lock, pin, want, plan, secrets, validated, done, files, loaded, owner, faults>>

(* Active, with both services running; or the script fails. *)
UnitRestarted ==
  /\ at = "restarting"
  /\ unit \notin {"pulling", "starting"}
  /\ \/ unit = "active" /\ done' = done \cup {"compose"} /\ Move("bouncer")
     \/ UNCHANGED done /\ Move("unlock")
  /\ UNCHANGED <<vars, want, plan, secrets, validated, files, services, owner, faults>>

(* A container that runs is made to read its files, and the marker printed   *)
(* when they have been read back; for one that does not run there is none.   *)
Act(k, from, to) ==
  /\ at = from
  /\ Move(to)
  /\ \/ k \in plan.due /\ loaded[k] # None
          /\ loaded' = [loaded EXCEPT ![k] = HostNow(k)] /\ done' = done \cup {k}
     \/ UNCHANGED <<done, loaded>>
  /\ UNCHANGED <<vars, want, plan, secrets, validated, files, reading, owner, faults>>

RestartCrowdsec == Act("crowdsec", "bouncer", "reload")
ReloadCaddy == Act("caddy", "reload", "unlock")

Unlock ==
  /\ at = "unlock"
  /\ lock' = None
  /\ Move("adopt")
  /\ UNCHANGED <<pin, unit, want, plan, secrets, validated, done, files, services, owner, faults>>
-----------------------------------------------------------------------------
(* A play, to its end.                                                       *)

Stamped(ks) ==
  stamp' = [k \in Class |-> IF k \in ks THEN Fingerprint(k, want[k], secrets) ELSE stamp[k]]

(* _stamp_adopt.yml *)
Adopt ==
  /\ at = "adopt"
  /\ Stamped(plan.adopt)
  /\ Move("record")
  /\ UNCHANGED <<vars, want, plan, secrets, validated, done, file, services, owner, faults>>

(* _stamp_record.yml: the classes with a marker, also when a later one failed. *)
Record ==
  /\ at = "record"
  /\ Stamped(done)
  /\ Over
  /\ UNCHANGED <<vars, file, services, owner, faults>>

(* A task fails before the apply, and the rest of the block is skipped. *)
TaskFails ==
  /\ at \in {"validate", "mark", "compose", "crowdsec", "placing"}
  /\ Over
  /\ Fault
  /\ UNCHANGED <<vars, files, services, owner>>

(* A step of the script fails, and the script with it; a container may have  *)
(* been made to read its files before it.                                    *)
ScriptFails ==
  /\ at \in Locked \ {"unlock", "restarting"}
  /\ Move("unlock")
  /\ Fault
  /\ \/ UNCHANGED loaded
     \/ \E k \in plan.due : /\ at = (IF k = "caddy" THEN "reload" ELSE "bouncer")
                            /\ k # "compose" /\ loaded[k] # None
                            /\ loaded' = [loaded EXCEPT ![k] = HostNow(k)]
  /\ UNCHANGED <<vars, want, plan, secrets, validated, done, files, reading, owner>>

(* The play is killed, and what it runs with it. *)
Die ==
  /\ at # "idle"
  /\ lock' = IF lock = Play THEN None ELSE lock
  /\ Over
  /\ Fault
  /\ UNCHANGED <<pin, unit, files, services, owner>>
-----------------------------------------------------------------------------
(* The owner, the unit and the deploys beside it.                            *)

(* A class's files are edited by hand, while no play runs. *)
HandEdit(k) ==
  /\ at = "idle"
  /\ file' = [file EXCEPT ![k] = Other]
  /\ Fault
  /\ UNCHANGED <<vars, play, stamp, services, owner>>

(* A key in edge.env is rotated, also during a play; but on a host whose      *)
(* Compose class has a stamp: adoption trusts what it finds (README).         *)
Rotate ==
  /\ stamp["compose"] # Absent
  /\ env' = env + 1
  /\ Fault
  /\ UNCHANGED <<vars, play, files, services, enabled>>

(* The owner enables the unit; a play reads that as it begins, and not again. *)
Enable ==
  /\ ~enabled /\ at = "idle"
  /\ enabled' = TRUE
  /\ UNCHANGED <<vars, play, files, services, env, faults>>

(* An `up` reads the files of the Compose class as it begins; whether it ends *)
(* well or not, a container of the other two that it starts or recreates     *)
(* reads its files then.                                                     *)
Read(ks) == loaded' = [k \in Class |-> IF k \notin ks THEN loaded[k]
                                      ELSE IF k = "compose" THEN reading ELSE HostNow(k)]

Unstarted == {k \in Class : loaded[k] = None}

EdgeUnit ==
  /\ \/ PullEnds /\ reading' = HostNow("compose") /\ UNCHANGED loaded
     \/ PullFails /\ UNCHANGED services
     \/ UpSucceeds /\ reading' = None
          /\ \E ks \in SUBSET Class : {"compose"} \cup Unstarted \subseteq ks /\ Read(ks)
     \/ UpFails /\ reading' = None /\ \E ks \in SUBSET Class : Read(ks)
  /\ UNCHANGED <<play, files, owner, faults>>

(* Who waited for the failed start has its status before the next. *)
EdgeRetry == Retry /\ at # "restarting" /\ UNCHANGED edge

(* A restart cuts off an `up` that is under way. *)
EdgeDeploy ==
  /\ DeployStep
  /\ reading' = IF unit' = "starting" THEN reading ELSE None
  /\ UNCHANGED <<play, files, loaded, owner, faults>>

(* A container that has run comes up again and reads its files. *)
Flap ==
  /\ \E k \in {"caddy", "crowdsec"} \ Unstarted : Read({k})
  /\ UNCHANGED <<vars, play, files, reading, owner, faults>>

(* Only an enabled unit starts with the host. *)
EdgeReboot ==
  /\ enabled /\ Reboot
  /\ Over
  /\ Fault
  /\ reading' = None
  /\ UNCHANGED <<files, loaded, owner>>

PlayStep ==
  \/ ValidateSkipped \/ Validate \/ Refuse \/ Mark \/ PlaceCompose \/ PlaceCrowdsec
  \/ Apply \/ ApplySkipped \/ WriteCaddyfile \/ UnitRestart \/ UnitRestarted
  \/ RestartCrowdsec \/ ReloadCaddy \/ Unlock \/ Adopt \/ Record
  \/ TaskFails \/ ScriptFails \/ Die

EdgeNext ==
  \/ PlayStep \/ \E w \in Version : Begin(w)
  \/ EdgeUnit \/ EdgeRetry \/ EdgeDeploy \/ Flap \/ EdgeReboot
  \/ (\E k \in Class : HandEdit(k)) \/ Rotate \/ Enable

EdgeSpec == EdgeInit /\ [][EdgeNext]_allVars
-----------------------------------------------------------------------------
(* Properties.                                                               *)

EdgeTypeOK ==
  /\ lock \in {Play, Deploy, None} /\ pin \in Image \cup {None} /\ unit \in UnitState
  /\ at \in At /\ want \in Version \cup {None}
  /\ plan \in [drift: SUBSET Class, due: SUBSET Class, adopt: SUBSET Class]
  /\ secrets \in 0..env /\ env \in 0..faults
  /\ validated \in Image \cup {None} /\ done \subseteq plan.due
  /\ file \in [Class -> Content \cup {Other}] /\ enabled \in BOOLEAN
  /\ faults \in 0..MaxFaults

(* README "Stamps": a class is never taken for done when it is not.  A stamp *)
(* that is the fingerprint of what is on the host means that a service that  *)
(* has started runs with exactly that, whichever play died, failed or was    *)
(* refused before, and whatever a deploy restarted in between.               *)
NeverForgotten ==
  \A k \in Class : stamp[k] = HostNow(k) => loaded[k] \in {None, HostNow(k)}

(* While a play acts, it has the lock and the pin is the one its candidates  *)
(* were validated in: no deploy moves it under an apply, and one that has    *)
(* moved it since the validation stops the apply before it acts.             *)
AppliedAsValidated ==
  /\ at \in Locked <=> lock = Play
  /\ at \in Locked \ {"unlock"} => pin = validated

(* A refused candidate leaves the host as it was: no play puts a Caddyfile   *)
(* there that Caddy of the image pinned at that moment would refuse, nor a   *)
(* Compose file that Compose refuses.                                        *)
OnlyValidated ==
  [][/\ file'["caddy"] # file["caddy"] /\ file'["caddy"] \in Content
          => <<file'["caddy"], pin>> \in CaddyAccepts
     /\ file'["compose"] # file["compose"] /\ file'["compose"] \in Content
          => file'["compose"] \in ComposeAccepts]_allVars
===============================================================================
