--------------------------- MODULE EdgeApplyProofs ---------------------------
(***************************************************************************)
(* Proofs about EdgeApply, for every value of its constants.               *)
(***************************************************************************)
EXTENDS EdgeApply, TLAPS

(* A play that is under way has a version, and does what it has planned.     *)
Known ==
  /\ at # "idle" => want \in Version
  /\ at = "idle" => plan.due = {} /\ plan.drift = {}
  /\ at = "restarting" => "compose" \in plan.due
  /\ at = "writing" => "caddy" \in plan.drift

Typed == EdgeTypeOK /\ Known

(* What a play has validated: nothing before the validation; after it, its   *)
(* candidates, in the image it remembers.                                    *)
Checked ==
  /\ at \in {"idle", "validate"} => validated = None
  /\ at \in {"mark", "compose"} /\ "compose" \in plan.drift => want["compose"] \in ComposeAccepts
  /\ validated # None /\ "caddy" \in plan.drift => <<want["caddy"], validated>> \in CaddyAccepts

(* A play acts on the pin it has validated in, and there is one.             *)
PinHeld == AppliedAsValidated /\ (at \in Locked \ {"unlock"} => pin # None)
-----------------------------------------------------------------------------
(* Types.                                                                    *)

LEMMA InitTyped == EdgeInit => Typed
  <1> SUFFICES ASSUME EdgeInit PROVE Typed
    OBVIOUS
  <1>1. file \in [Class -> Content \cup {Other}]
    BY VersionAssumption DEF EdgeInit
  <1>2. /\ plan \in [drift: SUBSET Class, due: SUBSET Class, adopt: SUBSET Class]
        /\ plan.due = {} /\ plan.drift = {}
    BY DEF EdgeInit, NoPlay
  <1>3. /\ lock \in {Play, Deploy, None} /\ pin \in Image \cup {None} /\ unit \in UnitState
        /\ at = "idle" /\ at \in At
    BY DEF EdgeInit, Init, UnitState, At, Locked
  <1>4. secrets = 0 /\ env = 0 /\ faults = 0 /\ MaxFaults \in Nat
    BY BoundAssumption DEF EdgeInit
  <1>5. secrets \in 0..env /\ env \in 0..faults /\ faults \in 0..MaxFaults
    BY <1>4
  <1>6. /\ want = None /\ validated = None /\ done = {} /\ enabled \in BOOLEAN
    BY DEF EdgeInit
  <1> QED
    BY <1>1, <1>2, <1>3, <1>5, <1>6 DEF Typed, EdgeTypeOK, Known

(* The versions a play places are contents.                                  *)
LEMMA WantContent ==
  ASSUME Typed, at # "idle"
  PROVE  want \in [Class -> Content]
  BY VersionAssumption DEF Typed, Known

LEMMA StepTyped == Typed /\ [EdgeNext]_allVars => Typed'
  <1> SUFFICES ASSUME Typed, [EdgeNext]_allVars PROVE Typed'
    OBVIOUS
  <1>a. plan \in [drift: SUBSET Class, due: SUBSET Class, adopt: SUBSET Class]
    BY DEF Typed, EdgeTypeOK
  <1>b. secrets \in Nat /\ env \in Nat /\ faults \in Nat /\ MaxFaults \in Nat
    BY BoundAssumption DEF Typed, EdgeTypeOK
  <1> USE DEF Typed, EdgeTypeOK, Known, At, Locked, UnitState, Move,
              vars, play, files, services, owner, edge
  <1>0. ASSUME Over, UNCHANGED <<pin, unit, file, owner, faults>>, lock' \in {lock, None}
        PROVE  Typed'
    BY <1>0, <1>b DEF Over, NoPlay
  <1>1. ASSUME NEW w \in Version, Begin(w) PROVE Typed'
    <2>1. plan' \in [drift: SUBSET Class, due: SUBSET Class, adopt: SUBSET Class]
      BY <1>1 DEF Begin, Decide, Gate
    <2>2. done = {}
      BY <1>1 DEF Begin
    <2> QED BY <1>1, <1>b, <2>1, <2>2 DEF Begin
  <1>2. CASE ValidateSkipped \/ Validate
    BY <1>2 DEF ValidateSkipped, Validate
  <1>3. CASE Refuse
    BY <1>3, <1>0 DEF Refuse
  <1>4. CASE Mark
    BY <1>4 DEF Mark
  <1>5. CASE PlaceCompose
    BY <1>5, WantContent DEF PlaceCompose, Class
  <1>6. CASE PlaceCrowdsec
    BY <1>6, WantContent DEF PlaceCrowdsec, Class
  <1>7. CASE Apply \/ ApplySkipped
    BY <1>7 DEF Apply, ApplySkipped
  <1>8. CASE WriteCaddyfile
    BY <1>8, WantContent DEF WriteCaddyfile, Class
  <1>9. CASE UnitRestart
    BY <1>9 DEF UnitRestart, Start
  <1>10. CASE UnitRestarted
    BY <1>10 DEF UnitRestarted
  <1>11. CASE RestartCrowdsec \/ ReloadCaddy
    BY <1>11 DEF RestartCrowdsec, ReloadCaddy, Act
  <1>12. CASE Unlock \/ Adopt
    BY <1>12 DEF Unlock, Adopt
  <1>13. CASE Record
    BY <1>13, <1>0 DEF Record
  <1>14. CASE TaskFails \/ Die
    BY <1>14, <1>b DEF TaskFails, Die, Over, NoPlay, Fault
  <1>15. CASE ScriptFails
    BY <1>15, <1>b DEF ScriptFails, Fault
  <1>16. CASE EdgeUnit
    BY <1>16 DEF EdgeUnit, PullEnds, PullFails, UpSucceeds, UpFails
  <1>17. CASE EdgeRetry \/ EdgeDeploy
    BY <1>17 DEF EdgeRetry, Retry, Start, EdgeDeploy, DeployStep, Take, Give, MovePin, Restart
  <1>18. CASE Flap
    BY <1>18 DEF Flap
  <1>19. CASE EdgeReboot
    BY <1>19, <1>b DEF EdgeReboot, Reboot, Over, NoPlay, Fault
  <1>20. ASSUME NEW k \in Class, HandEdit(k) PROVE Typed'
    BY <1>20, <1>b DEF HandEdit, Fault
  <1>21. CASE Rotate
    BY <1>21, <1>b DEF Rotate, Fault
  <1>22. CASE Enable
    BY <1>22 DEF Enable
  <1>23. CASE UNCHANGED allVars
    BY <1>23 DEF allVars
  <1> QED
    BY <1>1, <1>2, <1>3, <1>4, <1>5, <1>6, <1>7, <1>8, <1>9, <1>10, <1>11, <1>12, <1>13, <1>14,
       <1>15, <1>16, <1>17, <1>18, <1>19, <1>20, <1>21, <1>22, <1>23
    DEF EdgeNext, PlayStep

(* Every variable keeps its type, and a marker is only printed for a class   *)
(* that was due.                                                             *)
THEOREM EdgeTypeCorrect == EdgeSpec => []EdgeTypeOK
  <1>1. Typed => EdgeTypeOK
    BY DEF Typed
  <1> QED BY InitTyped, StepTyped, <1>1, PTL DEF EdgeSpec
-----------------------------------------------------------------------------
(* The lock, and the pin under it.                                           *)

LEMMA InitPin == EdgeInit => PinHeld
  BY HolderAssumption DEF EdgeInit, Init, PinHeld, AppliedAsValidated, Locked

LEMMA StepPin == PinHeld /\ [EdgeNext]_allVars => PinHeld'
  <1> SUFFICES ASSUME PinHeld, [EdgeNext]_allVars PROVE PinHeld'
    OBVIOUS
  <1>0. Play # Deploy /\ Play # None
    BY HolderAssumption
  <1> USE <1>0 DEF PinHeld, AppliedAsValidated, Locked, Move, vars, play, files, services, owner, edge
  <1>1. ASSUME NEW w \in Version, Begin(w) PROVE PinHeld'
    BY <1>1 DEF Begin
  <1>2. CASE ValidateSkipped \/ Validate
    BY <1>2 DEF ValidateSkipped, Validate
  <1>3. CASE Refuse
    BY <1>3 DEF Refuse, Over
  <1>4. CASE Mark \/ PlaceCompose \/ PlaceCrowdsec
    BY <1>4 DEF Mark, PlaceCompose, PlaceCrowdsec
  <1>5. CASE Apply
    BY <1>5 DEF Apply, PinKept
  <1>6. CASE ApplySkipped
    BY <1>6 DEF ApplySkipped
  <1>7. CASE WriteCaddyfile
    BY <1>7 DEF WriteCaddyfile
  <1>8. CASE UnitRestart \/ UnitRestarted
    BY <1>8 DEF UnitRestart, UnitRestarted
  <1>9. CASE RestartCrowdsec \/ ReloadCaddy
    BY <1>9 DEF RestartCrowdsec, ReloadCaddy, Act
  <1>10. CASE Unlock
    BY <1>10 DEF Unlock
  <1>11. CASE Adopt
    BY <1>11 DEF Adopt
  <1>12. CASE Record
    BY <1>12 DEF Record, Over
  <1>13. CASE TaskFails \/ Die
    BY <1>13 DEF TaskFails, Die, Over
  <1>14. CASE ScriptFails
    BY <1>14 DEF ScriptFails
  <1>15. CASE EdgeUnit \/ EdgeRetry
    BY <1>15 DEF EdgeUnit, PullEnds, PullFails, UpSucceeds, UpFails, EdgeRetry, Retry
  <1>16. CASE EdgeDeploy
    BY <1>16 DEF EdgeDeploy, DeployStep, Take, LockFree, Give, MovePin, Restart
  <1>17. CASE Flap \/ Rotate \/ Enable
    BY <1>17 DEF Flap, Rotate, Enable
  <1>18. CASE EdgeReboot
    BY <1>18 DEF EdgeReboot, Reboot, Over
  <1>19. ASSUME NEW k \in Class, HandEdit(k) PROVE PinHeld'
    BY <1>19 DEF HandEdit
  <1>20. CASE UNCHANGED allVars
    BY <1>20 DEF allVars
  <1> QED
    BY <1>1, <1>2, <1>3, <1>4, <1>5, <1>6, <1>7, <1>8, <1>9, <1>10, <1>11, <1>12, <1>13, <1>14,
       <1>15, <1>16, <1>17, <1>18, <1>19, <1>20
    DEF EdgeNext, PlayStep

(* The digest the candidates were validated in is the digest the classes are *)
(* applied with: no deploy, retry, death or reboot comes between the two.    *)
THEOREM AppliesWhatItValidated == EdgeSpec => []AppliedAsValidated
  <1>1. PinHeld => AppliedAsValidated
    BY DEF PinHeld
  <1> QED BY InitPin, StepPin, <1>1, PTL DEF EdgeSpec
-----------------------------------------------------------------------------
(* What a play has validated, and what it places.                            *)

LEMMA InitChecked == EdgeInit => Checked
  BY DEF EdgeInit, Checked

LEMMA StepChecked == Checked /\ [EdgeNext]_allVars => Checked'
  <1> SUFFICES ASSUME Checked, [EdgeNext]_allVars PROVE Checked'
    OBVIOUS
  <1> USE DEF Checked, Move, vars, play, files, services, owner, edge
  <1>0. ASSUME Over PROVE Checked'
    BY <1>0 DEF Over
  <1>1. ASSUME NEW w \in Version, Begin(w) PROVE Checked'
    BY <1>1 DEF Begin
  <1>2. CASE ValidateSkipped
    BY <1>2 DEF ValidateSkipped, ValidateNeeded
  <1>3. CASE Validate
    BY <1>3 DEF Validate, Accepted
  <1>4. CASE Refuse \/ Record \/ TaskFails \/ Die \/ EdgeReboot
    BY <1>0, <1>4 DEF Refuse, Record, TaskFails, Die, EdgeReboot
  <1>5. CASE Mark \/ PlaceCompose \/ PlaceCrowdsec
    BY <1>5 DEF Mark, PlaceCompose, PlaceCrowdsec
  <1>6. CASE Apply \/ ApplySkipped \/ WriteCaddyfile
    BY <1>6 DEF Apply, ApplySkipped, WriteCaddyfile
  <1>7. CASE UnitRestart \/ UnitRestarted
    BY <1>7 DEF UnitRestart, UnitRestarted
  <1>8. CASE RestartCrowdsec \/ ReloadCaddy
    BY <1>8 DEF RestartCrowdsec, ReloadCaddy, Act
  <1>9. CASE Unlock \/ Adopt \/ ScriptFails
    BY <1>9 DEF Unlock, Adopt, ScriptFails, Locked
  <1>10. CASE EdgeUnit \/ EdgeRetry \/ EdgeDeploy \/ Flap \/ Rotate \/ Enable
    BY <1>10 DEF EdgeUnit, EdgeRetry, EdgeDeploy, Flap, Rotate, Enable
  <1>11. ASSUME NEW k \in Class, HandEdit(k) PROVE Checked'
    BY <1>11 DEF HandEdit
  <1>12. CASE UNCHANGED allVars
    BY <1>12 DEF allVars
  <1> QED
    BY <1>1, <1>2, <1>3, <1>4, <1>5, <1>6, <1>7, <1>8, <1>9, <1>10, <1>11, <1>12
    DEF EdgeNext, PlayStep

(* A file of the repository appears on the host only as a checked candidate. *)
Placement ==
  /\ file'["caddy"] # file["caddy"] /\ file'["caddy"] \in Content
       => <<file'["caddy"], pin>> \in CaddyAccepts
  /\ file'["compose"] # file["compose"] /\ file'["compose"] \in Content
       => file'["compose"] \in ComposeAccepts

LEMMA StepPlacement == Typed /\ PinHeld /\ Checked /\ [EdgeNext]_allVars => [Placement]_allVars
  <1> SUFFICES ASSUME Typed, PinHeld, Checked, [EdgeNext]_allVars PROVE [Placement]_allVars
    OBVIOUS
  <1>0. file \in [Class -> Content \cup {Other}] /\ Other \notin Content
    BY ContentAssumption DEF Typed, EdgeTypeOK
  <1>1. ASSUME UNCHANGED file PROVE Placement
    BY <1>1 DEF Placement
  <1> USE DEF files, Class
  <1>2. CASE PlaceCompose
    BY <1>0, <1>2 DEF PlaceCompose, Placement, Checked
  <1>3. CASE PlaceCrowdsec
    BY <1>0, <1>3 DEF PlaceCrowdsec, Placement
  <1>4. CASE WriteCaddyfile
    <2>1. CASE at = "writing"
      <3>1. pin = validated /\ validated # None
        BY <2>1 DEF PinHeld, AppliedAsValidated, Locked
      <3>2. "caddy" \in plan.drift
        BY <2>1 DEF Typed, Known
      <3>3. <<want["caddy"], pin>> \in CaddyAccepts
        BY <3>1, <3>2 DEF Checked
      <3> QED BY <1>0, <1>4, <2>1, <3>3 DEF WriteCaddyfile, Placement
    <2>2. CASE at # "writing"
      BY <1>0, <1>4, <2>2 DEF WriteCaddyfile, Placement
    <2> QED BY <2>1, <2>2
  <1>5. ASSUME NEW k \in Class, HandEdit(k) PROVE Placement
    BY <1>0, <1>5 DEF HandEdit, Placement
  <1>6. ASSUME NEW w \in Version, Begin(w) PROVE Placement
    BY <1>1, <1>6 DEF Begin
  <1>7. CASE ValidateSkipped \/ Validate \/ Refuse \/ Mark \/ Apply \/ ApplySkipped
    BY <1>1, <1>7 DEF ValidateSkipped, Validate, Refuse, Mark, Apply, ApplySkipped
  <1>8. CASE UnitRestart \/ UnitRestarted \/ RestartCrowdsec \/ ReloadCaddy
    BY <1>1, <1>8 DEF UnitRestart, UnitRestarted, RestartCrowdsec, ReloadCaddy, Act
  <1>9. CASE Unlock \/ Adopt \/ Record \/ TaskFails \/ ScriptFails \/ Die
    BY <1>1, <1>9 DEF Unlock, Adopt, Record, TaskFails, ScriptFails, Die
  <1>10. CASE EdgeUnit \/ EdgeRetry \/ EdgeDeploy \/ Flap \/ EdgeReboot \/ Rotate \/ Enable
    BY <1>1, <1>10 DEF EdgeUnit, EdgeRetry, EdgeDeploy, Flap, EdgeReboot, Rotate, Enable, edge
  <1>11. CASE UNCHANGED allVars
    BY <1>11
  <1> QED
    BY <1>2, <1>3, <1>4, <1>5, <1>6, <1>7, <1>8, <1>9, <1>10, <1>11 DEF EdgeNext, PlayStep

(* A play puts no Caddyfile on the host that the image pinned at that moment *)
(* refuses, and no Compose file that Compose refuses.                        *)
THEOREM PlacesOnlyValidated == EdgeSpec => OnlyValidated
  <1>1. Typed /\ PinHeld /\ Checked /\ [EdgeNext]_allVars =>
          [/\ file'["caddy"] # file["caddy"] /\ file'["caddy"] \in Content
                => <<file'["caddy"], pin>> \in CaddyAccepts
           /\ file'["compose"] # file["compose"] /\ file'["compose"] \in Content
                => file'["compose"] \in ComposeAccepts]_allVars
    BY StepPlacement DEF Placement
  <1> QED
    BY InitTyped, StepTyped, InitPin, StepPin, InitChecked, StepChecked, <1>1, PTL
    DEF EdgeSpec, OnlyValidated
-----------------------------------------------------------------------------
(* Stamps.  What follows is about what a stamp allows to conclude: for a     *)
(* class whose stamp is what is on the host, and for one that is adopted     *)
(* because it has none.                                                      *)

(* What the services of a class run with, or an `up` under way will give     *)
(* them, is what is on the host.                                             *)
Current(k) ==
  /\ loaded[k] \in {None, HostNow(k)}
  /\ k = "compose" => reading \in {None, HostNow(k)}

(* The labels of a play that has marked, and of one that may have acted.     *)
Marking == {"compose", "crowdsec", "placing", "apply", "adopt", "record"} \cup Locked
Acting == {"bouncer", "reload", "unlock", "adopt", "record"}

(* A fingerprint is of a content of the repository and of an edge.env there  *)
(* has been.                                                                 *)
Stamps == stamp \in [Class -> {Absent, Pending} \cup (Class \X Content \X (0..env))]

(* What a play changes it has marked, and what it adopts it leaves alone.    *)
Planned ==
  /\ plan.adopt \cap (plan.due \cup plan.drift) = {}
  /\ at \in Marking => \A k \in plan.due \cup plan.drift : stamp[k] = Pending
  /\ at # "record" => \A k \in plan.adopt : stamp[k] = Absent
  /\ at \in {"validate", "mark", "compose", "crowdsec"} /\ file["crowdsec"] # want["crowdsec"]
       => "crowdsec" \in plan.drift
  /\ at = "placing" => "crowdsec" \in plan.drift

(* Without a stamp the files are the ones the services started with, unless  *)
(* a hand has edited them.                                                   *)
Trusted == \A k \in Class : stamp[k] = Absent => file[k] = Other \/ Current(k)

(* With a stamp that is what is on the host, so are the services.            *)
Kept == \A k \in Class : stamp[k] = HostNow(k) => Current(k)

(* A class with a marker runs with what is on the host; the Compose class,   *)
(* unless edge.env was rotated after the play had read it.                   *)
Fresh(x) == env = secrets => x = HostNow("compose")
Acted ==
  /\ done # {} => at \in Acting
  /\ \A k \in done \ {"compose"} : loaded[k] = HostNow(k)
  /\ "compose" \in done \/ (at = "restarting" /\ unit = "active") => Fresh(loaded["compose"])
  /\ "compose" \in done \/ at = "restarting" =>
       Fresh(reading) \/ (reading = None /\ unit # "starting")

(* What the services have, as the fingerprint of some content.               *)
Loads ==
  /\ loaded \in [Class -> {None} \cup (Class \X (Content \cup {Other}) \X Nat)]
  /\ reading \in {None} \cup (Class \X (Content \cup {Other}) \X Nat)

StampInv == Loads /\ Stamps /\ Planned /\ Trusted /\ Kept /\ Acted

LEMMA InitStamp == EdgeInit => StampInv
  <1> SUFFICES ASSUME EdgeInit PROVE StampInv
    OBVIOUS
  <1>1. /\ stamp = [k \in Class |-> Absent] /\ loaded = [k \in Class |-> None] /\ reading = None
        /\ at = "idle" /\ done = {}
        /\ plan.due = {} /\ plan.drift = {} /\ plan.adopt = {}
    BY DEF EdgeInit, NoPlay
  <1>2. Loads /\ Stamps
    BY <1>1 DEF Loads, Stamps
  <1>3. Planned /\ Acted
    BY <1>1 DEF Planned, Acted, Marking, Locked
  <1>4. Trusted /\ Kept
    BY <1>1 DEF Trusted, Kept, Current
  <1> QED BY <1>2, <1>3, <1>4 DEF StampInv

LEMMA StepStamp == Typed /\ PinHeld /\ StampInv /\ [EdgeNext]_allVars => StampInv'
  <1> SUFFICES ASSUME Typed, PinHeld, StampInv, [EdgeNext]_allVars PROVE StampInv'
    OBVIOUS
  <1>types. /\ plan \in [drift: SUBSET Class, due: SUBSET Class, adopt: SUBSET Class]
            /\ file \in [Class -> Content \cup {Other}]
            /\ secrets \in Nat /\ env \in Nat /\ secrets <= env /\ faults \in Nat
            /\ done \subseteq plan.due
            /\ at # "idle" => want \in [Class -> Content]
            /\ at = "idle" => plan.due = {} /\ plan.drift = {}
            /\ stamp \in [Class -> {Absent, Pending} \cup (Class \X Content \X (0..env))]
    BY WantContent DEF Typed, EdgeTypeOK, Known, StampInv, Stamps
  <1>values. /\ Absent # Pending /\ Other \notin Content
             /\ {Absent, Pending} \cap (Class \X (Content \cup {Other}) \X Nat) = {}
    BY StampAssumption, ContentAssumption
  <1>now. \A k \in Class : HostNow(k) \in Class \X (Content \cup {Other}) \X Nat
    BY <1>types DEF HostNow, Fingerprint
  <1> USE <1>types, <1>values, <1>now DEF Move, vars, play, files, services, owner, edge
  (* The play comes to its end and changes nothing else. *)
  <1>0. ASSUME Over, UNCHANGED <<files, services, env>> PROVE StampInv'
    <2>1. (Loads /\ Stamps /\ Trusted /\ Kept)'
      BY <1>0 DEF StampInv, Loads, Stamps, Trusted, Kept, Current, HostNow
    <2>2. (Planned /\ Acted)'
      BY <1>0 DEF Over, NoPlay, Planned, Acted, Marking, Locked
    <2> QED BY <2>1, <2>2 DEF StampInv
  <1>1. ASSUME NEW w \in Version, Begin(w) PROVE StampInv'
    <2>1. (Loads /\ Stamps /\ Trusted /\ Kept)'
      BY <1>1 DEF Begin, StampInv, Loads, Stamps, Trusted, Kept, Current, HostNow
    <2>2. Planned'
      BY <1>1 DEF Begin, Decide, Gate, Planned, Marking, Locked, Class
    <2>3. Acted'
      BY <1>1 DEF Begin, StampInv, Acted
    <2> QED BY <2>1, <2>2, <2>3 DEF StampInv
  (* A step of the play that changes neither the files nor the services. *)
  <1>2. CASE ValidateSkipped \/ Validate
    <2>1. /\ at = "validate" /\ at' = "mark"
          /\ UNCHANGED <<want, plan, secrets, done, files, services, env, unit>>
      BY <1>2 DEF ValidateSkipped, Validate
    <2>2. (Loads /\ Stamps /\ Trusted /\ Kept)'
      BY <2>1 DEF StampInv, Loads, Stamps, Trusted, Kept, Current, HostNow
    <2>3. (Planned /\ Acted)'
      BY <2>1 DEF StampInv, Planned, Acted, Marking, Acting, Locked, Fresh, HostNow
    <2> QED BY <2>2, <2>3 DEF StampInv
  <1>3. CASE Refuse
    BY <1>0, <1>3 DEF Refuse
  <1>4. CASE Mark
    <2>1. (Loads /\ Stamps)'
      BY <1>4 DEF Mark, StampInv, Loads, Stamps
    <2>2. (Trusted /\ Kept)'
      BY <1>4 DEF Mark, StampInv, Trusted, Kept, Current, HostNow
    <2>3. Planned'
      BY <1>4 DEF Mark, Marked, StampInv, Planned, Marking, Locked
    <2>4. Acted'
      BY <1>4 DEF Mark, StampInv, Acted, Acting
    <2> QED BY <2>1, <2>2, <2>3, <2>4 DEF StampInv
  (* A play places only what it has marked. *)
  <1>5. ASSUME NEW k \in Class, stamp[k] = Pending, UNCHANGED <<stamp, loaded, reading, env>>,
               file' \in [Class -> Content \cup {Other}], \A j \in Class \ {k} : file'[j] = file[j]
        PROVE  (Loads /\ Stamps /\ Trusted /\ Kept)'
    BY <1>5 DEF StampInv, Loads, Stamps, Trusted, Kept, Current, HostNow, Fingerprint, Class
  <1>6. CASE PlaceCompose
    <2>1. (Loads /\ Stamps /\ Trusted /\ Kept)'
      <3>1. CASE "compose" \in plan.drift
        <4>1. stamp["compose"] = Pending
          BY <1>6, <3>1 DEF PlaceCompose, StampInv, Planned, Marking
        <4> QED BY <1>5, <1>6, <3>1, <4>1 DEF PlaceCompose, Class
      <3>2. CASE "compose" \notin plan.drift
        BY <1>6, <3>2 DEF PlaceCompose, StampInv, Loads, Stamps, Trusted, Kept, Current, HostNow
      <3> QED BY <3>1, <3>2
    <2>2. Planned'
      BY <1>6 DEF PlaceCompose, StampInv, Planned, Marking, Locked, Class
    <2>3. Acted'
      BY <1>6 DEF PlaceCompose, StampInv, Acted, Acting
    <2> QED BY <2>1, <2>2, <2>3 DEF StampInv
  <1>7. CASE PlaceCrowdsec
    <2>1. (Loads /\ Stamps /\ Trusted /\ Kept)'
      <3>1. CASE "crowdsec" \in plan.drift
        <4>1. stamp["crowdsec"] = Pending
          BY <1>7, <3>1 DEF PlaceCrowdsec, StampInv, Planned, Marking
        <4> QED BY <1>5, <1>7, <3>1, <4>1 DEF PlaceCrowdsec, Class
      <3>2. CASE "crowdsec" \notin plan.drift
        <4>1. UNCHANGED file
          BY <1>7, <3>2 DEF PlaceCrowdsec, StampInv, Planned
        <4> QED BY <1>7, <4>1
                DEF PlaceCrowdsec, StampInv, Loads, Stamps, Trusted, Kept, Current, HostNow
      <3> QED BY <3>1, <3>2
    <2>2. Planned'
      BY <1>7 DEF PlaceCrowdsec, StampInv, Planned, Marking, Locked, Class
    <2>3. Acted'
      BY <1>7 DEF PlaceCrowdsec, StampInv, Acted, Acting
    <2> QED BY <2>1, <2>2, <2>3 DEF StampInv
  <1>8. CASE Apply \/ ApplySkipped
    <2>1. /\ at = "apply" /\ at' \in {"write", "unlock", "adopt"}
          /\ UNCHANGED <<want, plan, secrets, done, files, services, env, unit>>
      BY <1>8 DEF Apply, ApplySkipped
    <2>2. (Loads /\ Stamps /\ Trusted /\ Kept)'
      BY <2>1 DEF StampInv, Loads, Stamps, Trusted, Kept, Current, HostNow
    <2>3. (Planned /\ Acted)'
      BY <2>1 DEF StampInv, Planned, Acted, Marking, Acting, Locked, Fresh, HostNow
    <2> QED BY <2>2, <2>3 DEF StampInv
  <1>9. CASE WriteCaddyfile
    <2>1. (Loads /\ Stamps /\ Trusted /\ Kept)'
      <3>1. CASE "caddy" \in plan.drift
        <4>1. stamp["caddy"] = Pending
          BY <1>9, <3>1 DEF WriteCaddyfile, StampInv, Planned, Marking, Locked
        <4> QED BY <1>5, <1>9, <3>1, <4>1 DEF WriteCaddyfile, Class
      <3>2. CASE "caddy" \notin plan.drift
        <4>1. UNCHANGED file
          BY <1>9, <3>2 DEF WriteCaddyfile, Typed, Known
        <4> QED BY <1>9, <4>1
                DEF WriteCaddyfile, StampInv, Loads, Stamps, Trusted, Kept, Current, HostNow
      <3> QED BY <3>1, <3>2
    <2>2. Planned'
      BY <1>9 DEF WriteCaddyfile, StampInv, Planned, Marking, Locked
    <2>3. Acted'
      BY <1>9 DEF WriteCaddyfile, StampInv, Acted, Acting
    <2> QED BY <2>1, <2>2, <2>3 DEF StampInv
  <1>10. CASE UnitRestart
    <2>1. /\ at = "unit" /\ at' \in {"restarting", "bouncer"} /\ reading' \in {reading, None}
          /\ at' = "restarting" => reading' = None /\ unit' \notin {"starting", "active"}
          /\ UNCHANGED <<want, plan, secrets, done, files, loaded, env>>
      BY <1>10 DEF UnitRestart, Start
    <2>2. (Loads /\ Stamps /\ Trusted /\ Kept)'
      BY <2>1 DEF StampInv, Loads, Stamps, Trusted, Kept, Current, HostNow
    <2>3. Planned'
      BY <2>1 DEF StampInv, Planned, Marking, Locked
    <2>4. Acted'
      BY <2>1 DEF StampInv, Acted, Acting
    <2> QED BY <2>2, <2>3, <2>4 DEF StampInv
  <1>11. CASE UnitRestarted
    <2>1. /\ at = "restarting" /\ at' \in {"bouncer", "unlock"}
          /\ done' = done \/ (unit = "active" /\ done' = done \cup {"compose"})
          /\ UNCHANGED <<want, plan, secrets, files, services, env, unit>>
      BY <1>11 DEF UnitRestarted
    <2>2. (Loads /\ Stamps /\ Trusted /\ Kept)'
      BY <2>1 DEF StampInv, Loads, Stamps, Trusted, Kept, Current, HostNow
    <2>3. Planned'
      BY <2>1 DEF StampInv, Planned, Marking, Locked
    <2>4. Acted'
      BY <2>1 DEF StampInv, Acted, Acting, Fresh, HostNow
    <2> QED BY <2>2, <2>3, <2>4 DEF StampInv
  (* A container that reads its files has what is on the host. *)
  <1>12. ASSUME NEW k \in Class \ {"compose"}, loaded' = [loaded EXCEPT ![k] = HostNow(k)],
                UNCHANGED <<files, reading, env>>
         PROVE  (Loads /\ Stamps /\ Trusted /\ Kept)'
    <2>1. HostNow(k)' = HostNow(k) /\ \A j \in Class : HostNow(j)' = HostNow(j)
      BY <1>12 DEF HostNow
    <2>2. (Loads /\ Stamps)'
      BY <1>12 DEF StampInv, Loads, Stamps
    <2>3. (Trusted /\ Kept)'
      BY <1>12, <2>1 DEF StampInv, Loads, Trusted, Kept, Current
    <2> QED BY <2>2, <2>3
  <1>13. CASE RestartCrowdsec \/ ReloadCaddy
    <2>1. PICK k \in {"crowdsec", "caddy"} :
            /\ at \in {"bouncer", "reload"} /\ at' \in {"reload", "unlock"}
            /\ \/ k \in plan.due /\ loaded' = [loaded EXCEPT ![k] = HostNow(k)] /\ done' = done \cup {k}
               \/ UNCHANGED <<done, loaded>>
            /\ UNCHANGED <<want, plan, secrets, files, reading, env, unit>>
      BY <1>13 DEF RestartCrowdsec, ReloadCaddy, Act
    <2>2. (Loads /\ Stamps /\ Trusted /\ Kept)'
      <3>1. CASE UNCHANGED loaded
        BY <2>1, <3>1 DEF StampInv, Loads, Stamps, Trusted, Kept, Current, HostNow
      <3>2. CASE loaded' = [loaded EXCEPT ![k] = HostNow(k)]
        BY <1>12, <2>1, <3>2 DEF Class
      <3> QED BY <2>1, <3>1, <3>2
    <2>3. Planned'
      BY <2>1 DEF StampInv, Planned, Marking, Locked
    <2>4. Acted'
      <3>1. /\ \A j \in Class : HostNow(j)' = HostNow(j)
            /\ \A x : Fresh(x)' <=> Fresh(x)
        BY <2>1 DEF HostNow, Fresh
      <3>2. /\ loaded' \in [Class -> {None} \cup (Class \X (Content \cup {Other}) \X Nat)]
            /\ \A j \in Class \ {k} : loaded'[j] = loaded[j]
            /\ done' # done => loaded'[k] = HostNow(k)
            /\ loaded' # loaded => loaded'[k] = HostNow(k)
        BY <2>1 DEF StampInv, Loads, Class
      <3>3. ASSUME NEW j \in done' \ {"compose"} PROVE loaded'[j] = HostNow(j)
        <4>1. j \in Class /\ k \in Class
          BY <2>1 DEF Class
        <4>2. CASE j = k
          BY <3>2, <4>2, <2>1 DEF StampInv, Acted
        <4>3. CASE j # k
          BY <2>1, <3>2, <4>1, <4>3 DEF StampInv, Acted
        <4> QED BY <4>2, <4>3
      <3>4. \A j \in done' \ {"compose"} : loaded'[j] = HostNow(j)'
        BY <2>1, <3>1, <3>3
      <3>5. "compose" \in done' =>
              /\ Fresh(loaded["compose"])'
              /\ Fresh(reading)' \/ (reading' = None /\ unit' # "starting")
        BY <2>1, <3>2 DEF StampInv, Acted, Class, Fresh, HostNow
      <3>6. at' \in Acting /\ at' # "restarting"
        BY <2>1 DEF Acting
      <3> QED BY <3>4, <3>5, <3>6 DEF Acted
    <2> QED BY <2>2, <2>3, <2>4 DEF StampInv
  <1>14. CASE Unlock
    <2>1. /\ at = "unlock" /\ at' = "adopt"
          /\ UNCHANGED <<want, plan, secrets, done, files, services, env, unit>>
      BY <1>14 DEF Unlock
    <2>2. (Loads /\ Stamps /\ Trusted /\ Kept)'
      BY <2>1 DEF StampInv, Loads, Stamps, Trusted, Kept, Current, HostNow
    <2>3. (Planned /\ Acted)'
      BY <2>1 DEF StampInv, Planned, Acted, Marking, Acting, Locked, Fresh, HostNow
    <2> QED BY <2>2, <2>3 DEF StampInv
  (* The fingerprints a play writes are of what it wanted. *)
  <1>15. ASSUME NEW ks \in SUBSET Class, at # "idle", Stamped(ks), UNCHANGED <<file, services, env>>,
                \A k \in ks : Fingerprint(k, want[k], secrets) = HostNow(k) => Current(k)
         PROVE  (Loads /\ Stamps /\ Trusted /\ Kept)'
    <2>1. \A k \in Class : Fingerprint(k, want[k], secrets) \in Class \X Content \X (0..env)
      BY <1>15 DEF Fingerprint
    <2>2. (Loads /\ Stamps)'
      BY <1>15, <2>1 DEF Stamped, StampInv, Loads, Stamps
    <2>3. \A k \in Class : (HostNow(k)' = HostNow(k)) /\ (Current(k)' <=> Current(k))
      BY <1>15 DEF HostNow, Current
    <2>4. \A k \in ks : Fingerprint(k, want[k], secrets) # Absent
      BY <2>1
    <2>5. (Trusted /\ Kept)'
      BY <1>15, <2>3, <2>4 DEF Stamped, StampInv, Trusted, Kept
    <2> QED BY <2>2, <2>5
  <1>16. CASE Adopt
    <2>1. \A k \in plan.adopt : Fingerprint(k, want[k], secrets) = HostNow(k) => Current(k)
      <3> SUFFICES ASSUME NEW k \in plan.adopt, Fingerprint(k, want[k], secrets) = HostNow(k)
                   PROVE  Current(k)
        OBVIOUS
      <3>1. file[k] # Other
        BY <1>16 DEF Adopt, HostNow, Fingerprint
      <3>2. stamp[k] = Absent
        BY <1>16 DEF Adopt, StampInv, Planned
      <3> QED BY <3>1, <3>2 DEF StampInv, Trusted
    <2>2. (Loads /\ Stamps /\ Trusted /\ Kept)'
      BY <1>15, <1>16, <2>1 DEF Adopt
    <2>3. Planned'
      BY <1>16 DEF Adopt, Stamped, StampInv, Planned, Marking
    <2>4. Acted'
      BY <1>16 DEF Adopt, StampInv, Acted, Acting, Fresh, HostNow
    <2> QED BY <2>2, <2>3, <2>4 DEF StampInv
  <1>17. CASE Record
    <2>1. \A k \in done : Fingerprint(k, want[k], secrets) = HostNow(k) => Current(k)
      <3> SUFFICES ASSUME NEW k \in done, Fingerprint(k, want[k], secrets) = HostNow(k)
                   PROVE  Current(k)
        OBVIOUS
      <3>1. CASE k # "compose"
        BY <3>1 DEF StampInv, Acted, Current
      <3>2. CASE k = "compose"
        <4>1. env = secrets
          BY <3>2 DEF HostNow, Fingerprint
        <4> QED BY <3>2, <4>1 DEF StampInv, Acted, Fresh, Current
      <3> QED BY <3>1, <3>2
    <2>2. (Loads /\ Stamps /\ Trusted /\ Kept)'
      BY <1>15, <1>17, <2>1 DEF Record
    <2>3. (Planned /\ Acted)'
      BY <1>17 DEF Record, Over, NoPlay, Planned, Acted, Marking, Locked
    <2> QED BY <2>2, <2>3 DEF StampInv
  <1>18. CASE TaskFails
    BY <1>0, <1>18 DEF TaskFails
  <1>19. CASE ScriptFails
    <2>1. (Loads /\ Stamps /\ Trusted /\ Kept)'
      <3>1. CASE UNCHANGED loaded
        BY <1>19, <3>1 DEF ScriptFails, StampInv, Loads, Stamps, Trusted, Kept, Current, HostNow
      <3>2. CASE \E k \in plan.due : k # "compose" /\ loaded' = [loaded EXCEPT ![k] = HostNow(k)]
        BY <1>12, <1>19, <3>2 DEF ScriptFails
      <3> QED BY <1>19, <3>1, <3>2 DEF ScriptFails
    <2>2. Planned'
      BY <1>19 DEF ScriptFails, StampInv, Planned, Marking, Locked
    <2>3. Acted'
      BY <1>19 DEF ScriptFails, StampInv, Loads, Acted, Acting, Fresh, HostNow, Class
    <2> QED BY <2>1, <2>2, <2>3 DEF StampInv
  <1>20. CASE Die
    BY <1>0, <1>20 DEF Die
  (* The host and the deploys: a service reads what is on the host, or what    *)
  (* the `up` has read.                                                        *)
  <1>21. ASSUME NEW ks \in SUBSET Class, Read(ks), UNCHANGED <<files, env>>, reading' \in {reading, None}
         PROVE  (Loads /\ Stamps /\ Trusted /\ Kept)'
    <2>1. \A k \in Class : HostNow(k)' = HostNow(k)
      BY <1>21 DEF HostNow
    <2>2. (Loads /\ Stamps)'
      BY <1>21 DEF Read, StampInv, Loads, Stamps
    <2>3. \A k \in Class : Current(k) => Current(k)'
      BY <1>21, <2>1 DEF Read, Current
    <2>4. (Trusted /\ Kept)'
      BY <1>21, <2>1, <2>3 DEF StampInv, Trusted, Kept
    <2> QED BY <2>2, <2>4
  <1>22. ASSUME UNCHANGED <<at, plan, want, file, stamp>> PROVE Planned'
    BY <1>22 DEF StampInv, Planned, Marking, Locked
  <1>23. CASE EdgeUnit
    <2>0. /\ Planned'
          /\ UNCHANGED <<at, plan, want, secrets, done, files, env>>
      BY <1>22, <1>23 DEF EdgeUnit
    <2>1. \A j \in Class : HostNow(j)' = HostNow(j)
      BY <2>0 DEF HostNow
    <2>2. \A x : Fresh(x)' <=> Fresh(x)
      BY <2>0 DEF Fresh, HostNow
    <2>3. CASE PullEnds /\ reading' = HostNow("compose") /\ UNCHANGED loaded
      <3>1. (Loads /\ Stamps)'
        BY <2>0, <2>3 DEF StampInv, Loads, Stamps, Class
      <3>2. \A k \in Class : Current(k) => Current(k)'
        BY <2>1, <2>3 DEF Current, Class
      <3>3. (Trusted /\ Kept)'
        BY <2>0, <2>1, <3>2 DEF StampInv, Trusted, Kept
      <3>4. Acted'
        BY <2>0, <2>3 DEF StampInv, Acted, Fresh, HostNow, PullEnds
      <3> QED BY <2>0, <3>1, <3>3, <3>4 DEF StampInv
    <2>4. CASE PullFails /\ UNCHANGED services
      <3>1. (Loads /\ Stamps /\ Trusted /\ Kept)'
        BY <2>0, <2>4 DEF StampInv, Loads, Stamps, Trusted, Kept, Current, HostNow
      <3>2. Acted'
        BY <2>0, <2>4 DEF StampInv, Acted, Fresh, HostNow, PullFails
      <3> QED BY <2>0, <3>1, <3>2 DEF StampInv
    <2>5. CASE /\ UpSucceeds \/ UpFails
               /\ reading' = None
               /\ \E ks \in SUBSET Class : (UpSucceeds => "compose" \in ks) /\ Read(ks)
      <3>1. PICK ks \in SUBSET Class : (UpSucceeds => "compose" \in ks) /\ Read(ks)
        BY <2>5
      <3>2. (Loads /\ Stamps /\ Trusted /\ Kept)'
        BY <1>21, <2>0, <2>5, <3>1
      <3>3. unit = "starting" /\ unit' \in {"active", "failed"} /\ (UpFails => unit' = "failed")
        BY <2>5 DEF UpSucceeds, UpFails
      <3>4. loaded'["compose"] \in {reading, loaded["compose"]}
            /\ (unit' = "active" => loaded'["compose"] = reading)
        BY <2>5, <3>1, <3>3 DEF Read, Class
      <3>5. \A j \in done \ {"compose"} : loaded'[j] = HostNow(j)'
        <4> SUFFICES ASSUME NEW j \in done \ {"compose"} PROVE loaded'[j] = HostNow(j)
          BY <2>1
        <4>1. loaded'[j] \in {loaded[j], HostNow(j)}
          BY <3>1 DEF Read
        <4> QED BY <4>1 DEF StampInv, Acted
      <3>6. Acted'
        BY <2>0, <2>2, <2>5, <3>3, <3>4, <3>5 DEF StampInv, Acted
      <3> QED BY <2>0, <3>2, <3>6 DEF StampInv
    <2>6. CASE UpSucceeds /\ reading' = None
               /\ \E ks \in SUBSET Class : {"compose"} \cup Unstarted \subseteq ks /\ Read(ks)
      <3>1. PICK ks \in SUBSET Class : {"compose"} \cup Unstarted \subseteq ks /\ Read(ks)
        BY <2>6
      <3>2. "compose" \in ks
        BY <3>1
      <3> QED BY <2>5, <2>6, <3>1, <3>2
    <2>7. CASE UpFails /\ reading' = None /\ \E ks \in SUBSET Class : Read(ks)
      <3>1. ~UpSucceeds
        BY <2>7 DEF UpSucceeds, UpFails
      <3> QED BY <2>5, <2>7, <3>1
    <2> QED BY <1>23, <2>3, <2>4, <2>6, <2>7 DEF EdgeUnit
  <1>24. CASE EdgeRetry
    <2>1. /\ UNCHANGED <<at, plan, want, secrets, done, files, services, env>>
          /\ at # "restarting" /\ unit' \notin {"starting", "active"}
      BY <1>24 DEF EdgeRetry, Retry, Start
    <2>2. (Loads /\ Stamps /\ Trusted /\ Kept)'
      BY <2>1 DEF StampInv, Loads, Stamps, Trusted, Kept, Current, HostNow
    <2>3. Acted'
      BY <2>1 DEF StampInv, Acted, Fresh, HostNow
    <2> QED BY <1>22, <2>1, <2>2, <2>3 DEF StampInv
  <1>25. CASE EdgeDeploy
    <2>1. /\ UNCHANGED <<at, plan, want, secrets, done, files, loaded, env>>
          /\ reading' \in {reading, None} /\ (unit' = "starting" => unit = "starting" /\ reading' = reading)
      BY <1>25 DEF EdgeDeploy, DeployStep, Take, Give, MovePin, Restart, Start
    <2>2. at # "restarting"
      BY <1>25, HolderAssumption DEF EdgeDeploy, DeployStep, Take, LockFree, Give, MovePin, Restart, PinHeld,
                                     AppliedAsValidated, Locked
    <2>3. (Loads /\ Stamps /\ Trusted /\ Kept)'
      BY <2>1 DEF StampInv, Loads, Stamps, Trusted, Kept, Current, HostNow
    <2>4. Acted'
      BY <2>1, <2>2 DEF StampInv, Acted, Fresh, HostNow
    <2> QED BY <1>22, <2>1, <2>3, <2>4 DEF StampInv
  <1>26. CASE Flap
    <2>1. PICK k \in {"caddy", "crowdsec"} : Read({k})
      BY <1>26 DEF Flap
    <2>2. /\ UNCHANGED <<at, plan, want, secrets, done, files, reading, env, unit>>
          /\ \A j \in Class : HostNow(j)' = HostNow(j)
      BY <1>26 DEF Flap, HostNow
    <2>3. (Loads /\ Stamps /\ Trusted /\ Kept)'
      BY <1>21, <2>1, <2>2 DEF Class
    <2>4. \A j \in done \ {"compose"} : loaded'[j] = HostNow(j)'
      <3> SUFFICES ASSUME NEW j \in done \ {"compose"} PROVE loaded'[j] = HostNow(j)
        BY <2>2
      <3>1. loaded'[j] \in {loaded[j], HostNow(j)}
        BY <2>1 DEF Read
      <3> QED BY <3>1 DEF StampInv, Acted
    <2>5. loaded'["compose"] = loaded["compose"]
      BY <2>1 DEF Read, Class
    <2>6. Acted'
      BY <2>2, <2>4, <2>5 DEF StampInv, Acted, Fresh, HostNow
    <2> QED BY <1>22, <2>2, <2>3, <2>6 DEF StampInv
  <1>27. CASE EdgeReboot
    <2>1. (Loads /\ Stamps /\ Trusted /\ Kept)'
      BY <1>27 DEF EdgeReboot, StampInv, Loads, Stamps, Trusted, Kept, Current, HostNow
    <2>2. (Planned /\ Acted)'
      BY <1>27 DEF EdgeReboot, Over, NoPlay, Planned, Acted, Marking, Locked
    <2> QED BY <2>1, <2>2 DEF StampInv
  <1>28. ASSUME NEW k \in Class, HandEdit(k) PROVE StampInv'
    <2>1. (Loads /\ Stamps)'
      BY <1>28 DEF HandEdit, StampInv, Loads, Stamps
    <2>2. \A j \in Class \ {k} : (HostNow(j)' = HostNow(j)) /\ (Current(j)' <=> Current(j)) /\ file'[j] = file[j]
      BY <1>28 DEF HandEdit, HostNow, Current
    <2>3. file'[k] = Other /\ stamp[k] # HostNow(k)'
      BY <1>28 DEF HandEdit, HostNow, Fingerprint
    <2>4. (Trusted /\ Kept)'
      BY <1>28, <2>2, <2>3 DEF HandEdit, StampInv, Trusted, Kept
    <2>5. (Planned /\ Acted)'
      BY <1>28 DEF HandEdit, StampInv, Planned, Acted, Marking, Acting, Locked
    <2> QED BY <2>1, <2>4, <2>5 DEF StampInv
  <1>29. CASE Rotate
    <2>1. (Loads /\ Stamps)'
      <3>1. 0..env \subseteq 0..env'
        BY <1>29 DEF Rotate
      <3> QED BY <1>29, <3>1 DEF Rotate, StampInv, Loads, Stamps
    <2>2. \A j \in Class \ {"compose"} : (HostNow(j)' = HostNow(j)) /\ (Current(j)' <=> Current(j))
      BY <1>29 DEF Rotate, HostNow, Fingerprint, Current
    <2>3. stamp["compose"] # Absent /\ stamp["compose"] # HostNow("compose")'
      <3>1. env + 1 \notin 0..env
        OBVIOUS
      <3>2. stamp["compose"] \in {Absent, Pending} \cup (Class \X Content \X (0..env))
        BY DEF Class
      <3> QED BY <1>29, <3>1, <3>2 DEF Rotate, HostNow, Fingerprint, Class
    <2>4. (Trusted /\ Kept)'
      BY <1>29, <2>2, <2>3 DEF Rotate, StampInv, Trusted, Kept
    <2>5. env' # secrets'
      BY <1>29 DEF Rotate
    <2>6. Acted'
      BY <1>29, <2>2, <2>5 DEF Rotate, StampInv, Acted, Fresh
    <2> QED BY <1>22, <1>29, <2>1, <2>4, <2>6 DEF Rotate, StampInv
  <1>30. CASE Enable \/ UNCHANGED allVars
    <2>1. UNCHANGED <<at, plan, want, secrets, done, files, services, env, unit>>
      BY <1>30 DEF Enable, allVars
    <2>2. (Loads /\ Stamps /\ Trusted /\ Kept)'
      BY <2>1 DEF StampInv, Loads, Stamps, Trusted, Kept, Current, HostNow
    <2>3. Acted'
      BY <2>1 DEF StampInv, Acted, Fresh, HostNow
    <2> QED BY <1>22, <2>1, <2>2, <2>3 DEF StampInv
  <1> QED
    BY <1>1, <1>2, <1>3, <1>4, <1>6, <1>7, <1>8, <1>9, <1>10, <1>11, <1>13, <1>14, <1>16, <1>17,
       <1>18, <1>19, <1>20, <1>23, <1>24, <1>25, <1>26, <1>27, <1>28, <1>29, <1>30
    DEF EdgeNext, PlayStep

(* A class is never taken for done when it is not: a stamp that is what is   *)
(* on the host means that a service that has started runs with exactly that, *)
(* whichever plays died, failed or were refused, however often the unit was  *)
(* restarted or edge.env rotated, and whatever was edited by hand between.   *)
THEOREM DoneIsDone == EdgeSpec => []NeverForgotten
  <1>1. StampInv => NeverForgotten
    BY DEF StampInv, Kept, Current, NeverForgotten
  <1> QED BY InitTyped, StepTyped, InitPin, StepPin, InitStamp, StepStamp, <1>1, PTL DEF EdgeSpec
===============================================================================
