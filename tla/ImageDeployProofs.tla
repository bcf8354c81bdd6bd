--------------------------- MODULE ImageDeployProofs ---------------------------
(***************************************************************************)
(* Proofs about ImageDeploy, for every value of its constants.             *)
(***************************************************************************)
EXTENDS ImageDeploy, TLAPS

(* A deploy that is under way knows its image, and an `up` knows what it     *)
(* runs on.                                                                  *)
Known ==
  /\ \A p \in Deployer : pc[p] # "idle" => asked[p] \in Image
  /\ unit.state = "starting" => unit.image \in Image

Typed == TypeOK /\ Known

(* A deploy that works on the host knows what is pinned: before its write,   *)
(* what it found; after it, its own image; after the write of the rollback,  *)
(* what it found again.  It gives up the pin only when it found none.        *)
PinKnown ==
  \A p \in Deployer :
    /\ pc[p] = "write" => pin = previous[p]
    /\ pc[p] \in Undecided => pin = asked[p]
    /\ pc[p] \in {"restart again", "restarting again"} => pin = previous[p]
    /\ pc[p] = "unpin" => previous[p] = None

(* The start a deploy waits for reads the pin of that deploy.                *)
Started(i) ==
  /\ unit.state \in {"starting", "active"} => unit.image = i
  /\ unit.state = "active" => container.image = i

StartKnown ==
  \A p \in Deployer : pc[p] \in {"restarting", "restarting again"} => Started(pin)

(* Between a write of the pin and the restart after it the unit may be on    *)
(* the pin before; at any other time it is on the pin, or off.               *)
Changing == {"restart", "restart again"}
UnitKnown ==
  kills = 0 =>
    /\ (\A p \in Deployer : pc[p] \notin Changing) /\ unit.state \in {"starting", "active"}
         => unit.image = pin
    /\ \A p \in Deployer : pc[p] = "unpin" => unit.state \in {"inactive", "failed", "limited"}
-----------------------------------------------------------------------------
(* Types.                                                                    *)

LEMMA InitTyped == Init => Typed
  BY CountAssumption DEF Init, Typed, TypeOK, Known, Label, Held, Result, UnitState

(* A start keeps the count of starts within the limit.                       *)
LEMMA BeginStartTyped ==
  ASSUME Typed, BeginStart
  PROVE  /\ unit' \in [state: UnitState, image: Image \cup {None}] /\ starts' \in 0..Burst
         /\ unit'.image = unit.image
         /\ unit'.state \in {"inactive", "limited", "pulling"}
         /\ pin = None => unit'.state = "inactive"
  <1>1. /\ unit \in [state: UnitState, image: Image \cup {None}] /\ starts \in 0..Burst
        /\ Burst \in Nat
    BY CountAssumption DEF Typed, TypeOK
  <1>2. CASE pin = None
    BY <1>1, <1>2 DEF BeginStart, UnitState
  <1>3. CASE pin # None
    BY <1>1, <1>3 DEF BeginStart, UnitState
  <1> QED BY <1>2, <1>3

LEMMA CountsStep ==
  /\ 0 \in 0..Burst /\ 1 \in 0..Burst
  /\ \A k \in 0..MaxKills : k < MaxKills => k + 1 \in 0..MaxKills
  BY CountAssumption

LEMMA StepTyped == Typed /\ [Next]_vars => Typed'
  <1> SUFFICES ASSUME Typed, [Next]_vars PROVE Typed'
    OBVIOUS
  <1>0. /\ unit \in [state: UnitState, image: Image \cup {None}]
        /\ container \in [image: Image \cup {None}, up: BOOLEAN]
        /\ starts \in 0..Burst /\ kills \in 0..MaxKills
        /\ Burst \in Nat /\ MaxKills \in Nat
    BY CountAssumption DEF Typed, TypeOK
  <1> USE DEF Typed, TypeOK, Known, Label, Held, Result, deployer, service, Goto, Conclude
  <1>1. CASE UnitStep
    <2>1. ASSUME NEW s \in {"failed", "active"}, unit' = [unit EXCEPT !.state = s]
          PROVE  /\ unit' \in [state: UnitState, image: Image \cup {None}]
                 /\ unit'.state # "starting"
      BY <1>0, <2>1 DEF UnitState
    <2>2. CASE PullEnds
      BY <2>2 DEF PullEnds, UnitState
    <2>3. CASE PullFails
      BY <2>1, <2>3 DEF PullFails
    <2>4. CASE UpSucceeds
      BY <2>1, <2>4 DEF UpSucceeds
    <2>5. CASE UpFails
      <3>1. container' \in [image: Image \cup {None}, up: BOOLEAN]
        <4>1. CASE UNCHANGED container
          BY <4>1
        <4>2. ASSUME NEW up \in BOOLEAN, container' = [image |-> unit.image, up |-> up]
              PROVE  container' \in [image: Image \cup {None}, up: BOOLEAN]
          BY <1>0, <4>2
        <4> QED BY <2>5, <4>1, <4>2 DEF UpFails
      <3> QED BY <2>1, <2>5, <3>1 DEF UpFails
    <2> QED BY <1>1, <2>2, <2>3, <2>4, <2>5 DEF UnitStep
  <1>2. ASSUME NEW p \in Deployer, NEW i \in Image, Ask(p, i) PROVE Typed'
    BY <1>2 DEF Ask
  <1>3. ASSUME NEW p \in Deployer, Kill(p) PROVE Typed'
    <2>1. kills' \in 0..MaxKills
      BY <1>3, CountsStep DEF Kill
    <2> QED BY <1>3, <2>1 DEF Kill, Forget
  <1>4. CASE Retry
    BY <1>4, BeginStartTyped DEF Retry
  <1>5. CASE IntervalPasses
    <2>1. starts' \in 0..Burst
      BY <1>5, CountsStep DEF IntervalPasses
    <2> QED BY <1>5, <2>1 DEF IntervalPasses
  <1>6. CASE ContainerFlaps
    <2>1. container' \in [image: Image \cup {None}, up: BOOLEAN]
      BY <1>0, <1>6 DEF ContainerFlaps
    <2> QED BY <1>6, <2>1 DEF ContainerFlaps
  <1>7. CASE Reboot
    <2>1. starts' \in 0..Burst /\ kills' \in 0..MaxKills
      BY <1>7, CountsStep DEF Reboot
    <2>2. /\ unit' \in [state: UnitState, image: Image \cup {None}]
          /\ unit'.state # "starting"
      BY <1>0, <1>7 DEF Reboot, UnitState
    <2>3. container' \in [image: Image \cup {None}, up: BOOLEAN]
      BY <1>0, <1>7 DEF Reboot
    <2> QED BY <1>7, <2>1, <2>2, <2>3 DEF Reboot
  <1>8. ASSUME NEW p \in Deployer, Step(p) PROVE Typed'
    <2>1. CASE Acquire(p)
      BY <2>1 DEF Acquire
    <2>2. CASE WaitTimesOut(p)
      BY <2>2 DEF WaitTimesOut
    <2>3. CASE ReadCurrentImage(p)
      BY <2>3 DEF ReadCurrentImage
    <2>4. CASE WriteImageEnv(p)
      BY <2>4 DEF WriteImageEnv
    <2>5. CASE WriteFails(p)
      BY <2>5 DEF WriteFails
    <2>6. CASE Restart(p) \/ RestartAgain(p)
      BY <2>6, BeginStartTyped DEF Restart, RestartAgain
    <2>7. CASE Deployed(p) \/ RemovePin(p)
      BY <2>7 DEF Deployed, RemovePin
    <2>8. CASE RestartFails(p)
      BY <2>8 DEF RestartFails, AfterFailure
    <2>9. CASE LeavePin(p)
      <3>1. PICK r \in {"left", "unknown", "error"} : Conclude(p, r, "release")
        BY <2>9 DEF LeavePin
      <3> QED BY <2>9, <3>1 DEF LeavePin
    <2>10. CASE JudgeDown(p)
      BY <2>10 DEF JudgeDown
    <2>13. CASE WritePrevious(p)
      BY <2>13 DEF WritePrevious
    <2>11. CASE RolledBack(p)
      BY <2>11 DEF RolledBack
    <2>12. CASE Release(p)
      BY <2>12 DEF Release, Forget
    <2> QED BY <1>8, <2>1, <2>2, <2>3, <2>4, <2>5, <2>6, <2>7, <2>8, <2>9, <2>10, <2>11, <2>12,
            <2>13 DEF Step
  <1>9. CASE UNCHANGED vars
    BY <1>9 DEF vars
  <1> QED BY <1>1, <1>2, <1>3, <1>4, <1>5, <1>6, <1>7, <1>8, <1>9 DEF Next, Environment

(* Every variable keeps its type in every reachable state.                   *)
THEOREM TypeCorrect == Spec => []TypeOK
  <1>1. Typed => TypeOK
    BY DEF Typed
  <1> QED BY InitTyped, StepTyped, <1>1, PTL DEF Spec
-----------------------------------------------------------------------------
(* The lock, and what its holder knows of the pin.                           *)

(* A step of one process leaves the others where they are.                   *)
LEMMA StepAlone ==
  ASSUME Typed, NEW p \in Deployer, Step(p), NEW q \in Deployer \ {p}
  PROVE  /\ pc'[q] = pc[q] /\ asked'[q] = asked[q]
         /\ previous'[q] = previous[q] /\ result'[q] = result[q]
  <1>0. /\ pc \in [Deployer -> Label]
        /\ asked \in [Deployer -> Image \cup {None}]
        /\ previous \in [Deployer -> Image \cup {None}]
        /\ result \in [Deployer -> Result]
    BY DEF Typed, TypeOK
  <1> USE DEF Goto, Conclude
  <1>1. CASE Acquire(p) \/ WaitTimesOut(p)
    BY <1>0, <1>1 DEF Acquire, WaitTimesOut
  <1>2. CASE ReadCurrentImage(p) \/ WriteImageEnv(p) \/ WriteFails(p)
    BY <1>0, <1>2 DEF ReadCurrentImage, WriteImageEnv, WriteFails
  <1>3. CASE Restart(p) \/ RestartAgain(p)
    BY <1>0, <1>3 DEF Restart, RestartAgain
  <1>4. CASE Deployed(p) \/ RestartFails(p) \/ RemovePin(p)
    BY <1>0, <1>4 DEF Deployed, RestartFails, RemovePin
  <1>5. CASE LeavePin(p)
    <2>1. PICK r \in {"left", "unknown", "error"} : Conclude(p, r, "release")
      BY <1>5 DEF LeavePin
    <2> QED BY <1>0, <1>5, <2>1 DEF LeavePin
  <1>6. CASE JudgeDown(p) \/ WritePrevious(p)
    BY <1>0, <1>6 DEF JudgeDown, WritePrevious
  <1>7. CASE RolledBack(p)
    BY <1>0, <1>7 DEF RolledBack
  <1>8. CASE Release(p)
    BY <1>0, <1>8 DEF Release, Forget
  <1> QED BY <1>1, <1>2, <1>3, <1>4, <1>5, <1>6, <1>7, <1>8 DEF Step

(* A step under the lock stays under it.                                     *)
LEMMA StepHeld ==
  ASSUME Typed, NEW p \in Deployer, Step(p), ~Acquire(p), ~WaitTimesOut(p), ~Release(p)
  PROVE  lock' = lock /\ pc[p] \in Held /\ pc'[p] \in Held
  <1>0. pc \in [Deployer -> Label]
    BY DEF Typed, TypeOK
  <1> USE DEF Held, Goto, Conclude
  <1>1. CASE ReadCurrentImage(p) \/ WriteImageEnv(p) \/ WriteFails(p)
    BY <1>0, <1>1 DEF ReadCurrentImage, WriteImageEnv, WriteFails
  <1>2. CASE Restart(p) \/ RestartAgain(p)
    BY <1>0, <1>2 DEF Restart, RestartAgain
  <1>3. CASE Deployed(p) \/ RestartFails(p) \/ RemovePin(p)
    BY <1>0, <1>3 DEF Deployed, RestartFails, RemovePin, AfterFailure
  <1>4. CASE LeavePin(p)
    <2>1. PICK r \in {"left", "unknown", "error"} : Conclude(p, r, "release")
      BY <1>4 DEF LeavePin
    <2> QED BY <1>0, <1>4, <2>1 DEF LeavePin
  <1>5. CASE JudgeDown(p) \/ WritePrevious(p)
    BY <1>0, <1>5 DEF JudgeDown, WritePrevious
  <1>6. CASE RolledBack(p)
    BY <1>0, <1>6 DEF RolledBack
  <1> QED BY <1>1, <1>2, <1>3, <1>4, <1>5, <1>6 DEF Step

LEMMA StepWriter == Typed /\ OneWriter /\ [Next]_vars => OneWriter'
  <1> SUFFICES ASSUME Typed, OneWriter, [Next]_vars PROVE OneWriter'
    OBVIOUS
  <1> USE NoneAssumption DEF Typed, TypeOK, OneWriter, Held, deployer, service, Goto, Conclude
  <1>1. CASE UnitStep
    BY <1>1 DEF UnitStep, PullEnds, PullFails, UpSucceeds, UpFails
  <1>2. ASSUME NEW p \in Deployer, NEW i \in Image, Ask(p, i) PROVE OneWriter'
    BY <1>2 DEF Ask
  <1>3. ASSUME NEW p \in Deployer, Kill(p) PROVE OneWriter'
    BY <1>3 DEF Kill, Forget
  <1>4. CASE Retry \/ IntervalPasses \/ ContainerFlaps
    BY <1>4 DEF Retry, IntervalPasses, ContainerFlaps
  <1>5. CASE Reboot
    BY <1>5 DEF Reboot
  <1>6. ASSUME NEW p \in Deployer, Step(p) PROVE OneWriter'
    <2>1. CASE Acquire(p)
      BY <2>1 DEF Acquire, LockFree
    <2>2. CASE WaitTimesOut(p)
      BY <2>2 DEF WaitTimesOut
    <2>3. CASE Release(p)
      BY <2>3 DEF Release, Forget
    <2>4. CASE ~Acquire(p) /\ ~WaitTimesOut(p) /\ ~Release(p)
      <3>1. lock' = lock /\ pc[p] \in Held /\ pc'[p] \in Held
        BY <1>6, <2>4, StepHeld
      <3>2. ASSUME NEW q \in Deployer \ {p} PROVE pc'[q] = pc[q]
        BY <1>6, StepAlone
      <3> HIDE DEF Held
      <3> QED BY <3>1, <3>2
    <2> QED BY <2>1, <2>2, <2>3, <2>4
  <1>7. CASE UNCHANGED vars
    BY <1>7 DEF vars
  <1> QED BY <1>1, <1>2, <1>3, <1>4, <1>5, <1>6, <1>7 DEF Next, Environment

LEMMA InitWriter == Init => OneWriter
  BY NoneAssumption DEF Init, OneWriter, Held

(* stack_deploy_lock: one section for the read, the write, the restart and   *)
(* the rollback, and at most one deploy in it, whatever is killed.           *)
THEOREM OneDeployAtATime == Spec => []OneWriter
  BY InitTyped, StepTyped, InitWriter, StepWriter, PTL DEF Spec

LEMMA InitPin == Init => PinKnown
  BY DEF Init, PinKnown

(* A step of the process itself keeps what it knows.                         *)
LEMMA StepPinOwn ==
  ASSUME Typed, PinKnown, NEW p \in Deployer, Step(p)
  PROVE  /\ pc'[p] = "write" => pin' = previous'[p]
         /\ pc'[p] \in Undecided
              => pin' = asked'[p]
         /\ pc'[p] \in {"restart again", "restarting again"} => pin' = previous'[p]
         /\ pc'[p] = "unpin" => previous'[p] = None
  <1>0. /\ pc \in [Deployer -> Label] /\ previous \in [Deployer -> Image \cup {None}]
    BY DEF Typed, TypeOK
  <1> USE DEF PinKnown, Undecided, Goto, Conclude
  <1>1. CASE Acquire(p) \/ WaitTimesOut(p)
    BY <1>0, <1>1 DEF Acquire, WaitTimesOut
  <1>2. CASE ReadCurrentImage(p)
    BY <1>0, <1>2 DEF ReadCurrentImage
  <1>3. CASE WriteImageEnv(p) \/ WriteFails(p)
    BY <1>0, <1>3 DEF WriteImageEnv, WriteFails
  <1>4. CASE Restart(p) \/ RestartAgain(p)
    BY <1>0, <1>4 DEF Restart, RestartAgain
  <1>5. CASE Deployed(p) \/ RestartFails(p) \/ RemovePin(p)
    BY <1>0, <1>5 DEF Deployed, RestartFails, AfterFailure, RemovePin
  <1>6. CASE LeavePin(p)
    <2>1. PICK r \in {"left", "unknown", "error"} : Conclude(p, r, "release")
      BY <1>6 DEF LeavePin
    <2> QED BY <1>0, <1>6, <2>1 DEF LeavePin
  <1>7. CASE JudgeDown(p) \/ WritePrevious(p)
    BY <1>0, <1>7 DEF JudgeDown, WritePrevious
  <1>8. CASE RolledBack(p)
    BY <1>0, <1>8 DEF RolledBack
  <1>9. CASE Release(p)
    BY <1>0, <1>9 DEF Release, Forget
  <1> QED BY <1>1, <1>2, <1>3, <1>4, <1>5, <1>6, <1>7, <1>8, <1>9 DEF Step

(* Only the holder of the lock changes the pin.                              *)
LEMMA StepPinOthers ==
  ASSUME Typed, OneWriter, NEW p \in Deployer, Step(p)
  PROVE  pin' = pin \/ \A q \in Deployer \ {p} : pc'[q] \notin Held
  <1>1. CASE Acquire(p) \/ WaitTimesOut(p) \/ Release(p)
    BY <1>1 DEF Acquire, WaitTimesOut, Release
  <1>2. CASE ~Acquire(p) /\ ~WaitTimesOut(p) /\ ~Release(p)
    <2>1. lock = p
      BY <1>2, StepHeld DEF OneWriter
    <2>2. ASSUME NEW q \in Deployer \ {p} PROVE pc'[q] \notin Held
      BY <2>1, StepAlone DEF OneWriter
    <2> QED BY <2>2
  <1> QED BY <1>1, <1>2

LEMMA StepPin == Typed /\ OneWriter /\ PinKnown /\ [Next]_vars => PinKnown'
  <1> SUFFICES ASSUME Typed, OneWriter, PinKnown, [Next]_vars PROVE PinKnown'
    OBVIOUS
  <1>0. /\ pc \in [Deployer -> Label]
    BY DEF Typed, TypeOK
  <1> USE DEF deployer, service, Undecided, Goto, Conclude
  <1>1. CASE UnitStep
    BY <1>1 DEF PinKnown, UnitStep, PullEnds, PullFails, UpSucceeds, UpFails
  <1>2. ASSUME NEW p \in Deployer, NEW i \in Image, Ask(p, i) PROVE PinKnown'
    BY <1>0, <1>2 DEF PinKnown, Ask, Typed, TypeOK
  <1>3. ASSUME NEW p \in Deployer, Kill(p) PROVE PinKnown'
    BY <1>0, <1>3 DEF PinKnown, Kill, Forget, Typed, TypeOK
  <1>4. CASE Retry \/ IntervalPasses \/ ContainerFlaps
    BY <1>4 DEF PinKnown, Retry, IntervalPasses, ContainerFlaps
  <1>5. CASE Reboot
    BY <1>5 DEF PinKnown, Reboot
  <1>6. ASSUME NEW p \in Deployer, Step(p) PROVE PinKnown'
    <2>1. ASSUME NEW q \in Deployer \ {p}
          PROVE  /\ pc'[q] = "write" => pin' = previous'[q]
                 /\ pc'[q] \in Undecided
                      => pin' = asked'[q]
                 /\ pc'[q] \in {"restart again", "restarting again"} => pin' = previous'[q]
                 /\ pc'[q] = "unpin" => previous'[q] = None
      <3>1. pc'[q] = pc[q] /\ asked'[q] = asked[q] /\ previous'[q] = previous[q]
        BY <1>6, StepAlone
      <3>2. CASE pin' = pin
        BY <3>1, <3>2 DEF PinKnown
      <3>3. CASE pc'[q] \notin Held
        BY <3>3 DEF Held
      <3> QED BY <1>6, <3>2, <3>3, StepPinOthers
    <2> QED BY <1>6, <2>1, StepPinOwn DEF PinKnown
  <1>7. CASE UNCHANGED vars
    BY <1>7 DEF PinKnown, vars
  <1> QED BY <1>1, <1>2, <1>3, <1>4, <1>5, <1>6, <1>7 DEF Next, Environment
-----------------------------------------------------------------------------
(* The refinement of PinRegister.                                            *)

(* At a step of the holder, an attempt is what the holder replaced.          *)
LEMMA HolderAttempt ==
  ASSUME Typed, OneWriter, NEW p \in Deployer, Step(p), pc[p] \in Held
  PROVE  /\ Attempt = IF pc[p] \in Undecided THEN {previous[p]} ELSE {}
         /\ Attempt' = IF pc'[p] \in Undecided THEN {previous'[p]} ELSE {}
  <1>1. \A q \in Deployer \ {p} : pc[q] \notin Undecided
    BY DEF OneWriter, Held, Undecided
  <1>2. \A q \in Deployer \ {p} : pc'[q] \notin Undecided
    BY <1>1, StepAlone
  <1>3. Attempt = IF pc[p] \in Undecided THEN {previous[p]} ELSE {}
    BY <1>1 DEF Attempt
  <1>4. Attempt' = IF pc'[p] \in Undecided THEN {previous'[p]} ELSE {}
    BY <1>2 DEF Attempt
  <1> QED BY <1>3, <1>4

LEMMA InitRegister == Init => P!Init
  BY DEF Init, P!Init, Attempt, Undecided

(* A step that neither enters nor leaves an attempt.                         *)
LEMMA SameAttempt ==
  ASSUME \A q \in Deployer : (pc'[q] \in Undecided) = (pc[q] \in Undecided),
         \A q \in Deployer : pc[q] \in Undecided => previous'[q] = previous[q]
  PROVE  Attempt' = Attempt
  BY DEF Attempt

LEMMA StepRegister ==
  Typed /\ OneWriter /\ PinKnown /\ [Next]_vars => [P!Next]_P!vars
  <1> SUFFICES ASSUME Typed, OneWriter, PinKnown, [Next]_vars PROVE [P!Next]_P!vars
    OBVIOUS
  <1>0. /\ pc \in [Deployer -> Label] /\ previous \in [Deployer -> Image \cup {None}]
    BY DEF Typed, TypeOK
  <1>1. ASSUME UNCHANGED <<pc, previous, pin>> PROVE [P!Next]_P!vars
    <2>1. Attempt' = Attempt
      BY <1>1 DEF Attempt
    <2> QED BY <1>1, <2>1 DEF P!vars
  <1>2. CASE UnitStep
    BY <1>1, <1>2 DEF UnitStep, PullEnds, PullFails, UpSucceeds, UpFails, deployer
  <1>3. ASSUME NEW p \in Deployer, NEW i \in Image, Ask(p, i) PROVE [P!Next]_P!vars
    <2>1. Attempt' = Attempt
      BY <1>0, <1>3, SameAttempt DEF Ask, Goto, Undecided
    <2> QED BY <1>3, <2>1 DEF Ask, P!vars
  <1>4. ASSUME NEW p \in Deployer, Kill(p) PROVE [P!Next]_P!vars
    <2>1. CASE pc[p] \in Undecided
      <3>1. \A q \in Deployer : pc'[q] \notin Undecided
        BY <1>0, <1>4, <2>1 DEF Kill, Forget, Goto, OneWriter, Held, Undecided
      <3>2. Attempt' = {} /\ Attempt # {}
        BY <2>1, <3>1 DEF Attempt
      <3> QED BY <1>4, <3>2 DEF Kill, P!Next, P!Keep
    <2>2. CASE pc[p] \notin Undecided
      <3>1. Attempt' = Attempt
        BY <1>0, <1>4, <2>2, SameAttempt DEF Kill, Forget, Goto, Undecided
      <3> QED BY <1>4, <3>1 DEF Kill, P!vars
    <2> QED BY <2>1, <2>2
  <1>5. CASE Retry \/ IntervalPasses \/ ContainerFlaps
    BY <1>1, <1>5 DEF Retry, IntervalPasses, ContainerFlaps, deployer
  <1>6. CASE Reboot
    <2>1. Attempt' = {} /\ pin' = pin
      BY <1>6 DEF Reboot, Attempt, Undecided
    <2> QED BY <2>1 DEF P!Next, P!Keep, P!vars
  <1>7. ASSUME NEW p \in Deployer, Step(p) PROVE [P!Next]_P!vars
    <2> USE DEF Goto, Conclude, Undecided, Held
    <2>1. CASE pc[p] \notin Held
      <3>1. Acquire(p) \/ WaitTimesOut(p) \/ Release(p)
        BY <1>7, <2>1, StepHeld
      <3>2. pc[p] \notin Undecided /\ pc'[p] \notin Undecided
        BY <1>0, <2>1, <3>1 DEF Acquire, WaitTimesOut, Release, Forget
      <3>3. \A q \in Deployer \ {p} : pc'[q] = pc[q] /\ previous'[q] = previous[q]
        BY <1>7, StepAlone
      <3>4. Attempt' = Attempt
        BY <3>2, <3>3, SameAttempt
      <3> QED BY <3>1, <3>4 DEF Acquire, WaitTimesOut, Release, P!vars
    <2>2. CASE pc[p] \in Held
      <3>0. /\ Attempt = IF pc[p] \in Undecided THEN {previous[p]} ELSE {}
            /\ Attempt' = IF pc'[p] \in Undecided THEN {previous'[p]} ELSE {}
        BY <1>7, <2>2, HolderAttempt
      <3>1. CASE ReadCurrentImage(p)
        BY <1>0, <3>0, <3>1 DEF ReadCurrentImage, P!vars
      <3>2. CASE WriteImageEnv(p)
        <4>1. Attempt = {} /\ Attempt' = {pin} /\ pin' = asked[p] /\ asked[p] \in Image
          BY <1>0, <3>0, <3>2 DEF WriteImageEnv, PinKnown, Typed, Known
        <4> QED BY <4>1 DEF P!Next, P!Try
      <3>3. CASE WriteFails(p)
        BY <1>0, <3>0, <3>3 DEF WriteFails, P!Next, P!Keep, P!vars
      <3>4. CASE Restart(p) \/ RestartAgain(p)
        BY <1>0, <3>0, <3>4 DEF Restart, RestartAgain, P!vars
      <3>5. CASE Deployed(p)
        BY <1>0, <3>0, <3>5 DEF Deployed, P!Next, P!Keep
      <3>6. CASE RestartFails(p)
        BY <1>0, <3>0, <3>6 DEF RestartFails, AfterFailure, P!vars
      <3>7. CASE RemovePin(p)
        <4>1. Attempt = {None} /\ Attempt' = {} /\ pin' = None
          BY <1>0, <3>0, <3>7 DEF RemovePin, PinKnown
        <4> QED BY <4>1 DEF P!Next, P!Undo
      <3>8. CASE LeavePin(p)
        <4>1. PICK r \in {"left", "unknown", "error"} : Conclude(p, r, "release")
          BY <3>8 DEF LeavePin
        <4> QED BY <1>0, <3>0, <3>8, <4>1 DEF LeavePin, P!Next, P!Keep
      <3>9. CASE JudgeDown(p)
        BY <1>0, <3>0, <3>9 DEF JudgeDown, P!vars
      <3>10. CASE WritePrevious(p)
        <4>1. Attempt = {previous[p]} /\ Attempt' = {} /\ pin' = previous[p]
          BY <1>0, <3>0, <3>10 DEF WritePrevious
        <4> QED BY <4>1 DEF P!Next, P!Undo
      <3>11. CASE RolledBack(p)
        BY <1>0, <3>0, <3>11 DEF RolledBack, P!vars
      <3>12. CASE Acquire(p) \/ WaitTimesOut(p)
        BY <2>2, <3>12 DEF Acquire, WaitTimesOut
      <3>13. CASE Release(p)
        BY <1>0, <3>0, <3>13 DEF Release, Forget, P!vars
      <3> QED BY <1>7, <3>1, <3>2, <3>3, <3>4, <3>5, <3>6, <3>7, <3>8, <3>9, <3>10, <3>11,
                 <3>12, <3>13 DEF Step
    <2> QED BY <2>1, <2>2
  <1>8. CASE UNCHANGED vars
    BY <1>1, <1>8 DEF vars, deployer
  <1> QED BY <1>2, <1>3, <1>4, <1>5, <1>6, <1>7, <1>8 DEF Next, Environment

(* The deploy implements the register: what an attempt replaced is kept out  *)
(* or put back exactly, and no other deploy comes between.                   *)
THEOREM ImplementsPinRegister == Spec => PinRegisterSpec
  BY InitTyped, StepTyped, InitWriter, StepWriter, InitPin, StepPin,
     InitRegister, StepRegister, PTL DEF Spec, PinRegisterSpec, P!Spec
-----------------------------------------------------------------------------
(* The refinement of StackHost.                                              *)

LEMMA InitHost == Init => H!Init
  BY DEF Init, H!Init

(* A start is one, and a start the limit refuses has failed.                 *)
LEMMA StartRefines ==
  ASSUME Typed, BeginStart
  PROVE  H!Start
  <1>1. unit \in [state: UnitState, image: Image \cup {None}]
    BY DEF Typed, TypeOK
  <1>2. CASE pin = None
    BY <1>1, <1>2 DEF BeginStart, H!Start
  <1>3. CASE pin # None
    <2>1. unit'.state \in {"pulling", "limited"}
      BY <1>1, <1>3 DEF BeginStart
    <2> QED BY <1>3, <2>1 DEF H!Start
  <1> QED BY <1>2, <1>3

(* A step of a holder, as the others see it: by the pin and the unit.        *)
LEMMA HolderHost ==
  ASSUME Typed, NEW p \in Deployer, Step(p), lock = p, lock' = p
  PROVE  [H!Next]_H!vars
  <1>0. None # p
    BY NoneAssumption
  <1> USE DEF Goto, Conclude, service
  <1>1. CASE WriteImageEnv(p) \/ RemovePin(p) \/ WritePrevious(p)
    <2>1. pin' \in Image \cup {None} /\ UNCHANGED unit
      <3>1. CASE WriteImageEnv(p)
        BY <3>1 DEF WriteImageEnv, Typed, TypeOK
      <3>2. CASE RemovePin(p)
        BY <3>2 DEF RemovePin
      <3>3. CASE WritePrevious(p)
        BY <3>3 DEF WritePrevious, Typed, TypeOK
      <3> QED BY <1>1, <3>1, <3>2, <3>3
    <2> QED BY <1>0, <2>1 DEF H!Next, H!DeployStep, H!MovePin
  <1>2. CASE Restart(p) \/ RestartAgain(p)
    <2>1. BeginStart /\ UNCHANGED pin
      BY <1>2 DEF Restart, RestartAgain
    <2> QED BY <1>0, <2>1, StartRefines DEF H!Next, H!DeployStep, H!Restart
  <1>3. CASE UNCHANGED <<pin, unit>>
    BY <1>3 DEF H!vars
  <1>4. CASE Acquire(p) \/ WaitTimesOut(p) \/ ReadCurrentImage(p) \/ WriteFails(p)
    BY <1>3, <1>4 DEF Acquire, WaitTimesOut, ReadCurrentImage, WriteFails
  <1>5. CASE Deployed(p) \/ RestartFails(p) \/ LeavePin(p)
    BY <1>3, <1>5 DEF Deployed, RestartFails, LeavePin
  <1>6. CASE JudgeDown(p) \/ RolledBack(p) \/ Release(p)
    BY <1>3, <1>6 DEF JudgeDown, RolledBack, Release
  <1> QED BY <1>1, <1>2, <1>4, <1>5, <1>6 DEF Step

(* Whoever has the lock after a step or had it before it, if anybody.        *)
LEMMA StepHost == Typed /\ OneWriter /\ [Next]_vars => [H!Next]_H!vars
  <1> SUFFICES ASSUME Typed, OneWriter, [Next]_vars PROVE [H!Next]_H!vars
    OBVIOUS
  <1>0. unit \in [state: UnitState, image: Image \cup {None}]
    BY DEF Typed, TypeOK
  <1> USE DEF deployer, service
  <1>1. ASSUME UNCHANGED <<pin, unit>>,
               \/ UNCHANGED lock
               \/ lock = None /\ lock' # None
               \/ lock # None /\ lock' = None
        PROVE  [H!Next]_H!vars
    BY <1>1 DEF H!Next, H!DeployStep, H!Take, H!Give, H!LockFree, H!vars
  <1>2. CASE UnitStep
    <2>1. CASE PullEnds
      BY <1>0, <2>1 DEF PullEnds, H!Next, H!UnitStep, H!PullEnds
    <2>2. CASE PullFails
      BY <1>0, <2>2 DEF PullFails, H!Next, H!UnitStep, H!PullFails
    <2>3. CASE UpSucceeds
      BY <1>0, <2>3 DEF UpSucceeds, H!Next, H!UnitStep, H!UpSucceeds
    <2>4. CASE UpFails
      BY <1>0, <2>4 DEF UpFails, H!Next, H!UnitStep, H!UpFails
    <2> QED BY <1>2, <2>1, <2>2, <2>3, <2>4 DEF UnitStep
  <1>3. ASSUME NEW p \in Deployer, NEW i \in Image, Ask(p, i) PROVE [H!Next]_H!vars
    BY <1>1, <1>3 DEF Ask
  <1>4. ASSUME NEW p \in Deployer, Kill(p) PROVE [H!Next]_H!vars
    BY <1>1, <1>4, NoneAssumption DEF Kill
  <1>5. CASE Retry
    BY <1>5, StartRefines DEF Retry, H!Next, H!Retry
  <1>6. CASE IntervalPasses \/ ContainerFlaps
    BY <1>1, <1>6 DEF IntervalPasses, ContainerFlaps
  <1>7. CASE Reboot
    BY <1>0, <1>7 DEF Reboot, H!Next, H!Reboot
  <1>8. ASSUME NEW p \in Deployer, Step(p) PROVE [H!Next]_H!vars
    <2>1. CASE Acquire(p) \/ WaitTimesOut(p)
      BY <1>1, <2>1, NoneAssumption DEF Acquire, WaitTimesOut, LockFree
    <2>2. CASE Release(p)
      <3>1. pc[p] = "release" => lock = p
        BY DEF OneWriter, Held
      <3> QED BY <1>1, <2>2, <3>1, NoneAssumption DEF Release
    <2>3. CASE ~Acquire(p) /\ ~WaitTimesOut(p) /\ ~Release(p)
      <3>1. lock = p /\ lock' = p
        BY <1>8, <2>3, StepHeld DEF OneWriter
      <3> QED BY <1>8, <3>1, HolderHost
    <2> QED BY <2>1, <2>2, <2>3
  <1>9. CASE UNCHANGED vars
    BY <1>1, <1>9 DEF vars
  <1> QED BY <1>2, <1>3, <1>4, <1>5, <1>6, <1>7, <1>8, <1>9 DEF Next, Environment

(* To the other programs of the host, a deploy moves the pin and restarts    *)
(* the unit while it has the lock, and never without it.                     *)
THEOREM ImplementsStackHost == Spec => StackHostSpec
  BY InitTyped, StepTyped, InitWriter, StepWriter, InitHost, StepHost,
     PTL DEF Spec, StackHostSpec, H!Spec
-----------------------------------------------------------------------------
(* Reports, and the unit against the pin.                                    *)

(* Any step of the unit by itself: what it changes, and from where.          *)
LEMMA UnitMoves ==
  ASSUME Typed, UnitStep \/ Retry
  PROVE  /\ UNCHANGED <<deployer, lock, pin, kills>>
         /\ unit.state \in {"pulling", "starting", "failed"}
         /\ unit'.state \in {"starting", "active"} => unit'.image = IF unit.state = "pulling"
                                                                 THEN pin ELSE unit.image
         /\ unit'.state = "starting" => unit.state = "pulling"
         /\ unit'.state = "active" => unit.state = "starting" /\ container'.image = unit.image
         /\ unit.state = "failed" => Retry
  <1>0. unit \in [state: UnitState, image: Image \cup {None}]
    BY DEF Typed, TypeOK
  <1>1. CASE PullEnds
    BY <1>1 DEF PullEnds
  <1>2. CASE PullFails
    BY <1>0, <1>2 DEF PullFails
  <1>3. CASE UpSucceeds
    BY <1>0, <1>3 DEF UpSucceeds
  <1>4. CASE UpFails
    BY <1>0, <1>4 DEF UpFails
  <1>5. CASE Retry
    BY <1>5, BeginStartTyped DEF Retry
  <1> QED BY <1>1, <1>2, <1>3, <1>4, <1>5 DEF UnitStep

(* A process without the lock changes nothing on the host.                   *)
LEMMA OutsideStep ==
  ASSUME OneWriter, Typed, NEW p \in Deployer, Step(p), pc[p] \notin Held
  PROVE  UNCHANGED <<pin, service, kills>> /\ pc'[p] \in {"read", "refused", "idle"}
  <1>1. Acquire(p) \/ WaitTimesOut(p) \/ Release(p)
    BY StepHeld
  <1>2. pc \in [Deployer -> Label]
    BY DEF Typed, TypeOK
  <1> QED BY <1>1, <1>2 DEF Acquire, WaitTimesOut, Release, Forget, Goto, Conclude, Held

LEMMA InitReport == Init => StartKnown /\ ReportTrue
  BY DEF Init, StartKnown, ReportTrue
(* While one holds the lock, no other is at a label under it.                *)
LEMMA HolderAlone ==
  ASSUME Typed, OneWriter, NEW p \in Deployer, Step(p), pc[p] \in Held,
         NEW q \in Deployer \ {p}
  PROVE  pc'[q] \notin Held
  BY StepAlone DEF OneWriter

LEMMA StepStart == Typed /\ OneWriter /\ StartKnown /\ [Next]_vars => StartKnown'
  <1> SUFFICES ASSUME Typed, OneWriter, StartKnown, [Next]_vars PROVE StartKnown'
    OBVIOUS
  <1>0. pc \in [Deployer -> Label] /\ container \in [image: Image \cup {None}, up: BOOLEAN]
    BY DEF Typed, TypeOK
  <1> USE DEF deployer, service, Goto, Conclude
  <1>1. CASE UnitStep \/ Retry
    <2>1. ASSUME NEW p \in Deployer, pc'[p] \in {"restarting", "restarting again"}
          PROVE  Started(pin)'
      <3>1. Started(pin) /\ ~Retry
        BY <1>1, <2>1, UnitMoves DEF StartKnown, Retry
      <3> QED BY <1>1, <3>1, UnitMoves DEF Started
    <2> QED BY <2>1 DEF StartKnown
  <1>2. ASSUME NEW p \in Deployer, NEW i \in Image, Ask(p, i) PROVE StartKnown'
    BY <1>0, <1>2 DEF StartKnown, Started, Ask
  <1>3. ASSUME NEW p \in Deployer, Kill(p) PROVE StartKnown'
    BY <1>0, <1>3 DEF StartKnown, Started, Kill, Forget
  <1>4. CASE IntervalPasses
    BY <1>4 DEF StartKnown, Started, IntervalPasses
  <1>5. CASE ContainerFlaps
    <2>1. container'.image = container.image
      BY <1>0, <1>5 DEF ContainerFlaps
    <2> QED BY <1>5, <2>1 DEF StartKnown, Started, ContainerFlaps
  <1>6. CASE Reboot
    BY <1>6 DEF StartKnown, Reboot
  <1>7. ASSUME NEW p \in Deployer, Step(p) PROVE StartKnown'
    <2>1. CASE pc[p] \notin Held
      <3>1. UNCHANGED <<pin, service>> /\ pc'[p] \in {"read", "refused", "idle"}
        BY <1>7, <2>1, OutsideStep
      <3>2. \A q \in Deployer \ {p} : pc'[q] = pc[q]
        BY <1>7, StepAlone
      <3> QED BY <3>1, <3>2 DEF StartKnown, Started
    <2>2. CASE pc[p] \in Held
      <3>1. \A q \in Deployer \ {p} : pc'[q] \notin Held
        BY <1>7, <2>2, HolderAlone
      <3>2. CASE Restart(p) \/ RestartAgain(p)
        <4>1. unit'.state \notin {"starting", "active"}
          BY <3>2, BeginStartTyped DEF Restart, RestartAgain
        <4> QED BY <3>1, <4>1 DEF StartKnown, Started
      <3>3. CASE pc'[p] \notin {"restarting", "restarting again"}
        BY <3>1, <3>3 DEF StartKnown, Held
      <3>4. ASSUME pc'[p] \in {"restarting", "restarting again"}
            PROVE  Restart(p) \/ RestartAgain(p)
        <4>1. CASE LeavePin(p)
          <5>1. PICK r \in {"left", "unknown", "error"} : Conclude(p, r, "release")
            BY <4>1 DEF LeavePin
          <5> QED BY <1>0, <3>4, <5>1
        <4>2. ~Acquire(p) /\ ~WaitTimesOut(p)
          BY <2>2 DEF Acquire, WaitTimesOut, Held
        <4> QED BY <1>0, <1>7, <3>4, <4>1, <4>2 DEF Step, ReadCurrentImage, WriteImageEnv,
                 WriteFails, Deployed, RestartFails, AfterFailure, RemovePin, JudgeDown,
                 WritePrevious, RolledBack, Release, Forget
      <3> QED BY <3>2, <3>3, <3>4
    <2> QED BY <2>1, <2>2
  <1>8. CASE UNCHANGED vars
    BY <1>8 DEF StartKnown, Started, vars
  <1> QED BY <1>1, <1>2, <1>3, <1>4, <1>5, <1>6, <1>7, <1>8 DEF Next, Environment
(* What a process concludes under the lock is true.                          *)
LEMMA ConcludesTruth ==
  ASSUME Typed, PinKnown, StartKnown, NEW p \in Deployer, Step(p), pc[p] \in Held,
         pc'[p] = "release"
  PROVE  Honest(p)'
  <1>0. /\ pc \in [Deployer -> Label] /\ result \in [Deployer -> Result]
    BY DEF Typed, TypeOK
  <1> USE DEF Goto, Conclude, Honest, Runs, service
  <1>1. CASE WriteFails(p)
    BY <1>0, <1>1 DEF WriteFails
  <1>2. CASE Deployed(p)
    <2>1. pin = asked[p] /\ Started(pin)
      BY <1>2 DEF Deployed, PinKnown, Undecided, StartKnown
    <2> QED BY <1>0, <1>2, <2>1 DEF Deployed, Started
  <1>3. CASE RemovePin(p)
    BY <1>0, <1>3 DEF RemovePin
  <1>4. CASE LeavePin(p)
    <2>1. PICK r \in {"left", "unknown", "error"} : Conclude(p, r, "release")
      BY <1>4 DEF LeavePin
    <2>2. pin = asked[p]
      BY <1>4 DEF LeavePin, PinKnown, Undecided
    <2> QED BY <1>0, <1>4, <2>1, <2>2 DEF LeavePin
  <1>5. CASE RolledBack(p)
    <2>1. pin = previous[p] /\ Started(pin)
      BY <1>5 DEF RolledBack, PinKnown, StartKnown
    <2>2. CASE unit.state = "active"
      BY <1>0, <1>5, <2>1, <2>2 DEF RolledBack, Started
    <2>3. CASE unit.state # "active"
      BY <1>0, <1>5, <2>1, <2>3 DEF RolledBack
    <2> QED BY <2>2, <2>3
  <1>6. ~Acquire(p) /\ ~WaitTimesOut(p)
    BY DEF Acquire, WaitTimesOut, Held
  <1> QED BY <1>0, <1>1, <1>2, <1>3, <1>4, <1>5, <1>6 DEF Step, ReadCurrentImage, WriteImageEnv,
          Restart, RestartFails, AfterFailure, JudgeDown, WritePrevious, RestartAgain, Release, Forget

LEMMA StepReport ==
  Typed /\ OneWriter /\ PinKnown /\ StartKnown /\ ReportTrue /\ [Next]_vars => ReportTrue'
  <1> SUFFICES ASSUME Typed, OneWriter, PinKnown, StartKnown, ReportTrue, [Next]_vars
               PROVE  ReportTrue'
    OBVIOUS
  <1>0. /\ pc \in [Deployer -> Label] /\ asked \in [Deployer -> Image \cup {None}]
        /\ previous \in [Deployer -> Image \cup {None}] /\ result \in [Deployer -> Result]
        /\ container \in [image: Image \cup {None}, up: BOOLEAN]
    BY DEF Typed, TypeOK
  <1> USE DEF deployer, service
  <1>1. CASE UnitStep \/ Retry
    BY <1>1, UnitMoves DEF ReportTrue, Honest, Runs
  <1>2. ASSUME NEW p \in Deployer, NEW i \in Image, Ask(p, i) PROVE ReportTrue'
    BY <1>0, <1>2 DEF ReportTrue, Honest, Runs, Ask, Goto
  <1>3. ASSUME NEW p \in Deployer, Kill(p) PROVE ReportTrue'
    BY <1>0, <1>3 DEF ReportTrue, Honest, Runs, Kill, Forget, Goto
  <1>4. CASE IntervalPasses
    BY <1>4 DEF ReportTrue, Honest, Runs, IntervalPasses
  <1>5. CASE ContainerFlaps
    <2>1. container'.image = container.image
      BY <1>0, <1>5 DEF ContainerFlaps
    <2> QED BY <1>5, <2>1 DEF ReportTrue, Honest, Runs, ContainerFlaps
  <1>6. CASE Reboot
    BY <1>6 DEF ReportTrue, Reboot
  <1>7. ASSUME NEW p \in Deployer, Step(p) PROVE ReportTrue'
    <2>1. CASE pc[p] \notin Held
      <3>1. UNCHANGED <<pin, service>> /\ pc'[p] # "release"
        BY <1>7, <2>1, OutsideStep
      <3>2. ASSUME NEW q \in Deployer \ {p}, pc'[q] = "release" PROVE Honest(q)'
        <4>1. /\ pc'[q] = pc[q] /\ asked'[q] = asked[q]
              /\ previous'[q] = previous[q] /\ result'[q] = result[q]
          BY <1>7, StepAlone
        <4> QED BY <3>1, <3>2, <4>1 DEF ReportTrue, Honest, Runs
      <3> QED BY <3>1, <3>2 DEF ReportTrue
    <2>2. CASE pc[p] \in Held
      <3>1. \A q \in Deployer \ {p} : pc'[q] # "release"
        BY <1>7, <2>2, HolderAlone DEF Held
      <3>2. pc'[p] = "release" => Honest(p)'
        BY <1>7, <2>2, ConcludesTruth
      <3> QED BY <3>1, <3>2 DEF ReportTrue
    <2> QED BY <2>1, <2>2
  <1>8. CASE UNCHANGED vars
    BY <1>8 DEF ReportTrue, Honest, Runs, vars
  <1> QED BY <1>1, <1>2, <1>3, <1>4, <1>5, <1>6, <1>7, <1>8 DEF Next, Environment

(* What a deploy is about to report is what is on the host.                  *)
THEOREM ReportsAreTrue == Spec => []ReportTrue
  BY InitTyped, StepTyped, InitWriter, StepWriter, InitPin, StepPin,
     InitReport, StepStart, StepReport, PTL DEF Spec
LEMMA InitUnit == Init => UnitKnown
  BY DEF Init, UnitKnown

(* The steps of a holder, against the unit and the pin.                      *)
LEMMA HolderUnit ==
  ASSUME Typed, OneWriter, UnitKnown, kills = 0, NEW p \in Deployer, Step(p), pc[p] \in Held
  PROVE  /\ pc'[p] \notin Changing /\ unit'.state \in {"starting", "active"}
              => unit'.image = pin'
         /\ pc'[p] = "unpin" => unit'.state \in {"inactive", "failed", "limited"}
  <1>0. pc \in [Deployer -> Label] /\ unit.state \in UnitState
    BY DEF Typed, TypeOK
  <1>1. \A q \in Deployer \ {p} : pc[q] \notin Changing
    BY DEF OneWriter, Held, Changing
  <1>2. pc[p] \notin Changing /\ unit.state \in {"starting", "active"} => unit.image = pin
    BY <1>1 DEF UnitKnown
  <1> USE DEF Changing, service, Goto, Conclude
  <1>3. CASE ReadCurrentImage(p) \/ WriteFails(p)
    BY <1>0, <1>2, <1>3 DEF ReadCurrentImage, WriteFails
  <1>4. CASE WriteImageEnv(p) \/ WritePrevious(p)
    BY <1>0, <1>4 DEF WriteImageEnv, WritePrevious
  <1>5. CASE Restart(p) \/ RestartAgain(p)
    <2>1. unit'.state \notin {"starting", "active"}
      BY <1>5, BeginStartTyped DEF Restart, RestartAgain
    <2> QED BY <1>0, <1>5, <2>1 DEF Restart, RestartAgain
  <1>6. CASE Deployed(p) \/ JudgeDown(p) \/ RolledBack(p)
    BY <1>0, <1>2, <1>6 DEF Deployed, JudgeDown, RolledBack
  <1>7. CASE RestartFails(p)
    <2>1. unit.state \in {"inactive", "failed", "limited"} /\ UNCHANGED <<pin, unit>>
      BY <1>0, <1>7 DEF RestartFails, StartOver, UnitState
    <2> QED BY <2>1
  <1>8. CASE RemovePin(p)
    <2>1. unit.state \in {"inactive", "failed", "limited"} /\ unit' = unit
      BY <1>8 DEF RemovePin, UnitKnown
    <2> QED BY <2>1
  <1>9. CASE LeavePin(p)
    <2>1. PICK r \in {"left", "unknown", "error"} : Conclude(p, r, "release")
      BY <1>9 DEF LeavePin
    <2> QED BY <1>0, <1>2, <1>9, <2>1 DEF LeavePin
  <1>10. CASE Release(p)
    BY <1>0, <1>2, <1>10 DEF Release, Forget
  <1>11. ~Acquire(p) /\ ~WaitTimesOut(p)
    BY DEF Acquire, WaitTimesOut, Held
  <1> QED BY <1>3, <1>4, <1>5, <1>6, <1>7, <1>8, <1>9, <1>10, <1>11 DEF Step

LEMMA StepUnit == Typed /\ OneWriter /\ UnitKnown /\ [Next]_vars => UnitKnown'
  <1> SUFFICES ASSUME Typed, OneWriter, UnitKnown, [Next]_vars, kills' = 0 PROVE UnitKnown'
    BY DEF UnitKnown
  <1>0. /\ pc \in [Deployer -> Label] /\ kills \in Nat
    BY CountAssumption DEF Typed, TypeOK
  <1> USE DEF deployer, service
  <1>1. CASE UnitStep \/ Retry
    <2>1. UNCHANGED <<pc, pin, kills>>
      BY <1>1, UnitMoves
    <2>2. (\A p \in Deployer : pc[p] \notin Changing) /\ unit'.state \in {"starting", "active"}
            => unit'.image = pin
      BY <1>1, <2>1, UnitMoves DEF UnitKnown
    <2>3. ASSUME NEW p \in Deployer PROVE pc[p] # "unpin"
      BY <1>1, <2>1, UnitMoves DEF UnitKnown, Retry
    <2> QED BY <2>1, <2>2, <2>3 DEF UnitKnown
  <1>2. ASSUME NEW p \in Deployer, NEW i \in Image, Ask(p, i) PROVE UnitKnown'
    BY <1>0, <1>2 DEF UnitKnown, Changing, Ask, Goto
  <1>3. ASSUME NEW p \in Deployer, Kill(p) PROVE FALSE
    BY <1>0, <1>3 DEF Kill
  <1>4. CASE IntervalPasses \/ ContainerFlaps
    BY <1>4 DEF UnitKnown, IntervalPasses, ContainerFlaps
  <1>5. CASE Reboot
    BY <1>0, <1>5 DEF Reboot
  <1>6. ASSUME NEW p \in Deployer, Step(p) PROVE UnitKnown'
    <2>1. CASE pc[p] \notin Held
      <3>1. UNCHANGED <<pin, service, kills>> /\ pc'[p] \in {"read", "refused", "idle"}
        BY <1>6, <2>1, OutsideStep
      <3>2. \A q \in Deployer \ {p} : pc'[q] = pc[q]
        BY <1>6, StepAlone
      <3> QED BY <2>1, <3>1, <3>2 DEF UnitKnown, Changing, Held
    <2>2. CASE pc[p] \in Held
      <3>1. \A q \in Deployer \ {p} : pc'[q] \notin Held
        BY <1>6, <2>2, HolderAlone
      <3>2. kills = 0
        BY <1>6, <2>2 DEF Step, Acquire, WaitTimesOut, ReadCurrentImage, WriteImageEnv,
             WriteFails, Restart, Deployed, RestartFails, RemovePin, LeavePin, JudgeDown,
             WritePrevious, RestartAgain, RolledBack, Release
      <3> QED BY <1>6, <2>2, <3>1, <3>2, HolderUnit DEF UnitKnown, Held
    <2> QED BY <2>1, <2>2
  <1>7. CASE UNCHANGED vars
    BY <1>7 DEF UnitKnown, vars
  <1> QED BY <1>1, <1>2, <1>3, <1>4, <1>5, <1>6, <1>7 DEF Next, Environment

(* While nothing is killed and no deploy is under way, a unit that is active *)
(* runs the pin, whatever the unit retried by itself in between.             *)
THEOREM ActiveRunsPin == Spec => []UnitFollowsPin
  <1>1. OneWriter /\ UnitKnown /\ NoneAssumption => UnitFollowsPin
    BY DEF OneWriter, UnitKnown, UnitFollowsPin, Changing, Held, NoneAssumption
  <1> QED BY InitTyped, StepTyped, InitWriter, StepWriter, InitUnit, StepUnit,
             NoneAssumption, <1>1, PTL DEF Spec
===============================================================================
