--------------------------- MODULE PullTriggerProofs ---------------------------
(***************************************************************************)
(* Proofs about PullTrigger, for every value of its constants.             *)
(***************************************************************************)
EXTENDS PullTrigger, TLAPS

(* Labels at which a process works on a commit, and at which it has a        *)
(* directory.                                                                *)
Named == Label \ {"idle", "publish", "answer"}
Placed == {"fill", "begin", "record", "promote", "retire", "start", "running"}

(* A process that works on a commit knows it, and its directory.             *)
Known ==
  /\ \A p \in Proc : pc[p] \in Named => commit[p] \in Commit
  /\ \A p \in Proc : pc[p] \in Placed => dir[p] \in Dir

Typed == TypeOK /\ Known

(* A label is none of the things it stands beside.                          *)
LEMMA Names ==
  /\ None \notin Commit /\ None \notin Dir /\ None \notin Proc
  /\ Damaged \notin Commit /\ Partial \notin Commit
  BY CommitAssumption DEF Labels

LEMMA CountsStep ==
  ASSUME count \in Counts
  PROVE  /\ count.kills < MaxKills => [count EXCEPT !.kills = @ + 1] \in Counts
         /\ count.hands < MaxHands => [count EXCEPT !.hands = @ + 1] \in Counts
         /\ count.rewrites < MaxRewrites => [count EXCEPT !.rewrites = @ + 1] \in Counts
  BY BoundAssumption DEF Counts

LEMMA InitTyped == Init => Typed
  <1> SUFFICES ASSUME Init PROVE Typed
    OBVIOUS
  <1>1. wasMain \in SUBSET Commit /\ main \in Commit
    BY DEF Init, Ancestors
  <1>2. count \in Counts
    BY BoundAssumption DEF Init, Counts
  <1>3. /\ pc \in [Proc -> Label] /\ mode \in [Proc -> Mode] /\ exit \in [Proc -> Verdict]
        /\ did \in [Proc -> Progress] /\ stop \in [Proc -> BOOLEAN]
        /\ commit \in [Proc -> Commit \cup {None}]
        /\ dir \in [Proc -> Dir \cup {None}] /\ previous \in [Proc -> Dir \cup {None}]
    BY DEF Init, Label, Mode, Verdict, Progress
  <1>4. /\ spool \in [Proc -> Slot] /\ quarantine \in [Proc -> Slot]
        /\ tree \in [Dir -> Commit \cup {None, Partial}]
        /\ floor \in Commit \cup {None, Damaged}
        /\ cache \in [tip: Commit \cup {None}, objects: SUBSET Commit]
    BY SeedAssumption DEF Init, Slot
  <1>5. Known
    BY DEF Init, Known, Named, Placed
  <1> QED
    BY <1>1, <1>2, <1>3, <1>4, <1>5 DEF Typed, TypeOK, Init

LEMMA StepTyped == Typed /\ [Next]_vars => Typed'
  <1> SUFFICES ASSUME Typed, [Next]_vars PROVE Typed'
    OBVIOUS
  <1> USE DEF Typed, TypeOK, Known, Named, Placed, Label, Before, Held, Mode, Verdict, Progress,
              Slot, run, disk, source, bundle, unlocked, Goto, Conclude
  <1>1. ASSUME NEW p \in Proc, NEW m \in Mode, Ask(p, m) PROVE Typed'
    <2>1. PICK c \in Commit \cup {None} : Arrive(p, m, c)
      BY <1>1 DEF Ask
    <2> QED BY <2>1 DEF Arrive
  <1>2. ASSUME NEW p \in Proc, PlaybookEnds(p) PROVE Typed'
    BY <1>2 DEF PlaybookEnds, ChangedVerdict
  <1>3. ASSUME NEW p \in Proc, RelayFails(p) PROVE Typed'
    <2>1. Playbook(p) \in Orphan
      BY <1>3 DEF RelayFails, Playbook, Orphan
    <2>2. count' \in Counts
      BY <1>3, CountsStep DEF RelayFails
    <2> QED BY <1>3, <2>1, <2>2 DEF RelayFails
  <1>4. ASSUME NEW p \in Proc, Stop(p) PROVE Typed'
    BY <1>4 DEF Stop
  <1>5. ASSUME NEW p \in Proc, Kill(p) PROVE Typed'
    <2>1. pc[p] = "running" => Playbook(p) \in Orphan
      BY DEF Playbook, Orphan
    <2>2. count' \in Counts
      BY <1>5, CountsStep DEF Kill
    <2> QED BY <1>5, <2>1, <2>2 DEF Kill, Forget
  <1>6. ASSUME NEW o \in orphans, OrphanEnds(o) PROVE Typed'
    BY <1>6 DEF OrphanEnds
  <1>7. ASSUME NEW c \in Commit, PushMain(c) \/ RewriteMain(c) PROVE Typed'
    <2>1. count' \in Counts
      BY <1>7, CountsStep DEF PushMain, RewriteMain
    <2> QED BY <1>7, <2>1 DEF PushMain, RewriteMain, Ancestors
  <1>8. CASE LoseCache
    <2>1. count' \in Counts
      BY <1>8, CountsStep DEF LoseCache
    <2> QED BY <1>8, <2>1 DEF LoseCache, Ancestors
  <1>9. CASE DamageFloor
    <2>1. count' \in Counts
      BY <1>9, CountsStep DEF DamageFloor
    <2> QED BY <1>9, <2>1 DEF DamageFloor
  <1>10. ASSUME NEW v \in Commit \cup {None}, ResetFloor(v) PROVE Typed'
    <2>1. count' \in Counts
      BY <1>10, CountsStep DEF ResetFloor
    <2> QED BY <1>10, <2>1 DEF ResetFloor
  <1>11. ASSUME NEW p \in Proc, Step(p) PROVE Typed'
    <2>1. CASE Publish(p)
      <3>1. pc' \in [Proc -> Label] /\ exit' \in [Proc -> Verdict]
        <4>1. CASE commit[p] = None
          BY <2>1, <4>1 DEF Publish
        <4>2. CASE commit[p] # None /\ Source = "remote"
          BY <2>1, <4>2 DEF Publish
        <4>3. CASE commit[p] # None /\ Source # "remote"
          BY <2>1, <4>3 DEF Publish
        <4> QED BY <4>1, <4>2, <4>3
      <3>2. spool' \in [Proc -> Slot] /\ pending' \in BOOLEAN
        BY <2>1 DEF Publish
      <3>3. Known'
        BY <2>1 DEF Publish
      <3> QED BY <2>1, <3>1, <3>2, <3>3 DEF Publish
    <2>2. CASE PublishClash(p)
      BY <2>2 DEF PublishClash
    <2>3. CASE Receive(p) \/ ReceiveFails(p)
      BY <2>3 DEF Receive, ReceiveFails
    <2>4. CASE TakeLock(p) \/ Busy(p)
      BY <2>4 DEF TakeLock, Busy
    <2>5. CASE Sweep(p)
      BY <2>5 DEF Sweep
    <2>6. CASE Fetch(p) \/ FetchFails(p)
      BY <2>6 DEF Fetch, FetchFails, Ancestors
    <2>7. CASE AdmitRemote(p) \/ RefuseRemote(p) \/ FaultRemote(p)
      BY <2>7 DEF AdmitRemote, RefuseRemote, FaultRemote
    <2>8. CASE OpenQuarantine(p)
      BY <2>8 DEF OpenQuarantine
    <2>9. ASSUME NEW good \in BOOLEAN,
                 AdmitBundle(p, good) \/ RefuseBundle(p, good) \/ FaultBundle(p, good)
          PROVE  Typed'
      BY <2>9 DEF AdmitBundle, RefuseBundle, FaultBundle
    <2>10. ASSUME NEW d \in Dir, MakeCheckout(p, d) PROVE Typed'
      BY <2>10 DEF MakeCheckout
    <2>11. CASE FillCheckout(p) \/ CheckoutFails(p)
      BY <2>11 DEF FillCheckout, CheckoutFails
    <2>12. CASE RefuseOnDisk(p) \/ BeginStopped(p) \/ BeginRun(p)
      BY <2>12 DEF RefuseOnDisk, BeginStopped, BeginRun, FirstStep
    <2>13. CASE RecordApplied(p)
      BY <2>13 DEF RecordApplied
    <2>14. CASE PromoteLink(p) \/ PromoteRetire(p)
      BY <2>14 DEF PromoteLink, PromoteRetire
    <2>15. CASE StartPlaybook(p)
      BY <2>15 DEF StartPlaybook
    <2>16. CASE Interrupt(p) \/ TimeOut(p) \/ Fault(p)
      BY <2>16 DEF Interrupt, TimeOut, Fault
    <2>17. CASE CleanUp(p) \/ Release(p)
      BY <2>17 DEF CleanUp, Release
    <2>18. CASE Answer(p)
      BY <2>18 DEF Answer, Forget
    <2> QED
      BY <1>11, <2>1, <2>2, <2>3, <2>4, <2>5, <2>6, <2>7, <2>8, <2>9, <2>10, <2>11, <2>12, <2>13,
         <2>14, <2>15, <2>16, <2>17, <2>18 DEF Step
  <1>12. CASE UNCHANGED vars
    BY <1>12 DEF vars
  <1> QED
    BY <1>1, <1>2, <1>3, <1>4, <1>5, <1>6, <1>7, <1>8, <1>9, <1>10, <1>11, <1>12
    DEF Next, Environment

(* Every variable keeps its type, whatever is asked, killed or damaged.      *)
THEOREM TypeCorrect == Spec => []TypeOK
  <1>1. Typed => TypeOK
    BY DEF Typed
  <1> QED BY InitTyped, StepTyped, <1>1, PTL DEF Spec
-----------------------------------------------------------------------------
(* Mutual exclusion.                                                        *)

LEMMA InitFlight == Init => SingleFlight
  <1> SUFFICES ASSUME Init, NEW p \in Proc PROVE pc[p] \notin Held /\ lock # p
    BY DEF SingleFlight
  <1>1. pc[p] = "idle" /\ lock = None
    BY DEF Init
  <1> QED BY <1>1, Names DEF Held

LEMMA StepFlight == Typed /\ SingleFlight /\ [Next]_vars => SingleFlight'
  <1> SUFFICES ASSUME Typed, SingleFlight, [Next]_vars PROVE SingleFlight'
    OBVIOUS
  <1>0. pc \in [Proc -> Label] /\ None \notin Proc
    BY Names DEF Typed, TypeOK
  <1> USE <1>0 DEF SingleFlight, Label, Before, Held, run, disk, source, bundle, unlocked, Goto, Conclude
  <1>1. ASSUME NEW p \in Proc, NEW m \in Mode, Ask(p, m) PROVE SingleFlight'
    BY <1>1 DEF Ask, Arrive
  <1>2. ASSUME NEW p \in Proc, PlaybookEnds(p) \/ RelayFails(p) \/ Stop(p) PROVE SingleFlight'
    BY <1>2 DEF PlaybookEnds, RelayFails, Stop
  <1>3. ASSUME NEW p \in Proc, Kill(p) PROVE SingleFlight'
    BY <1>3 DEF Kill, Forget
  <1>4. ASSUME NEW o \in orphans, OrphanEnds(o) PROVE SingleFlight'
    BY <1>4 DEF OrphanEnds
  <1>5. ASSUME NEW c \in Commit, PushMain(c) \/ RewriteMain(c) PROVE SingleFlight'
    BY <1>5 DEF PushMain, RewriteMain
  <1>6. CASE LoseCache \/ DamageFloor
    BY <1>6 DEF LoseCache, DamageFloor
  <1>7. ASSUME NEW v \in Commit \cup {None}, ResetFloor(v) PROVE SingleFlight'
    BY <1>7 DEF ResetFloor
  <1>8. ASSUME NEW p \in Proc, Step(p) PROVE SingleFlight'
    <2>1. CASE Publish(p) \/ PublishClash(p) \/ Receive(p) \/ ReceiveFails(p)
      BY <2>1 DEF Publish, PublishClash, Receive, ReceiveFails
    <2>2. CASE TakeLock(p) \/ Busy(p)
      BY <2>2 DEF TakeLock, Busy, LockFree
    <2>3. CASE Sweep(p) \/ Fetch(p) \/ FetchFails(p)
      BY <2>3 DEF Sweep, Fetch, FetchFails
    <2>4. CASE AdmitRemote(p) \/ RefuseRemote(p) \/ FaultRemote(p) \/ OpenQuarantine(p)
      BY <2>4 DEF AdmitRemote, RefuseRemote, FaultRemote, OpenQuarantine
    <2>5. ASSUME NEW good \in BOOLEAN,
                 AdmitBundle(p, good) \/ RefuseBundle(p, good) \/ FaultBundle(p, good)
          PROVE  SingleFlight'
      BY <2>5 DEF AdmitBundle, RefuseBundle, FaultBundle
    <2>6. ASSUME NEW d \in Dir, MakeCheckout(p, d) PROVE SingleFlight'
      BY <2>6 DEF MakeCheckout
    <2>7. CASE FillCheckout(p) \/ CheckoutFails(p) \/ RefuseOnDisk(p)
      BY <2>7 DEF FillCheckout, CheckoutFails, RefuseOnDisk
    <2>8. CASE BeginStopped(p) \/ BeginRun(p) \/ RecordApplied(p)
      BY <2>8 DEF BeginStopped, BeginRun, FirstStep, RecordApplied
    <2>9. CASE PromoteLink(p) \/ PromoteRetire(p) \/ StartPlaybook(p)
      BY <2>9 DEF PromoteLink, PromoteRetire, StartPlaybook
    <2>10. CASE Interrupt(p) \/ TimeOut(p) \/ CleanUp(p)
      BY <2>10 DEF Interrupt, TimeOut, CleanUp
    <2>11. CASE Fault(p)
      BY <2>11 DEF Fault
    <2>12. CASE Release(p)
      BY <2>12 DEF Release
    <2>13. CASE Answer(p)
      BY <2>13 DEF Answer, Forget
    <2> QED
      BY <1>8, <2>1, <2>2, <2>3, <2>4, <2>5, <2>6, <2>7, <2>8, <2>9, <2>10, <2>11, <2>12, <2>13
      DEF Step
  <1>9. CASE UNCHANGED vars
    BY <1>9 DEF vars
  <1> QED BY <1>1, <1>2, <1>3, <1>4, <1>5, <1>6, <1>7, <1>8, <1>9 DEF Next, Environment

(* single_flight: the lock is held by the one process that works on the      *)
(* host, however many run and whichever are killed.                          *)
THEOREM MutualExclusion == Spec => []SingleFlight
  BY InitTyped, StepTyped, InitFlight, StepFlight, PTL DEF Spec
-----------------------------------------------------------------------------
(* The floor.  From its admission to the end of its playbook a request holds *)
(* what was read of the commit and of the floor when it was admitted.        *)

Chosen == {"checkout"} \cup Placed
Ahead == {"checkout", "fill", "begin", "record"}

Judged ==
  \A p \in Proc :
    /\ pc[p] \in Chosen => JudgeSignature(commit[p]) /\ commit[p] \in PlaybookInTree
    /\ pc[p] \in {"record", "promote", "retire", "start", "running"}
         => commit[p] \in PlaybookOnDisk
NotRolledBack == \A p \in Proc : pc[p] \in Chosen => Includes(commit[p])
FloorAllows ==
  \A p \in Proc : pc[p] \in Ahead /\ floor \in Commit => NotAfter(floor, commit[p])
Raised ==
  \A p \in Proc :
    pc[p] \in {"promote", "retire"} \/ (pc[p] = "start" /\ mode[p] # "check")
      => floor \in {commit[p], Damaged}

FloorInv == Judged /\ NotRolledBack /\ FloorAllows /\ Raised /\ FloorCoversHost

LEMMA InitFloor == Init => FloorInv
  <1> SUFFICES ASSUME Init PROVE FloorInv
    OBVIOUS
  <1>1. \A p \in Proc : pc[p] = "idle"
    BY DEF Init
  <1>2. host = None
    BY DEF Init
  <1> QED
    BY <1>1, <1>2 DEF FloorInv, Judged, NotRolledBack, FloorAllows, Raised, FloorCoversHost, Chosen,
                      Ahead, Placed

LEMMA StepFloor == Typed /\ SingleFlight /\ FloorInv /\ [Next]_vars => FloorInv'
  <1> SUFFICES ASSUME Typed, SingleFlight, FloorInv, [Next]_vars PROVE FloorInv'
    OBVIOUS
  <1>types. /\ pc \in [Proc -> Label] /\ mode \in [Proc -> Mode]
        /\ commit \in [Proc -> Commit \cup {None}]
        /\ floor \in Commit \cup {None, Damaged} /\ host \in Commit \cup {None}
        /\ \A p \in Proc : pc[p] \in Chosen \cup {"admit"} => commit[p] \in Commit
    BY DEF Typed, TypeOK, Known, Named, Label, Before, Held, Chosen, Placed
  <1>one. \A p, q \in Proc : pc[p] \in Held /\ pc[q] \in Held => p = q
    BY DEF SingleFlight
  <1>labels. None \notin Commit /\ Damaged \notin Commit /\ None # Damaged
    BY Names, LabelAssumption
  <1> USE <1>types, <1>one, <1>labels
      DEF FloorInv, Judged, NotRolledBack, FloorAllows, Raised, FloorCoversHost, Includes, Chosen,
          Ahead, Placed, Held, run, disk, source, bundle, unlocked, Goto, Conclude
  <1>1. ASSUME NEW p \in Proc, NEW m \in Mode, Ask(p, m) PROVE FloorInv'
    BY <1>1 DEF Ask, Arrive
  <1>2. ASSUME NEW p \in Proc, PlaybookEnds(p) \/ RelayFails(p) \/ Stop(p) PROVE FloorInv'
    BY <1>2 DEF PlaybookEnds, RelayFails, Stop
  <1>3. ASSUME NEW p \in Proc, Kill(p) PROVE FloorInv'
    BY <1>3 DEF Kill, Forget
  <1>4. ASSUME NEW o \in orphans, OrphanEnds(o) PROVE FloorInv'
    BY <1>4 DEF OrphanEnds
  <1>5. ASSUME NEW c \in Commit, PushMain(c) \/ RewriteMain(c) PROVE FloorInv'
    BY <1>5 DEF PushMain, RewriteMain
  <1>6. CASE LoseCache \/ DamageFloor
    BY <1>6 DEF LoseCache, DamageFloor
  <1>7. ASSUME NEW v \in Commit \cup {None}, ResetFloor(v) PROVE FloorInv'
    <2>1. \A p \in Proc : pc[p] \notin Held
      BY <1>7, Names DEF ResetFloor, SingleFlight
    <2> QED BY <1>7, <2>1 DEF ResetFloor
  <1>8. ASSUME NEW p \in Proc, Step(p) PROVE FloorInv'
    <2>1. CASE Publish(p) \/ PublishClash(p) \/ Receive(p) \/ ReceiveFails(p)
      BY <2>1 DEF Publish, PublishClash, Receive, ReceiveFails
    <2>2. CASE TakeLock(p) \/ Busy(p)
      BY <2>2 DEF TakeLock, Busy
    <2>3. CASE Sweep(p) \/ Fetch(p) \/ FetchFails(p)
      BY <2>3 DEF Sweep, Fetch, FetchFails
    <2>4. CASE AdmitRemote(p)
      <3>1. JudgeSignature(commit[p]) /\ commit[p] \in PlaybookInTree
        BY <2>4 DEF AdmitRemote
      <3>2. floor = None \/ (floor \in Commit /\ NotAfter(floor, commit[p]))
        BY <2>4, AncestryAssumption DEF AdmitRemote, FloorKnown, NotOlder, LastApplied
      <3>3. Includes(commit[p])
        BY <2>4, <3>2, AncestryAssumption DEF AdmitRemote
      <3> QED BY <2>4, <3>1, <3>2, <3>3 DEF AdmitRemote
    <2>5. CASE RefuseRemote(p) \/ FaultRemote(p) \/ OpenQuarantine(p)
      BY <2>5 DEF RefuseRemote, FaultRemote, OpenQuarantine
    <2>6. ASSUME NEW good \in BOOLEAN, AdmitBundle(p, good) PROVE FloorInv'
      <3>1. JudgeSignature(commit[p]) /\ commit[p] \in PlaybookInTree
        BY <2>6 DEF AdmitBundle
      <3>2. floor \in Commit /\ NotAfter(floor, commit[p])
        BY <2>6, AncestryAssumption DEF AdmitBundle, BundleNotOlder, LastApplied
      <3>3. Includes(commit[p])
        BY <2>6, <3>2, AncestryAssumption DEF AdmitBundle
      <3> QED BY <2>6, <3>1, <3>2, <3>3 DEF AdmitBundle
    <2>7. ASSUME NEW good \in BOOLEAN, RefuseBundle(p, good) \/ FaultBundle(p, good)
          PROVE  FloorInv'
      BY <2>7 DEF RefuseBundle, FaultBundle
    <2>8. ASSUME NEW d \in Dir, MakeCheckout(p, d) PROVE FloorInv'
      BY <2>8 DEF MakeCheckout
    <2>9. CASE FillCheckout(p) \/ CheckoutFails(p) \/ RefuseOnDisk(p)
      BY <2>9 DEF FillCheckout, CheckoutFails, RefuseOnDisk
    <2>10. CASE BeginStopped(p) \/ BeginRun(p)
      BY <2>10 DEF BeginStopped, BeginRun, FirstStep
    <2>11. CASE RecordApplied(p)
      BY <2>11 DEF RecordApplied
    <2>12. CASE PromoteLink(p) \/ PromoteRetire(p)
      BY <2>12 DEF PromoteLink, PromoteRetire
    <2>13. CASE StartPlaybook(p)
      BY <2>13, AncestryAssumption DEF StartPlaybook
    <2>14. CASE Interrupt(p) \/ TimeOut(p) \/ CleanUp(p) \/ Fault(p)
      BY <2>14 DEF Interrupt, TimeOut, CleanUp, Fault
    <2>15. CASE Release(p) \/ Answer(p)
      BY <2>15 DEF Release, Answer, Forget
    <2> QED
      BY <1>8, <2>1, <2>2, <2>3, <2>4, <2>5, <2>6, <2>7, <2>8, <2>9, <2>10, <2>11, <2>12, <2>13,
         <2>14, <2>15 DEF Step
  <1>9. CASE UNCHANGED vars
    BY <1>9 DEF vars
  <1> QED BY <1>1, <1>2, <1>3, <1>4, <1>5, <1>6, <1>7, <1>8, <1>9 DEF Next, Environment

LEMMA FloorInvariant == Spec => [](Typed /\ SingleFlight /\ FloorInv)
  BY InitTyped, StepTyped, InitFlight, StepFlight, InitFloor, StepFloor, PTL DEF Spec

(* record_applied before everything: wherever a request is killed, the floor *)
(* is at or above what was begun on the host, or a damage stops every        *)
(* request.                                                                  *)
THEOREM FloorIsKept == Spec => []FloorCoversHost
  <1>1. FloorInv => FloorCoversHost
    BY DEF FloorInv
  <1> QED BY FloorInvariant, <1>1, PTL

(* The rollback check still holds when the playbook runs: nothing that was   *)
(* begun on the host is missing from the commit a request runs.              *)
THEOREM NoRollback == Spec => []NoStaleRun
  <1>1. FloorInv => NoStaleRun
    BY DEF FloorInv, NotRolledBack, NoStaleRun, Chosen, Placed
  <1> QED BY FloorInvariant, <1>1, PTL

(* Every step of the program is a step of the ledger, or none: the program   *)
(* keeps the promise of Ledger.                                              *)
THEOREM ImplementsLedger == Spec => LedgerSpec
  <1> USE DEF L!vars
  <1>1. Init => L!Init
    BY DEF Init, L!Init
  <1>2. Typed /\ SingleFlight /\ FloorInv /\ [Next]_vars => [L!Next]_L!vars
    <2> SUFFICES ASSUME Typed, SingleFlight, FloorInv, [Next]_vars PROVE [L!Next]_<<floor, host>>
      OBVIOUS
    <2> USE DEF run, disk, source, bundle, unlocked, Goto, Conclude
    <2>0. \A p \in Proc : pc[p] \in Chosen => commit[p] \in Commit
      BY DEF Typed, Known, Named, Label, Before, Held, Chosen, Placed
    <2>1. ASSUME NEW p \in Proc, RecordApplied(p) PROVE L!Next
      <3>1. Acceptable(commit[p]) /\ commit[p] \in Commit
        BY <2>0, <2>1 DEF RecordApplied, FloorInv, Judged, Acceptable, JudgeSignature, Chosen, Placed
      <3>2. floor \in Commit => NotAfter(floor, commit[p])
        BY <2>1 DEF RecordApplied, FloorInv, FloorAllows, Ahead
      <3>3. Includes(commit[p])
        BY <2>1 DEF RecordApplied, FloorInv, NotRolledBack, Chosen, Placed
      <3>4. L!Raise(commit[p])
        BY <2>1, <3>1, <3>2, <3>3 DEF RecordApplied, L!Raise, L!NotAfter, L!Includes, NotAfter, Includes
      <3> QED BY <3>1, <3>4 DEF L!Next
    <2>2. ASSUME NEW p \in Proc, StartPlaybook(p) PROVE [L!Next]_<<floor, host>>
      <3>1. CASE mode[p] = "check"
        BY <2>2, <3>1 DEF StartPlaybook
      <3>2. CASE mode[p] # "check"
        <4>1. Acceptable(commit[p]) /\ commit[p] \in Commit
          BY <2>0, <2>2 DEF StartPlaybook, FloorInv, Judged, Acceptable, JudgeSignature, Chosen, Placed
        <4>2. floor \in {commit[p], Damaged}
          BY <2>2, <3>2 DEF StartPlaybook, FloorInv, Raised
        <4>3. Includes(commit[p])
          BY <2>2 DEF StartPlaybook, FloorInv, NotRolledBack, Chosen, Placed
        <4>4. L!Begin(commit[p])
          BY <2>2, <3>2, <4>1, <4>2, <4>3
          DEF StartPlaybook, L!Begin, L!NotAfter, L!Includes, NotAfter, Includes
        <4> QED BY <4>1, <4>4 DEF L!Next
      <3> QED BY <3>1, <3>2
    <2>3. CASE DamageFloor
      BY <2>3 DEF DamageFloor, L!Next, L!Spoil
    <2>4. ASSUME NEW v \in Commit \cup {None}, ResetFloor(v) PROVE L!Next
      BY <2>4 DEF ResetFloor, L!Next, L!TakeOver
    <2>5. ASSUME NEW p \in Proc, Step(p), ~RecordApplied(p), ~StartPlaybook(p)
          PROVE  UNCHANGED <<floor, host>>
      BY <2>5
      DEF Step, Publish, PublishClash, Receive, ReceiveFails, TakeLock, Busy, Sweep, Fetch, FetchFails,
          AdmitRemote, RefuseRemote, FaultRemote, OpenQuarantine, AdmitBundle, RefuseBundle,
          FaultBundle, MakeCheckout, FillCheckout, CheckoutFails, RefuseOnDisk, BeginStopped,
          BeginRun, PromoteLink, PromoteRetire, Interrupt, TimeOut, Fault, CleanUp, Release, Answer
    <2>6. ASSUME NEW p \in Proc, NEW m \in Mode, Ask(p, m) PROVE UNCHANGED <<floor, host>>
      BY <2>6 DEF Ask, Arrive
    <2>7. ASSUME NEW p \in Proc, PlaybookEnds(p) \/ RelayFails(p) \/ Stop(p) \/ Kill(p)
          PROVE  UNCHANGED <<floor, host>>
      BY <2>7 DEF PlaybookEnds, RelayFails, Stop, Kill
    <2>8. ASSUME NEW o \in orphans, OrphanEnds(o) PROVE UNCHANGED <<floor, host>>
      BY <2>8 DEF OrphanEnds
    <2>9. ASSUME NEW c \in Commit, PushMain(c) \/ RewriteMain(c) PROVE UNCHANGED <<floor, host>>
      BY <2>9 DEF PushMain, RewriteMain
    <2>10. CASE LoseCache
      BY <2>10 DEF LoseCache
    <2>11. CASE UNCHANGED vars
      BY <2>11 DEF vars
    <2> QED
      BY <2>1, <2>2, <2>3, <2>4, <2>5, <2>6, <2>7, <2>8, <2>9, <2>10, <2>11 DEF Next, Environment
  <1> QED BY <1>1, <1>2, FloorInvariant, PTL DEF Spec, LedgerSpec, L!Spec

-----------------------------------------------------------------------------
(* The checkout.                                                             *)

Whole ==
  \A p \in Proc :
    /\ pc[p] \in Placed /\ pc[p] # "fill" => tree[dir[p]] = commit[p]
    /\ pc[p] = "fill" => tree[dir[p]] = Partial
Apart ==
  \A p \in Proc :
    /\ pc[p] \in {"fill", "begin", "record", "promote"} => dir[p] # current
    /\ pc[p] = "retire" \/ (pc[p] = "start" /\ mode[p] # "check") => dir[p] = current
    /\ pc[p] = "start" /\ mode[p] = "check" => dir[p] # current
    /\ pc[p] \in {"record", "promote", "retire"} => mode[p] # "check"
CurrentWhole == current # None => tree[current] \in Commit

CheckoutInv == Whole /\ Apart /\ CurrentWhole /\ CurrentNamesHost

LEMMA InitCheckout == Init => CheckoutInv
  <1> SUFFICES ASSUME Init PROVE CheckoutInv
    OBVIOUS
  <1>1. \A p \in Proc : pc[p] = "idle"
    BY DEF Init
  <1>2. current = None /\ host = None
    BY DEF Init
  <1> QED
    BY <1>1, <1>2 DEF CheckoutInv, Whole, Apart, CurrentWhole, CurrentNamesHost, Placed

LEMMA StepCheckout ==
  Typed /\ SingleFlight /\ FloorInv /\ CheckoutInv /\ [Next]_vars => CheckoutInv'
  <1> SUFFICES ASSUME Typed, SingleFlight, FloorInv, CheckoutInv, [Next]_vars PROVE CheckoutInv'
    OBVIOUS
  <1>types. /\ pc \in [Proc -> Label] /\ mode \in [Proc -> Mode]
            /\ commit \in [Proc -> Commit \cup {None}] /\ dir \in [Proc -> Dir \cup {None}]
            /\ previous \in [Proc -> Dir \cup {None}]
            /\ tree \in [Dir -> Commit \cup {None, Partial}]
            /\ current \in Dir \cup {None} /\ host \in Commit \cup {None}
            /\ \A p \in Proc : pc[p] \in Placed => commit[p] \in Commit /\ dir[p] \in Dir
    BY DEF Typed, TypeOK, Known, Named, Label, Before, Held, Placed
  <1>one. \A p, q \in Proc : pc[p] \in Held /\ pc[q] \in Held => p = q
    BY DEF SingleFlight
  <1>labels. None \notin Commit /\ Partial \notin Commit /\ None \notin Dir /\ None # Partial
    BY Names, LabelAssumption
  <1> USE <1>types, <1>one, <1>labels
      DEF CheckoutInv, Whole, Apart, CurrentWhole, CurrentNamesHost, Placed, Held, run, disk, source,
          bundle, unlocked, Goto, Conclude
  <1>1. ASSUME NEW p \in Proc, NEW m \in Mode, Ask(p, m) PROVE CheckoutInv'
    BY <1>1 DEF Ask, Arrive
  <1>2. ASSUME NEW p \in Proc, PlaybookEnds(p) \/ RelayFails(p) \/ Stop(p) PROVE CheckoutInv'
    BY <1>2 DEF PlaybookEnds, RelayFails, Stop
  <1>3. ASSUME NEW p \in Proc, Kill(p) PROVE CheckoutInv'
    BY <1>3 DEF Kill, Forget
  <1>4. ASSUME NEW o \in orphans, OrphanEnds(o) PROVE CheckoutInv'
    BY <1>4 DEF OrphanEnds
  <1>5. ASSUME NEW c \in Commit, PushMain(c) \/ RewriteMain(c) PROVE CheckoutInv'
    BY <1>5 DEF PushMain, RewriteMain
  <1>6. CASE LoseCache \/ DamageFloor
    BY <1>6 DEF LoseCache, DamageFloor
  <1>7. ASSUME NEW v \in Commit \cup {None}, ResetFloor(v) PROVE CheckoutInv'
    BY <1>7 DEF ResetFloor
  <1>8. ASSUME NEW p \in Proc, Step(p) PROVE CheckoutInv'
    <2>1. CASE Publish(p) \/ PublishClash(p) \/ Receive(p) \/ ReceiveFails(p)
      BY <2>1 DEF Publish, PublishClash, Receive, ReceiveFails
    <2>2. CASE TakeLock(p) \/ Busy(p)
      BY <2>2 DEF TakeLock, Busy
    <2>3. CASE Sweep(p)
      BY <2>3 DEF Sweep, SweepKeeps
    <2>4. CASE Fetch(p) \/ FetchFails(p) \/ AdmitRemote(p) \/ RefuseRemote(p) \/ FaultRemote(p)
      BY <2>4 DEF Fetch, FetchFails, AdmitRemote, RefuseRemote, FaultRemote
    <2>5. CASE OpenQuarantine(p)
      BY <2>5 DEF OpenQuarantine
    <2>6. ASSUME NEW good \in BOOLEAN,
                 AdmitBundle(p, good) \/ RefuseBundle(p, good) \/ FaultBundle(p, good)
          PROVE  CheckoutInv'
      BY <2>6 DEF AdmitBundle, RefuseBundle, FaultBundle
    <2>7. ASSUME NEW d \in Dir, MakeCheckout(p, d) PROVE CheckoutInv'
      BY <2>7 DEF MakeCheckout
    <2>8. CASE FillCheckout(p)
      BY <2>8 DEF FillCheckout
    <2>9. CASE CheckoutFails(p)
      BY <2>9 DEF CheckoutFails
    <2>10. CASE RefuseOnDisk(p) \/ BeginStopped(p) \/ BeginRun(p)
      BY <2>10 DEF RefuseOnDisk, BeginStopped, BeginRun, FirstStep
    <2>11. CASE RecordApplied(p)
      BY <2>11 DEF RecordApplied
    <2>12. CASE PromoteLink(p)
      BY <2>12 DEF PromoteLink, FloorInv, NotRolledBack, Chosen, Includes
    <2>13. CASE PromoteRetire(p)
      BY <2>13 DEF PromoteRetire
    <2>14. CASE StartPlaybook(p)
      BY <2>14, AncestryAssumption DEF StartPlaybook
    <2>15. CASE Interrupt(p) \/ TimeOut(p) \/ Fault(p)
      BY <2>15 DEF Interrupt, TimeOut, Fault
    <2>16. CASE CleanUp(p)
      BY <2>16 DEF CleanUp
    <2>17. CASE Release(p) \/ Answer(p)
      BY <2>17 DEF Release, Answer, Forget
    <2> QED
      BY <1>8, <2>1, <2>2, <2>3, <2>4, <2>5, <2>6, <2>7, <2>8, <2>9, <2>10, <2>11, <2>12, <2>13,
         <2>14, <2>15, <2>16, <2>17 DEF Step
  <1>9. CASE UNCHANGED vars
    BY <1>9 DEF vars
  <1> QED BY <1>1, <1>2, <1>3, <1>4, <1>5, <1>6, <1>7, <1>8, <1>9 DEF Next, Environment

LEMMA CheckoutInvariant == Spec => [](Typed /\ CheckoutInv)
  BY InitTyped, StepTyped, InitFlight, StepFlight, InitFloor, StepFloor, InitCheckout, StepCheckout,
     PTL DEF Spec

(* The current link names a complete checkout, and the checkout of a live    *)
(* run stays complete: no sweep, promotion or clean-up takes it away.        *)
THEOREM CheckoutsStay == Spec => []CheckoutsIntact
  <1>1. Typed /\ CheckoutInv => CheckoutsIntact
    BY Names DEF Typed, Known, CheckoutInv, Whole, CurrentWhole, CheckoutsIntact, Placed
  <1> QED BY CheckoutInvariant, <1>1, PTL

(* The commit a person reads off the current link is at or above what was    *)
(* begun on the host: it is safe to write into a damaged floor.              *)
THEOREM CurrentIsSafeFloor == Spec => []CurrentNamesHost
  <1>1. CheckoutInv => CurrentNamesHost
    BY DEF CheckoutInv
  <1> QED BY CheckoutInvariant, <1>1, PTL
-----------------------------------------------------------------------------
(* What runs.  What was ever fetched from main was part of it, and what is   *)
(* left behind, in orphans and in the current checkout, was chosen once.     *)

Fetched ==
  /\ Ancestors(main) \subseteq wasMain
  /\ cache.tip # None => Ancestors(cache.tip) \subseteq wasMain
ChosenOnMain == \A p \in Proc : pc[p] \in Chosen /\ Source = "remote" => commit[p] \in wasMain
LeftBehind ==
  /\ \A o \in orphans : MayRun(o.commit)
  /\ current # None => MayRun(tree[current])

RunsInv == Fetched /\ ChosenOnMain /\ LeftBehind

LEMMA InitRuns == Init => RunsInv
  <1> SUFFICES ASSUME Init PROVE RunsInv
    OBVIOUS
  <1>1. Fetched
    BY DEF Init, Fetched
  <1>2. ChosenOnMain
    BY DEF Init, ChosenOnMain, Chosen, Placed
  <1>3. LeftBehind
    BY DEF Init, LeftBehind
  <1> QED BY <1>1, <1>2, <1>3 DEF RunsInv

(* A commit that may run still may after main has moved: wasMain only grows. *)
LEMMA StillMayRun ==
  ASSUME wasMain \subseteq wasMain', NEW c, MayRun(c)
  PROVE  MayRun(c)'
  BY DEF MayRun

LEMMA StepRuns ==
  Typed /\ SingleFlight /\ FloorInv /\ CheckoutInv /\ RunsInv /\ [Next]_vars => RunsInv'
  <1> SUFFICES ASSUME Typed, SingleFlight, FloorInv, CheckoutInv, RunsInv, [Next]_vars
               PROVE  RunsInv'
    OBVIOUS
  <1>types. /\ pc \in [Proc -> Label] /\ commit \in [Proc -> Commit \cup {None}]
            /\ dir \in [Proc -> Dir \cup {None}] /\ previous \in [Proc -> Dir \cup {None}]
            /\ tree \in [Dir -> Commit \cup {None, Partial}] /\ current \in Dir \cup {None}
            /\ cache \in [tip: Commit \cup {None}, objects: SUBSET Commit]
            /\ main \in Commit /\ wasMain \in SUBSET Commit
            /\ \A p \in Proc : pc[p] \in Chosen \cup {"admit"} => commit[p] \in Commit
            /\ \A p \in Proc : pc[p] \in Placed => dir[p] \in Dir
    BY DEF Typed, TypeOK, Known, Named, Label, Before, Held, Chosen, Placed
  <1>mayrun. \A p \in Proc : pc[p] \in {"promote", "running"} => MayRun(commit[p])
    BY DEF FloorInv, Judged, RunsInv, ChosenOnMain, Chosen, Placed, MayRun, Acceptable, JudgeSignature
  <1>labels. None \notin Dir
    BY Names
  <1> USE <1>types, <1>mayrun, <1>labels
      DEF RunsInv, Fetched, ChosenOnMain, LeftBehind, Chosen, Placed, run, disk, source, bundle,
          unlocked, Goto, Conclude
  <1>1. ASSUME NEW p \in Proc, NEW m \in Mode, Ask(p, m) PROVE RunsInv'
    BY <1>1 DEF Ask, Arrive, MayRun
  <1>2. ASSUME NEW p \in Proc, PlaybookEnds(p) \/ RelayFails(p) \/ Stop(p) PROVE RunsInv'
    BY <1>2 DEF PlaybookEnds, RelayFails, Stop, Playbook, MayRun
  <1>3. ASSUME NEW p \in Proc, Kill(p) PROVE RunsInv'
    BY <1>3 DEF Kill, Forget, Playbook, MayRun
  <1>4. ASSUME NEW o \in orphans, OrphanEnds(o) PROVE RunsInv'
    BY <1>4 DEF OrphanEnds, MayRun
  <1>5. ASSUME NEW c \in Commit, PushMain(c) \/ RewriteMain(c) PROVE RunsInv'
    <2>1. wasMain \subseteq wasMain' /\ Ancestors(main') \subseteq wasMain'
      BY <1>5 DEF PushMain, RewriteMain
    <2>2. LeftBehind'
      BY <1>5, <2>1, StillMayRun DEF PushMain, RewriteMain
    <2> QED BY <1>5, <2>1, <2>2 DEF PushMain, RewriteMain
  <1>6. CASE LoseCache \/ DamageFloor
    BY <1>6 DEF LoseCache, DamageFloor, MayRun
  <1>7. ASSUME NEW v \in Commit \cup {None}, ResetFloor(v) PROVE RunsInv'
    BY <1>7 DEF ResetFloor, MayRun
  <1>8. ASSUME NEW p \in Proc, Step(p) PROVE RunsInv'
    <2>1. CASE Publish(p) \/ PublishClash(p) \/ Receive(p) \/ ReceiveFails(p)
      BY <2>1 DEF Publish, PublishClash, Receive, ReceiveFails, MayRun
    <2>2. CASE TakeLock(p) \/ Busy(p) \/ OpenQuarantine(p)
      BY <2>2 DEF TakeLock, Busy, OpenQuarantine, MayRun
    <2>3. CASE Sweep(p)
      BY <2>3 DEF Sweep, SweepKeeps, MayRun
    <2>4. CASE Fetch(p) \/ FetchFails(p)
      BY <2>4 DEF Fetch, FetchFails, MayRun
    <2>5. CASE AdmitRemote(p)
      <3>1. commit[p] \in wasMain
        BY <2>5 DEF AdmitRemote, OnMain, Ancestors
      <3> QED BY <2>5, <3>1 DEF AdmitRemote, MayRun
    <2>6. CASE RefuseRemote(p) \/ FaultRemote(p)
      BY <2>6 DEF RefuseRemote, FaultRemote, MayRun
    <2>7. ASSUME NEW good \in BOOLEAN,
                 AdmitBundle(p, good) \/ RefuseBundle(p, good) \/ FaultBundle(p, good)
          PROVE  RunsInv'
      BY <2>7 DEF AdmitBundle, RefuseBundle, FaultBundle, MayRun
    <2>8. ASSUME NEW d \in Dir, MakeCheckout(p, d) PROVE RunsInv'
      <3>1. current # None => current # d
        BY <2>8, Names, LabelAssumption DEF MakeCheckout, CheckoutInv, CurrentWhole
      <3> QED BY <2>8, <3>1 DEF MakeCheckout, MayRun
    <2>9. CASE FillCheckout(p) \/ CheckoutFails(p)
      <3>1. dir[p] # current
        BY <2>9 DEF FillCheckout, CheckoutFails, CheckoutInv, Apart
      <3> QED BY <2>9, <3>1 DEF FillCheckout, CheckoutFails, MayRun
    <2>10. CASE RefuseOnDisk(p) \/ BeginStopped(p) \/ BeginRun(p) \/ RecordApplied(p)
      BY <2>10 DEF RefuseOnDisk, BeginStopped, BeginRun, FirstStep, RecordApplied, MayRun
    <2>11. CASE PromoteLink(p)
      <3>1. tree[dir[p]] = commit[p]
        BY <2>11 DEF PromoteLink, CheckoutInv, Whole
      <3> QED BY <2>11, <3>1 DEF PromoteLink, MayRun
    <2>12. CASE PromoteRetire(p)
      <3>1. dir[p] = current
        BY <2>12 DEF PromoteRetire, CheckoutInv, Apart
      <3> QED BY <2>12, <3>1 DEF PromoteRetire, MayRun
    <2>13. CASE StartPlaybook(p)
      BY <2>13 DEF StartPlaybook, MayRun
    <2>14. CASE Interrupt(p) \/ TimeOut(p) \/ Fault(p)
      BY <2>14 DEF Interrupt, TimeOut, Fault, MayRun
    <2>15. CASE CleanUp(p)
      BY <2>15 DEF CleanUp, MayRun
    <2>16. CASE Release(p) \/ Answer(p)
      BY <2>16 DEF Release, Answer, Forget, MayRun
    <2> QED
      BY <1>8, <2>1, <2>2, <2>3, <2>4, <2>5, <2>6, <2>7, <2>8, <2>9, <2>10, <2>11, <2>12, <2>13,
         <2>14, <2>15, <2>16 DEF Step
  <1>9. CASE UNCHANGED vars
    BY <1>9 DEF vars, MayRun
  <1> QED BY <1>1, <1>2, <1>3, <1>4, <1>5, <1>6, <1>7, <1>8, <1>9 DEF Next, Environment

(* Whatever runs, outlives its process or is named by the current link is of *)
(* a commit signed by a listed key, with its playbook in the tree and on the *)
(* disk, and, on the remote source, of one that was part of main.            *)
THEOREM OnlyAcceptable == Spec => []OnlyAcceptableRuns
  <1>1. FloorInv /\ RunsInv => OnlyAcceptableRuns
    BY DEF FloorInv, Judged, RunsInv, ChosenOnMain, LeftBehind, OnlyAcceptableRuns, Chosen, Placed,
           MayRun, Acceptable, JudgeSignature
  <1> QED
    BY InitTyped, StepTyped, InitFlight, StepFlight, InitFloor, StepFloor, InitCheckout,
       StepCheckout, InitRuns, StepRuns, <1>1, PTL DEF Spec
-----------------------------------------------------------------------------
(* A bundle: what it brought, and the floor it needs.                        *)

(* A request has its quarantine from its opening to the clean-up, and its    *)
(* upload as long as it lasts.                                               *)
Uploads ==
  \A p \in Proc :
    /\ quarantine[p] = "mine" => pc[p] \in Held \ {"sweep", "source", "release"}
    /\ spool[p] = "mine" => pc[p] # "idle"
FloorStays == \A p \in Proc : pc[p] \in Chosen /\ Source = "bundle" => floor # None

BundleInv == Uploads /\ FloorStays

LEMMA InitBundle == Init => BundleInv
  BY DEF Init, BundleInv, Uploads, FloorStays, Chosen, Placed

LEMMA StepBundle == Typed /\ SingleFlight /\ BundleInv /\ [Next]_vars => BundleInv'
  <1> SUFFICES ASSUME Typed, SingleFlight, BundleInv, [Next]_vars PROVE BundleInv'
    OBVIOUS
  <1>types. /\ pc \in [Proc -> Label]
            /\ quarantine \in [Proc -> Slot] /\ spool \in [Proc -> Slot]
            /\ \A p \in Proc : pc[p] \in Chosen \cup {"admit"} => commit[p] \in Commit
    BY DEF Typed, TypeOK, Known, Named, Label, Before, Held, Chosen, Placed
  <1>one. \A p, q \in Proc : pc[p] \in Held /\ pc[q] \in Held => p = q
    BY DEF SingleFlight
  <1>labels. None \notin Commit /\ None # Damaged
    BY Names, LabelAssumption
  <1> USE <1>types, <1>one, <1>labels
      DEF BundleInv, Uploads, FloorStays, Chosen, Placed, Held, run, disk, source, bundle, unlocked,
          Goto, Conclude
  <1>1. ASSUME NEW p \in Proc, NEW m \in Mode, Ask(p, m) PROVE BundleInv'
    BY <1>1 DEF Ask, Arrive
  <1>2. ASSUME NEW p \in Proc, PlaybookEnds(p) \/ RelayFails(p) \/ Stop(p) PROVE BundleInv'
    BY <1>2 DEF PlaybookEnds, RelayFails, Stop
  <1>3. ASSUME NEW p \in Proc, Kill(p) PROVE BundleInv'
    BY <1>3 DEF Kill, Forget
  <1>4. ASSUME NEW o \in orphans, OrphanEnds(o) PROVE BundleInv'
    BY <1>4 DEF OrphanEnds
  <1>5. ASSUME NEW c \in Commit, PushMain(c) \/ RewriteMain(c) PROVE BundleInv'
    BY <1>5 DEF PushMain, RewriteMain
  <1>6. CASE LoseCache \/ DamageFloor
    BY <1>6 DEF LoseCache, DamageFloor
  <1>7. ASSUME NEW v \in Commit \cup {None}, ResetFloor(v) PROVE BundleInv'
    <2>1. \A p \in Proc : pc[p] \notin Held
      BY <1>7, Names DEF ResetFloor, SingleFlight
    <2> QED BY <1>7, <2>1 DEF ResetFloor
  <1>8. ASSUME NEW p \in Proc, Step(p) PROVE BundleInv'
    <2>1. CASE Publish(p)
      BY <2>1 DEF Publish
    <2>2. CASE PublishClash(p) \/ Receive(p) \/ ReceiveFails(p) \/ TakeLock(p) \/ Busy(p)
      BY <2>2 DEF PublishClash, Receive, ReceiveFails, TakeLock, Busy
    <2>3. CASE Sweep(p)
      BY <2>3 DEF Sweep
    <2>4. CASE Fetch(p) \/ FetchFails(p) \/ AdmitRemote(p) \/ RefuseRemote(p) \/ FaultRemote(p)
      BY <2>4, SourceAssumption DEF Fetch, FetchFails, AdmitRemote, RefuseRemote, FaultRemote
    <2>5. CASE OpenQuarantine(p)
      BY <2>5 DEF OpenQuarantine
    <2>6. ASSUME NEW good \in BOOLEAN, AdmitBundle(p, good) PROVE BundleInv'
      BY <2>6 DEF AdmitBundle, BundleNotOlder, LastApplied
    <2>7. ASSUME NEW good \in BOOLEAN, RefuseBundle(p, good) \/ FaultBundle(p, good)
          PROVE  BundleInv'
      BY <2>7 DEF RefuseBundle, FaultBundle
    <2>8. ASSUME NEW d \in Dir, MakeCheckout(p, d) PROVE BundleInv'
      BY <2>8 DEF MakeCheckout
    <2>9. CASE FillCheckout(p) \/ CheckoutFails(p) \/ RefuseOnDisk(p)
      BY <2>9 DEF FillCheckout, CheckoutFails, RefuseOnDisk
    <2>10. CASE BeginStopped(p) \/ BeginRun(p) \/ RecordApplied(p)
      BY <2>10 DEF BeginStopped, BeginRun, FirstStep, RecordApplied
    <2>11. CASE PromoteLink(p) \/ PromoteRetire(p) \/ StartPlaybook(p)
      BY <2>11 DEF PromoteLink, PromoteRetire, StartPlaybook
    <2>12. CASE Interrupt(p) \/ TimeOut(p) \/ Fault(p)
      BY <2>12 DEF Interrupt, TimeOut, Fault
    <2>13. CASE CleanUp(p) \/ Release(p)
      BY <2>13 DEF CleanUp, Release
    <2>14. CASE Answer(p)
      BY <2>14 DEF Answer, Forget
    <2> QED
      BY <1>8, <2>1, <2>2, <2>3, <2>4, <2>5, <2>6, <2>7, <2>8, <2>9, <2>10, <2>11, <2>12, <2>13,
         <2>14 DEF Step
  <1>9. CASE UNCHANGED vars
    BY <1>9 DEF vars
  <1> QED BY <1>1, <1>2, <1>3, <1>4, <1>5, <1>6, <1>7, <1>8, <1>9 DEF Next, Environment

LEMMA BundleInvariant == Spec => [](SingleFlight /\ BundleInv)
  BY InitTyped, StepTyped, InitFlight, StepFlight, InitBundle, StepBundle, PTL DEF Spec

(* sweep_bundle takes no quarantine that is in use: only the holder of the   *)
(* lock has one, and only from its opening to its clean-up, so the sweep of  *)
(* another request, or its own, meets none.                                  *)
THEOREM QuarantineIsOwned == Spec => []QuarantineOwned
  <1>1. SingleFlight /\ BundleInv => QuarantineOwned
    BY DEF SingleFlight, BundleInv, Uploads, QuarantineOwned
  <1> QED BY BundleInvariant, <1>1, PTL

(* Every way out of a bundle request but KILL has removed its quarantine     *)
(* before it answers, and its upload before it ends.                         *)
THEOREM LeavesNothingBehind == Spec => []NothingLeftBehind
  <1>1. BundleInv => NothingLeftBehind
    BY DEF BundleInv, Uploads, NothingLeftBehind, Held
  <1> QED BY BundleInvariant, <1>1, PTL

(* A host that takes bundles and has no floor runs nothing; the floor that   *)
(* was read at the admission is not taken away before the playbook runs.     *)
THEOREM NothingRunsWithoutFloor == Spec => []BundleNeedsFloor
  <1>1. BundleInv => BundleNeedsFloor
    BY DEF BundleInv, FloorStays, BundleNeedsFloor, Chosen, Placed
  <1> QED BY BundleInvariant, <1>1, PTL
-----------------------------------------------------------------------------
(* Main.  A commit is chosen because the tip that was fetched includes it;   *)
(* while main is not rewritten, main includes that tip, and the floor unless *)
(* a hand has moved it.                                                      *)

ChosenOnTip ==
  \A p \in Proc : pc[p] \in Chosen /\ Source = "remote" /\ cache.tip # None =>
    NotAfter(commit[p], cache.tip)
OnlyPushed == Source = "remote" /\ count.rewrites = 0
TipInMain == OnlyPushed /\ cache.tip # None => NotAfter(cache.tip, main)
ChosenInMain == OnlyPushed => \A p \in Proc : pc[p] \in Chosen => NotAfter(commit[p], main)
Undamaged == count.hands = 0 => floor # Damaged

MainInv == ChosenOnTip /\ TipInMain /\ ChosenInMain /\ Undamaged /\ WayForward

LEMMA InitMain == Init => MainInv
  BY SeedAssumption, Names, LabelAssumption
  DEF Init, MainInv, ChosenOnTip, OnlyPushed, TipInMain, ChosenInMain, Undamaged, WayForward, Chosen,
      Placed

LEMMA StepMain == Typed /\ SingleFlight /\ MainInv /\ [Next]_vars => MainInv'
  <1> SUFFICES ASSUME Typed, SingleFlight, MainInv, [Next]_vars PROVE MainInv'
    OBVIOUS
  <1>types. /\ pc \in [Proc -> Label] /\ commit \in [Proc -> Commit \cup {None}]
            /\ cache \in [tip: Commit \cup {None}, objects: SUBSET Commit]
            /\ main \in Commit /\ floor \in Commit \cup {None, Damaged}
            /\ count \in [kills: Nat, hands: Nat, rewrites: Nat]
            /\ \A p \in Proc : pc[p] \in Chosen \cup {"admit"} => commit[p] \in Commit
    BY BoundAssumption DEF Typed, TypeOK, Known, Named, Label, Before, Held, Chosen, Placed, Counts
  <1>one. \A p, q \in Proc : pc[p] \in Held /\ pc[q] \in Held => p = q
    BY DEF SingleFlight
  <1>labels. Damaged \notin Commit
    BY Names
  <1> USE <1>types, <1>one, <1>labels
      DEF MainInv, ChosenOnTip, OnlyPushed, TipInMain, ChosenInMain, Undamaged, WayForward, Chosen,
          Placed, Held, run, disk, source, bundle, unlocked, Goto, Conclude
  <1>1. ASSUME NEW p \in Proc, NEW m \in Mode, Ask(p, m) PROVE MainInv'
    BY <1>1 DEF Ask, Arrive
  <1>2. ASSUME NEW p \in Proc, PlaybookEnds(p) \/ RelayFails(p) \/ Stop(p) PROVE MainInv'
    BY <1>2 DEF PlaybookEnds, RelayFails, Stop
  <1>3. ASSUME NEW p \in Proc, Kill(p) PROVE MainInv'
    BY <1>3 DEF Kill, Forget
  <1>4. ASSUME NEW o \in orphans, OrphanEnds(o) PROVE MainInv'
    BY <1>4 DEF OrphanEnds
  <1>5. ASSUME NEW c \in Commit, PushMain(c) PROVE MainInv'
    <2>1. main' = c /\ NotAfter(main, c) /\ UNCHANGED <<pc, commit, cache, count, floor>>
      BY <1>5 DEF PushMain
    <2>2. ASSUME NEW a \in Commit, NotAfter(a, main) PROVE NotAfter(a, main')
      BY <2>1, <2>2, AncestryAssumption
    <2>3. TipInMain' /\ ChosenInMain'
      BY <2>1, <2>2
    <2>4. WayForward'
      BY <2>1, <2>2
    <2> QED BY <2>1, <2>3, <2>4
  <1>6. ASSUME NEW c \in Commit, RewriteMain(c) PROVE MainInv'
    BY <1>6 DEF RewriteMain
  <1>7. CASE LoseCache
    BY <1>7 DEF LoseCache
  <1>8. CASE DamageFloor
    BY <1>8 DEF DamageFloor
  <1>9. ASSUME NEW v \in Commit \cup {None}, ResetFloor(v) PROVE MainInv'
    BY <1>9 DEF ResetFloor
  <1>10. ASSUME NEW p \in Proc, Step(p) PROVE MainInv'
    <2>1. CASE Publish(p) \/ PublishClash(p) \/ Receive(p) \/ ReceiveFails(p)
      BY <2>1 DEF Publish, PublishClash, Receive, ReceiveFails
    <2>2. CASE TakeLock(p) \/ Busy(p) \/ Sweep(p)
      BY <2>2 DEF TakeLock, Busy, Sweep
    <2>3. CASE Fetch(p)
      BY <2>3, AncestryAssumption DEF Fetch
    <2>4. CASE FetchFails(p)
      BY <2>4 DEF FetchFails
    <2>5. CASE AdmitRemote(p)
      <3>1. cache.tip \in Commit /\ NotAfter(commit[p], cache.tip)
        BY <2>5 DEF AdmitRemote, OnMain
      <3>2. OnlyPushed => NotAfter(commit[p], main)
        BY <2>5, <3>1, AncestryAssumption DEF AdmitRemote, OnMain
      <3> QED BY <2>5, <3>1, <3>2 DEF AdmitRemote
    <2>6. CASE RefuseRemote(p) \/ FaultRemote(p) \/ OpenQuarantine(p)
      BY <2>6 DEF RefuseRemote, FaultRemote, OpenQuarantine
    <2>7. ASSUME NEW good \in BOOLEAN,
                 AdmitBundle(p, good) \/ RefuseBundle(p, good) \/ FaultBundle(p, good)
          PROVE  MainInv'
      BY <2>7 DEF AdmitBundle, RefuseBundle, FaultBundle
    <2>8. ASSUME NEW d \in Dir, MakeCheckout(p, d) PROVE MainInv'
      BY <2>8 DEF MakeCheckout
    <2>9. CASE FillCheckout(p) \/ CheckoutFails(p) \/ RefuseOnDisk(p)
      BY <2>9 DEF FillCheckout, CheckoutFails, RefuseOnDisk
    <2>10. CASE BeginStopped(p) \/ BeginRun(p)
      BY <2>10 DEF BeginStopped, BeginRun, FirstStep
    <2>11. CASE RecordApplied(p)
      BY <2>11 DEF RecordApplied
    <2>12. CASE PromoteLink(p) \/ PromoteRetire(p) \/ StartPlaybook(p)
      BY <2>12 DEF PromoteLink, PromoteRetire, StartPlaybook
    <2>13. CASE Interrupt(p) \/ TimeOut(p) \/ Fault(p)
      BY <2>13 DEF Interrupt, TimeOut, Fault
    <2>14. CASE CleanUp(p) \/ Release(p) \/ Answer(p)
      BY <2>14 DEF CleanUp, Release, Answer, Forget
    <2> QED
      BY <1>10, <2>1, <2>2, <2>3, <2>4, <2>5, <2>6, <2>7, <2>8, <2>9, <2>10, <2>11, <2>12, <2>13,
         <2>14 DEF Step
  <1>11. CASE UNCHANGED vars
    BY <1>11 DEF vars
  <1> QED BY <1>1, <1>2, <1>3, <1>4, <1>5, <1>6, <1>7, <1>8, <1>9, <1>10, <1>11 DEF Next, Environment

LEMMA MainInvariant == Spec => []MainInv
  BY InitTyped, StepTyped, InitFlight, StepFlight, InitMain, StepMain, PTL DEF Spec

(* require_ancestor_of_main: what runs is part of the main that its request  *)
(* fetched, whatever commits the cache still holds.                          *)
THEOREM OnlyMainRuns == Spec => []RunsWhatMainHolds
  <1>1. MainInv => RunsWhatMainHolds
    BY DEF MainInv, ChosenOnTip, RunsWhatMainHolds, Chosen, Placed
  <1> QED BY MainInvariant, <1>1, PTL

(* A failed or interrupted apply never locks the host out: unless main was   *)
(* rewritten or a hand moved the floor, the tip of main is at or above the   *)
(* floor, and so is never refused as a rollback.                             *)
THEOREM TipIsNeverRollback == Spec => []WayForward
  <1>1. MainInv => WayForward
    BY DEF MainInv
  <1> QED BY MainInvariant, <1>1, PTL
-----------------------------------------------------------------------------
(* Work directories.                                                         *)

Swept ==
  \A p \in Proc :
    /\ pc[p] \in {"source", "admit", "checkout"} => Existing \subseteq {current}
    /\ pc[p] \in Placed \ {"retire"} => Existing \subseteq {current, dir[p]}
    /\ pc[p] = "retire" => Existing \subseteq {previous[p], dir[p]}

LEMMA InitSwept == Init => Swept
  <1>1. Init => \A p \in Proc : pc[p] = "idle"
    BY DEF Init
  <1> QED
    BY <1>1 DEF Swept, Placed

LEMMA StepSwept == Typed /\ SingleFlight /\ CheckoutInv /\ Swept /\ [Next]_vars => Swept'
  <1> SUFFICES ASSUME Typed, SingleFlight, CheckoutInv, Swept, [Next]_vars PROVE Swept'
    OBVIOUS
  <1>types. /\ pc \in [Proc -> Label] /\ mode \in [Proc -> Mode]
            /\ dir \in [Proc -> Dir \cup {None}] /\ previous \in [Proc -> Dir \cup {None}]
            /\ tree \in [Dir -> Commit \cup {None, Partial}] /\ current \in Dir \cup {None}
            /\ \A p \in Proc : pc[p] \in Placed => dir[p] \in Dir
    BY DEF Typed, TypeOK, Known, Named, Label, Before, Held, Placed
  <1>one. \A p, q \in Proc : pc[p] \in Held /\ pc[q] \in Held => p = q
    BY DEF SingleFlight
  <1> USE <1>types, <1>one
      DEF Swept, Existing, Placed, Held, run, disk, source, bundle, unlocked, Goto, Conclude
  <1>1. ASSUME NEW p \in Proc, NEW m \in Mode, Ask(p, m) PROVE Swept'
    BY <1>1 DEF Ask, Arrive
  <1>2. ASSUME NEW p \in Proc, PlaybookEnds(p) \/ RelayFails(p) \/ Stop(p) PROVE Swept'
    BY <1>2 DEF PlaybookEnds, RelayFails, Stop
  <1>3. ASSUME NEW p \in Proc, Kill(p) PROVE Swept'
    BY <1>3 DEF Kill, Forget
  <1>4. ASSUME NEW o \in orphans, OrphanEnds(o) PROVE Swept'
    BY <1>4 DEF OrphanEnds
  <1>5. ASSUME NEW c \in Commit, PushMain(c) \/ RewriteMain(c) PROVE Swept'
    BY <1>5 DEF PushMain, RewriteMain
  <1>6. CASE LoseCache \/ DamageFloor
    BY <1>6 DEF LoseCache, DamageFloor
  <1>7. ASSUME NEW v \in Commit \cup {None}, ResetFloor(v) PROVE Swept'
    BY <1>7 DEF ResetFloor
  <1>8. ASSUME NEW p \in Proc, Step(p) PROVE Swept'
    <2>1. CASE Publish(p) \/ PublishClash(p) \/ Receive(p) \/ ReceiveFails(p)
      BY <2>1 DEF Publish, PublishClash, Receive, ReceiveFails
    <2>2. CASE TakeLock(p) \/ Busy(p)
      BY <2>2 DEF TakeLock, Busy
    <2>3. CASE Sweep(p)
      BY <2>3 DEF Sweep, SweepKeeps
    <2>4. CASE Fetch(p) \/ FetchFails(p) \/ AdmitRemote(p) \/ RefuseRemote(p) \/ FaultRemote(p)
      BY <2>4 DEF Fetch, FetchFails, AdmitRemote, RefuseRemote, FaultRemote
    <2>5. CASE OpenQuarantine(p)
      BY <2>5 DEF OpenQuarantine
    <2>6. ASSUME NEW good \in BOOLEAN,
                 AdmitBundle(p, good) \/ RefuseBundle(p, good) \/ FaultBundle(p, good)
          PROVE  Swept'
      BY <2>6 DEF AdmitBundle, RefuseBundle, FaultBundle
    <2>7. ASSUME NEW d \in Dir, MakeCheckout(p, d) PROVE Swept'
      BY <2>7 DEF MakeCheckout
    <2>8. CASE FillCheckout(p) \/ CheckoutFails(p)
      BY <2>8 DEF FillCheckout, CheckoutFails
    <2>9. CASE RefuseOnDisk(p) \/ BeginStopped(p) \/ BeginRun(p) \/ RecordApplied(p)
      BY <2>9 DEF RefuseOnDisk, BeginStopped, BeginRun, FirstStep, RecordApplied
    <2>10. CASE PromoteLink(p)
      BY <2>10 DEF PromoteLink
    <2>11. CASE PromoteRetire(p)
      <3>1. dir[p] = current
        BY <2>11 DEF PromoteRetire, CheckoutInv, Apart
      <3>2. Existing' \subseteq {dir[p]}
        BY <2>11, Names DEF PromoteRetire
      <3> QED BY <2>11, <3>1, <3>2 DEF PromoteRetire
    <2>12. CASE StartPlaybook(p)
      BY <2>12 DEF StartPlaybook
    <2>13. CASE Interrupt(p) \/ TimeOut(p) \/ Fault(p)
      BY <2>13 DEF Interrupt, TimeOut, Fault
    <2>14. CASE CleanUp(p) \/ Release(p) \/ Answer(p)
      BY <2>14 DEF CleanUp, Release, Answer, Forget
    <2> QED
      BY <1>8, <2>1, <2>2, <2>3, <2>4, <2>5, <2>6, <2>7, <2>8, <2>9, <2>10, <2>11, <2>12, <2>13,
         <2>14 DEF Step
  <1>9. CASE UNCHANGED vars
    BY <1>9 DEF vars
  <1> QED BY <1>1, <1>2, <1>3, <1>4, <1>5, <1>6, <1>7, <1>8, <1>9 DEF Next, Environment

(* Work directories do not pile up, whatever was killed before: past its     *)
(* sweep a request sees the current checkout, its own and the one it is      *)
(* about to retire, and nothing else.                                        *)
THEOREM SweepLeavesNothing == Spec => []SweptIsClean
  <1>1. Swept => SweptIsClean
    BY DEF Swept, SweptIsClean, Held, Placed
  <1> QED
    BY InitTyped, StepTyped, InitFlight, StepFlight, InitFloor, StepFloor, InitCheckout,
       StepCheckout, InitSwept, StepSwept, <1>1, PTL DEF Spec
-----------------------------------------------------------------------------
(* Verdicts.  How far a request has gone follows from where it is, until its *)
(* clean-up; from there on, from its verdict.                                *)

Over == {"cleanup", "release", "answer"}
Progressed ==
  \A p \in Proc :
    /\ pc[p] \notin Over \cup {"promote", "retire", "start", "running"} => did[p] = "nothing"
    /\ pc[p] \in {"record", "promote", "retire"} => mode[p] # "check"
    /\ pc[p] = "running" => did[p] = "started"
    /\ mode[p] = "check" => did[p] \in {"nothing", "started"}
Concluded ==
  \A p \in Proc : pc[p] \in Over =>
    /\ exit[p] # "none"
    /\ exit[p] \in {"refused", "busy"} => did[p] = "nothing"
    /\ exit[p] \in {"unchanged", "applied", "would-change", "timed-out"} => did[p] = "started"
    /\ mode[p] = "check" => exit[p] # "applied"
    /\ mode[p] # "check" => exit[p] # "would-change"

VerdictInv == Progressed /\ Concluded

LEMMA InitVerdict == Init => VerdictInv
  BY DEF Init, VerdictInv, Progressed, Concluded, Over

LEMMA StepVerdict == Typed /\ VerdictInv /\ [Next]_vars => VerdictInv'
  <1> SUFFICES ASSUME Typed, VerdictInv, [Next]_vars PROVE VerdictInv'
    OBVIOUS
  <1>types. /\ pc \in [Proc -> Label] /\ mode \in [Proc -> Mode]
            /\ exit \in [Proc -> Verdict] /\ did \in [Proc -> Progress]
    BY DEF Typed, TypeOK
  <1> USE <1>types DEF VerdictInv, Progressed, Concluded, Over, run, disk, source, bundle, unlocked,
                       Goto, Conclude
  <1>1. ASSUME NEW p \in Proc, NEW m \in Mode, Ask(p, m) PROVE VerdictInv'
    BY <1>1 DEF Ask, Arrive
  <1>2. ASSUME NEW p \in Proc, PlaybookEnds(p) PROVE VerdictInv'
    BY <1>2 DEF PlaybookEnds, ChangedVerdict
  <1>3. ASSUME NEW p \in Proc, RelayFails(p) \/ Stop(p) PROVE VerdictInv'
    BY <1>3 DEF RelayFails, Stop
  <1>4. ASSUME NEW p \in Proc, Kill(p) PROVE VerdictInv'
    BY <1>4 DEF Kill, Forget
  <1>5. ASSUME NEW o \in orphans, OrphanEnds(o) PROVE VerdictInv'
    BY <1>5 DEF OrphanEnds
  <1>6. ASSUME NEW c \in Commit, PushMain(c) \/ RewriteMain(c) PROVE VerdictInv'
    BY <1>6 DEF PushMain, RewriteMain
  <1>7. CASE LoseCache \/ DamageFloor
    BY <1>7 DEF LoseCache, DamageFloor
  <1>8. ASSUME NEW v \in Commit \cup {None}, ResetFloor(v) PROVE VerdictInv'
    BY <1>8 DEF ResetFloor
  <1>9. ASSUME NEW p \in Proc, Step(p) PROVE VerdictInv'
    <2>1. CASE Publish(p)
      BY <2>1 DEF Publish
    <2>2. CASE PublishClash(p) \/ Receive(p) \/ ReceiveFails(p)
      BY <2>2 DEF PublishClash, Receive, ReceiveFails
    <2>3. CASE TakeLock(p) \/ Busy(p) \/ Sweep(p)
      BY <2>3 DEF TakeLock, Busy, Sweep
    <2>4. CASE Fetch(p) \/ FetchFails(p)
      BY <2>4 DEF Fetch, FetchFails
    <2>5. CASE AdmitRemote(p) \/ RefuseRemote(p) \/ FaultRemote(p)
      BY <2>5 DEF AdmitRemote, RefuseRemote, FaultRemote
    <2>6. CASE OpenQuarantine(p)
      BY <2>6 DEF OpenQuarantine
    <2>7. ASSUME NEW good \in BOOLEAN,
                 AdmitBundle(p, good) \/ RefuseBundle(p, good) \/ FaultBundle(p, good)
          PROVE  VerdictInv'
      BY <2>7 DEF AdmitBundle, RefuseBundle, FaultBundle
    <2>8. ASSUME NEW d \in Dir, MakeCheckout(p, d) PROVE VerdictInv'
      BY <2>8 DEF MakeCheckout
    <2>9. CASE FillCheckout(p) \/ CheckoutFails(p) \/ RefuseOnDisk(p)
      BY <2>9 DEF FillCheckout, CheckoutFails, RefuseOnDisk
    <2>10. CASE BeginStopped(p) \/ BeginRun(p)
      BY <2>10 DEF BeginStopped, BeginRun, FirstStep
    <2>11. CASE RecordApplied(p) \/ PromoteLink(p) \/ PromoteRetire(p)
      BY <2>11 DEF RecordApplied, PromoteLink, PromoteRetire
    <2>12. CASE StartPlaybook(p)
      BY <2>12 DEF StartPlaybook
    <2>13. CASE Interrupt(p) \/ TimeOut(p)
      BY <2>13 DEF Interrupt, TimeOut
    <2>14. CASE Fault(p)
      BY <2>14 DEF Fault
    <2>15. CASE CleanUp(p) \/ Release(p)
      BY <2>15 DEF CleanUp, Release
    <2>16. CASE Answer(p)
      BY <2>16 DEF Answer, Forget
    <2> QED
      BY <1>9, <2>1, <2>2, <2>3, <2>4, <2>5, <2>6, <2>7, <2>8, <2>9, <2>10, <2>11, <2>12, <2>13,
         <2>14, <2>15, <2>16 DEF Step
  <1>10. CASE UNCHANGED vars
    BY <1>10 DEF vars
  <1> QED BY <1>1, <1>2, <1>3, <1>4, <1>5, <1>6, <1>7, <1>8, <1>9, <1>10 DEF Next, Environment

(* What the caller is told is how far the request went: a refused or busy    *)
(* one changed neither floor nor current nor the host, a completed or        *)
(* timed-out one did run, and a check raised and promoted nothing.           *)
THEOREM VerdictsAreTrue == Spec => []VerdictTruthful
  <1>1. VerdictInv => VerdictTruthful
    BY DEF VerdictInv, Progressed, Concluded, VerdictTruthful, Over
  <1> QED BY InitTyped, StepTyped, InitVerdict, StepVerdict, <1>1, PTL DEF Spec
================================================================================
