----------------------------- MODULE PullTrigger -----------------------------
(***************************************************************************)
(* ansible/roles/pull_trigger/files/pull_trigger.py: the program on a host *)
(* that turns one request, "run exactly this commit", into a playbook run. *)
(*                                                                         *)
(* Each process p of Proc is one execution of the program: an SSH forced   *)
(* command started the moment a request arrives.  Processes overlap, can   *)
(* be told to stop (TERM, INT) and can be killed (KILL) between any two    *)
(* steps.  They share the state directory: the lock, the rollback floor,   *)
(* the work directories, the `current` link and the cache of main.         *)
(*                                                                         *)
(* A host has one source.  "remote": the commit is fetched from main into  *)
(* a cache.  "bundle": the commit arrives as a git bundle on standard      *)
(* input and is unpacked in a quarantine.                                  *)
(***************************************************************************)
EXTENDS Naturals

CONSTANTS
  Proc,             \* executions of the program that may overlap
  Commit,           \* commits of the repository
  Dir,              \* names mkdtemp can give a work directory
  StepId,           \* the step ids a request may name
  AllowedSteps,     \* config.steps: the allow-list of this host
  Source,           \* config.source: "remote" or "bundle"
  Seed,             \* the floor the role seeds, a commit or None
  PlaybookListed,   \* config.playbook is in config.playbooks
  Ancestry,         \* pairs <<older, newer>>: older is newer or its ancestor
  Signature,        \* what git reports of each commit's signature
  PlaybookInTree,   \* commits whose tree holds the playbook as a regular file
  PlaybookOnDisk,   \* commits whose checkout reaches it through no link
  None,             \* no commit, no directory, no process
  Damaged,          \* a floor file that does not hold one commit id
  Partial,          \* a work directory that is not completely written
  MaxKills,         \* bound: events that leave a playbook without its process
  MaxHands,         \* bound: changes of the floor's file from outside
  MaxRewrites       \* bound: rewrites of main and losses of the cache

NotAfter(older, newer) == <<older, newer>> \in Ancestry

(* The letters of git's %G? placeholder. *)
SignatureStatus == {"G", "U", "B", "X", "Y", "R", "E", "N"}

Labels == {None, Damaged, Partial}

ASSUME CommitAssumption == Labels \cap (Commit \cup Dir \cup Proc) = {}
ASSUME LabelAssumption == None # Damaged /\ None # Partial /\ Damaged # Partial
ASSUME SourceAssumption == Source \in {"remote", "bundle"}
ASSUME SeedAssumption == /\ Seed \in Commit \cup {None}
                         /\ Source = "remote" => Seed = None
ASSUME AncestryAssumption ==
  /\ \A c \in Commit : NotAfter(c, c)
  /\ \A a, b, c \in Commit : NotAfter(a, b) /\ NotAfter(b, c) => NotAfter(a, c)
ASSUME SignatureAssumption ==
  Signature \in [Commit -> [signed: BOOLEAN, status: SignatureStatus, listed: BOOLEAN]]
ASSUME BoundAssumption == MaxKills \in Nat /\ MaxHands \in Nat /\ MaxRewrites \in Nat

VARIABLES
  pc,           \* where each process is; "idle" before a request and after it
  mode,         \* the mode its key fixes: apply, check or step
  commit,       \* the commit it was asked for
  dir,          \* its work directory
  previous,     \* the directory current named before it promoted its own
  stop,         \* a TERM or INT has reached it
  exit,         \* its verdict
  lock,         \* the process that holds the flock
  floor,        \* last-applied: a commit, None (no file) or Damaged
  current,      \* the work directory the current link names
  tree,         \* what each work directory holds; None: it does not exist
  orphans,      \* playbooks that outlived the process that started them
  pending,      \* ansible.cfg.new is in the private HOME: written, not yet renamed
  main,         \* the tip of main on the remote
  cache,        \* repo.git: the fetched tip, and the commits it has objects of
  spool,        \* each process's upload: none, mine, or left by a killed run
  quarantine,   \* likewise its quarantine repository
  count,        \* how often each bounded event has happened
  host,         \* history: the last commit an apply or a step began to work on
  did,          \* history: how far each request went in changing the host
  wasMain       \* history: the commits that have been part of main

run == <<pc, mode, commit, dir, previous, stop, exit, did>>
disk == <<floor, current, tree, host>>
source == <<main, cache, wasMain>>
bundle == <<spool, quarantine>>
unlocked == <<orphans, pending>>
vars == <<run, lock, disk, unlocked, source, bundle, count>>

Mode == {"apply", "check", "step"}
Verdict == {"none", "unchanged", "applied", "would-change", "refused", "busy",
            "failed", "timed-out", "error"}

(* Between these two sets of labels: before the lock is asked for, and while *)
(* it is held.                                                               *)
Before == {"publish", "upload", "lock", "answer"}
Held == {"sweep", "source", "admit", "checkout", "fill", "begin", "record",
         "promote", "retire", "start", "running", "cleanup", "release"}
Label == {"idle"} \cup Before \cup Held

Progress == {"nothing", "raised", "promoted", "started"}
Existing == {d \in Dir : tree[d] # None}
Ancestors(c) == {a \in Commit : NotAfter(a, c)}

-----------------------------------------------------------------------------
(* What a request is judged by.                                             *)

(* What the caller typed, next to the mode its key fixes.  word is the step  *)
(* whose confirmation word was typed; asked and playbook are the words only  *)
(* the bundle source reads.                                                  *)
Request == [wellFormed: BOOLEAN, step: StepId \cup {None}, word: StepId \cup {None},
            asked: {"apply", "check"}, playbook: BOOLEAN]

(* Each source reads its own words only. *)
Requests ==
  IF Source = "remote"
    THEN {r \in Request : r.asked = "apply" /\ r.playbook}
    ELSE {r \in Request : r.step = None /\ r.word = None}

(* The checks made before the lock: the shape of the request, the playbook   *)
(* allow-list, and the step and its confirmation word.                       *)
RemoteRequestFits(m, r) ==
  /\ r.wellFormed
  /\ m = "step" <=> r.step # None
  /\ PlaybookListed
  /\ r.step # None => r.step \in AllowedSteps /\ r.word = r.step

BundleRequestFits(m, r) ==
  /\ r.wellFormed
  /\ m # "step"
  /\ r.asked = m
  /\ r.playbook /\ PlaybookListed

Fits(m, r) == IF Source = "remote" THEN RemoteRequestFits(m, r) ELSE BundleRequestFits(m, r)

(* A good signature, by a key on the allow-list: git reports U for a valid   *)
(* signature by a key that is not on it.                                     *)
MutJudgeSignature(c) == Signature[c].signed /\ Signature[c].status \in {"G", "U"}
JudgeSignature(c) ==
  /\ Signature[c].signed
  /\ Signature[c].status \in {"G", "U"}
  /\ Signature[c].listed

(* Presence is not enough: the cache may hold what main has moved away from. *)
MutOnMainPresent(c) == c \in cache.objects
MutOnMainUnchecked(c) == c \in Commit
OnMain(c) == c \in cache.objects /\ cache.tip # None /\ NotAfter(c, cache.tip)

(* What last_applied reads: no file is no floor, a damaged one is an error.  *)
MutLastApplied == IF floor = Damaged THEN None ELSE floor
LastApplied == floor

(* git can compare the floor with the commit.                                *)
FloorKnown(c) == LastApplied # Damaged /\ LastApplied \in {None, c} \cup cache.objects

MutNotOlder(c) == LastApplied \in {None, c} \/ NotAfter(c, LastApplied)
NotOlder(c) == LastApplied \in {None, c} \/ NotAfter(LastApplied, c)

(* The bundle holds the complete history of c, so a floor it does not hold   *)
(* is no ancestor of c.                                                      *)
MutBundleNotOlder(c) == LastApplied \in {None, c} \/ NotAfter(LastApplied, c)
BundleNotOlder(c) == LastApplied # None /\ (LastApplied = c \/ NotAfter(LastApplied, c))
-----------------------------------------------------------------------------
Init ==
  /\ pc = [p \in Proc |-> "idle"]
  /\ mode = [p \in Proc |-> "check"]
  /\ commit = [p \in Proc |-> None]
  /\ dir = [p \in Proc |-> None]
  /\ previous = [p \in Proc |-> None]
  /\ stop = [p \in Proc |-> FALSE]
  /\ exit = [p \in Proc |-> "none"]
  /\ did = [p \in Proc |-> "nothing"]
  /\ lock = None
  /\ floor = Seed /\ current = None /\ host = None
  /\ tree = [d \in Dir |-> None]
  /\ orphans = {} /\ pending = FALSE
  /\ main \in Commit /\ wasMain = Ancestors(main)
  /\ cache = [tip |-> None, objects |-> {}]
  /\ spool = [p \in Proc |-> "none"]
  /\ quarantine = [p \in Proc |-> "none"]
  /\ count = [kills |-> 0, hands |-> 0, rewrites |-> 0]

Goto(p, l) == pc' = [pc EXCEPT ![p] = l]
Conclude(p, verdict, l) == exit' = [exit EXCEPT ![p] = verdict] /\ Goto(p, l)

(* A request arrives.  c is the commit it names, None if it is one the        *)
(* program refuses before it reads or locks anything.  Workspace.prepare      *)
(* comes first, without the lock: it writes ansible.cfg.new ...               *)
Arrive(p, m, c) ==
  /\ pc[p] = "idle"
  /\ mode' = [mode EXCEPT ![p] = m]
  /\ commit' = [commit EXCEPT ![p] = c]
  /\ pending' = TRUE
  /\ Goto(p, "publish")
  /\ UNCHANGED <<dir, previous, stop, exit, did, lock, disk, orphans, source, bundle, count>>

Ask(p, m) ==
  \E r \in Requests : IF Fits(m, r) THEN \E c \in Commit : Arrive(p, m, c) ELSE Arrive(p, m, None)

(* ... and renames it.  Then a request that does not fit is refused, and the  *)
(* upload of a bundle is opened.                                              *)
Publish(p) ==
  /\ pc[p] = "publish"
  /\ pending
  /\ pending' = FALSE
  /\ IF commit[p] = None THEN Conclude(p, "refused", "answer") /\ UNCHANGED spool
     ELSE IF Source = "remote" THEN Conclude(p, "none", "lock") /\ UNCHANGED spool
     ELSE Conclude(p, "none", "upload") /\ spool' = [spool EXCEPT ![p] = "mine"]
  /\ UNCHANGED <<mode, commit, dir, previous, stop, did, lock, disk, orphans, source,
                 quarantine, count>>

(* Another request has renamed it away: the rename raises FileNotFoundError.  *)
PublishClash(p) ==
  /\ pc[p] = "publish"
  /\ ~pending
  /\ Conclude(p, "error", "answer")
  /\ UNCHANGED <<mode, commit, dir, previous, stop, did, lock, disk, unlocked, source, bundle, count>>

(* The upload ends within its limits ...                                     *)
Receive(p) ==
  /\ pc[p] = "upload"
  /\ Goto(p, "lock")
  /\ UNCHANGED <<mode, commit, dir, previous, stop, exit, did, lock, disk, unlocked, source,
                 bundle, count>>

(* ... or is too large, stalls past its deadline, cannot be read, or cannot  *)
(* be written to the spool.                                                  *)
ReceiveFails(p) ==
  /\ pc[p] = "upload"
  /\ spool' = [spool EXCEPT ![p] = "none"]
  /\ \E verdict \in {"refused", "error"} : Conclude(p, verdict, "answer")
  /\ UNCHANGED <<mode, commit, dir, previous, stop, did, lock, disk, unlocked, source,
                 quarantine, count>>

(* flock with LOCK_NB: it is free, or the request is refused at once.        *)
MutLockFree == TRUE
LockFree == lock = None

TakeLock(p) ==
  /\ pc[p] = "lock"
  /\ LockFree
  /\ lock' = p
  /\ Goto(p, "sweep")
  /\ UNCHANGED <<mode, commit, dir, previous, stop, exit, did, disk, unlocked, source, bundle, count>>

Busy(p) ==
  /\ pc[p] = "lock"
  /\ ~LockFree
  /\ Conclude(p, "busy", "answer")
  /\ UNCHANGED <<mode, commit, dir, previous, stop, did, lock, disk, unlocked, source, bundle, count>>

(* Everything in work/ but the current checkout goes, every quarantine goes, *)
(* and those uploads of killed runs that are old enough.                     *)
MutSweepKeepsNone(d) == FALSE
MutSweepKeepsAll(d) == TRUE
SweepKeeps(d) == d = current

Sweep(p) ==
  /\ pc[p] = "sweep"
  /\ tree' = [d \in Dir |-> IF SweepKeeps(d) THEN tree[d] ELSE None]
  /\ IF Source = "remote"
       THEN UNCHANGED bundle
       ELSE /\ quarantine' = [q \in Proc |-> "none"]
            /\ \E old \in SUBSET {q \in Proc : spool[q] = "left"} :
                 spool' = [q \in Proc |-> IF q \in old THEN "none" ELSE spool[q]]
  /\ Goto(p, "source")
  /\ UNCHANGED <<mode, commit, dir, previous, stop, exit, did, lock, floor, current, host, unlocked,
                 source, count>>
-----------------------------------------------------------------------------
(* The remote source.                                                        *)

Fetch(p) ==
  /\ Source = "remote"
  /\ pc[p] = "source"
  /\ cache' = [tip |-> main, objects |-> cache.objects \cup Ancestors(main)]
  /\ Goto(p, "admit")
  /\ UNCHANGED <<mode, commit, dir, previous, stop, exit, did, lock, disk, unlocked, main, wasMain,
                 bundle, count>>

(* A fetch that fails may have brought objects without moving the ref.       *)
FetchFails(p) ==
  /\ Source = "remote"
  /\ pc[p] = "source"
  /\ \E got \in {{}, Ancestors(main)} :
       cache' = [cache EXCEPT !.objects = cache.objects \cup got]
  /\ Conclude(p, "error", "cleanup")
  /\ UNCHANGED <<mode, commit, dir, previous, stop, did, lock, disk, unlocked, main, wasMain,
                 bundle, count>>

(* On main, not older than the floor, signed, and with the playbook in it.   *)
AdmitRemote(p) ==
  /\ Source = "remote"
  /\ pc[p] = "admit"
  /\ OnMain(commit[p])
  /\ FloorKnown(commit[p])
  /\ NotOlder(commit[p])
  /\ JudgeSignature(commit[p])
  /\ commit[p] \in PlaybookInTree
  /\ Goto(p, "checkout")
  /\ UNCHANGED <<mode, commit, dir, previous, stop, exit, did, lock, disk, unlocked, source, bundle, count>>

RefuseRemote(p) ==
  /\ Source = "remote"
  /\ pc[p] = "admit"
  /\ \/ ~OnMain(commit[p])
     \/ /\ FloorKnown(commit[p])
        /\ \/ ~NotOlder(commit[p])
           \/ ~JudgeSignature(commit[p])
           \/ commit[p] \notin PlaybookInTree
  /\ Conclude(p, "refused", "cleanup")
  /\ UNCHANGED <<mode, commit, dir, previous, stop, did, lock, disk, unlocked, source, bundle, count>>

(* The floor is damaged, or git has lost the floor's commit.                 *)
FaultRemote(p) ==
  /\ Source = "remote"
  /\ pc[p] = "admit"
  /\ OnMain(commit[p])
  /\ ~FloorKnown(commit[p])
  /\ Conclude(p, "error", "cleanup")
  /\ UNCHANGED <<mode, commit, dir, previous, stop, did, lock, disk, unlocked, source, bundle, count>>
-----------------------------------------------------------------------------
(* The bundle source.  good: the upload is a bundle that stands alone, its   *)
(* objects are sound, and its HEAD is the commit asked for.                  *)

OpenQuarantine(p) ==
  /\ Source = "bundle"
  /\ pc[p] = "source"
  /\ quarantine' = [quarantine EXCEPT ![p] = "mine"]
  /\ Goto(p, "admit")
  /\ UNCHANGED <<mode, commit, dir, previous, stop, exit, did, lock, disk, unlocked, source, spool, count>>

AdmitBundle(p, good) ==
  /\ Source = "bundle"
  /\ pc[p] = "admit"
  /\ good
  /\ JudgeSignature(commit[p])
  /\ LastApplied # Damaged
  /\ BundleNotOlder(commit[p])
  /\ commit[p] \in PlaybookInTree
  /\ Goto(p, "checkout")
  /\ UNCHANGED <<mode, commit, dir, previous, stop, exit, did, lock, disk, unlocked, source, bundle, count>>

RefuseBundle(p, good) ==
  /\ Source = "bundle"
  /\ pc[p] = "admit"
  /\ \/ ~good
     \/ ~JudgeSignature(commit[p])
     \/ LastApplied # Damaged /\ (~BundleNotOlder(commit[p]) \/ commit[p] \notin PlaybookInTree)
  /\ Conclude(p, "refused", "cleanup")
  /\ UNCHANGED <<mode, commit, dir, previous, stop, did, lock, disk, unlocked, source, bundle, count>>

FaultBundle(p, good) ==
  /\ Source = "bundle"
  /\ pc[p] = "admit"
  /\ good
  /\ JudgeSignature(commit[p])
  /\ LastApplied = Damaged
  /\ Conclude(p, "error", "cleanup")
  /\ UNCHANGED <<mode, commit, dir, previous, stop, did, lock, disk, unlocked, source, bundle, count>>
-----------------------------------------------------------------------------
(* The checkout and the run: the same for both sources.                      *)

(* mkdtemp makes a directory that does not exist.                            *)
MakeCheckout(p, d) ==
  /\ pc[p] = "checkout"
  /\ tree[d] = None
  /\ \A o \in orphans : o.dir # d
  /\ tree' = [tree EXCEPT ![d] = Partial]
  /\ dir' = [dir EXCEPT ![p] = d]
  /\ Goto(p, "fill")
  /\ UNCHANGED <<mode, commit, previous, stop, exit, did, lock, floor, current, host, unlocked, source,
                 bundle, count>>

FillCheckout(p) ==
  /\ pc[p] = "fill"
  /\ tree' = [tree EXCEPT ![dir[p]] = commit[p]]
  /\ Goto(p, "begin")
  /\ UNCHANGED <<mode, commit, dir, previous, stop, exit, did, lock, floor, current, host, unlocked,
                 source, bundle, count>>

(* git cannot fill it, and it is removed; or the index's own directory       *)
(* cannot be made, which no handler catches, and it stays.                   *)
CheckoutFails(p) ==
  /\ pc[p] = "fill"
  /\ \/ tree' = [tree EXCEPT ![dir[p]] = None]
     \/ UNCHANGED tree
  /\ dir' = [dir EXCEPT ![p] = None]
  /\ Conclude(p, "error", "cleanup")
  /\ UNCHANGED <<mode, commit, previous, stop, did, lock, floor, current, host, unlocked, source,
                 bundle, count>>

RefuseOnDisk(p) ==
  /\ pc[p] = "begin"
  /\ commit[p] \notin PlaybookOnDisk
  /\ Conclude(p, "refused", "cleanup")
  /\ UNCHANGED <<mode, commit, dir, previous, stop, did, lock, disk, unlocked, source, bundle, count>>

(* A stop that arrived by now ends the run with the floor where it was.      *)
BeginStopped(p) ==
  /\ pc[p] = "begin"
  /\ commit[p] \in PlaybookOnDisk
  /\ stop[p]
  /\ Conclude(p, "failed", "cleanup")
  /\ UNCHANGED <<mode, commit, dir, previous, stop, did, lock, disk, unlocked, source, bundle, count>>

(* An apply and a step record and promote the commit first; a check does     *)
(* neither.                                                                  *)
MutFirstStep(m) == IF m = "apply" THEN "record" ELSE "start"
MutFirstStepNone(m) == "start"
FirstStep(m) == IF m = "check" THEN "start" ELSE "record"

BeginRun(p) ==
  /\ pc[p] = "begin"
  /\ commit[p] \in PlaybookOnDisk
  /\ ~stop[p]
  /\ Goto(p, FirstStep(mode[p]))
  /\ UNCHANGED <<mode, commit, dir, previous, stop, exit, did, lock, disk, unlocked, source, bundle, count>>

MutRecordApplied(p) ==
  /\ pc[p] = "record"
  /\ floor' = commit[p]
  /\ did' = [did EXCEPT ![p] = "raised"]
  /\ Goto(p, "start")
  /\ UNCHANGED <<mode, commit, dir, previous, stop, exit, lock, current, tree, host, unlocked,
                 source, bundle, count>>

(* The floor is raised before anything else changes.                         *)
RecordApplied(p) ==
  /\ pc[p] = "record"
  /\ floor' = commit[p]
  /\ did' = [did EXCEPT ![p] = "raised"]
  /\ Goto(p, "promote")
  /\ UNCHANGED <<mode, commit, dir, previous, stop, exit, lock, current, tree, host, unlocked, source,
                 bundle, count>>

MutPromoteLink(p) ==
  /\ pc[p] = "promote"
  /\ previous' = [previous EXCEPT ![p] = current]
  /\ current' = commit[p]
  /\ did' = [did EXCEPT ![p] = "promoted"]
  /\ Goto(p, "retire")
  /\ UNCHANGED <<mode, commit, dir, stop, exit, lock, floor, tree, host, unlocked, source,
                 bundle, count>>

(* The current link is replaced in one rename ...                            *)
PromoteLink(p) ==
  /\ pc[p] = "promote"
  /\ previous' = [previous EXCEPT ![p] = current]
  /\ current' = dir[p]
  /\ did' = [did EXCEPT ![p] = "promoted"]
  /\ Goto(p, "retire")
  /\ UNCHANGED <<mode, commit, dir, stop, exit, lock, floor, tree, host, unlocked, source,
                 bundle, count>>

(* ... and the checkout it named before is removed.                         *)
PromoteRetire(p) ==
  /\ pc[p] = "retire"
  /\ tree' = IF previous[p] \in {None, dir[p]} THEN tree
             ELSE [tree EXCEPT ![previous[p]] = None]
  /\ previous' = [previous EXCEPT ![p] = None]
  /\ Goto(p, "start")
  /\ UNCHANGED <<mode, commit, dir, stop, exit, did, lock, floor, current, host,
                 unlocked, source, bundle, count>>

(* The playbook is started in the checkout, in a session of its own.         *)
StartPlaybook(p) ==
  /\ pc[p] = "start"
  /\ did' = [did EXCEPT ![p] = "started"]
  /\ host' = IF mode[p] = "check" THEN host ELSE commit[p]
  /\ Goto(p, "running")
  /\ UNCHANGED <<mode, commit, dir, previous, stop, exit, lock, floor, current, tree, unlocked,
                 source, bundle, count>>

MutChangedVerdict(m) == "applied"
ChangedVerdict(m) == IF m = "check" THEN "would-change" ELSE "applied"

(* It ends by itself: with a status that is not zero or no recap; with no    *)
(* change; or with changes.  Reading its output or pruning old ones may      *)
(* still fail after that.                                                    *)
PlaybookEnds(p) ==
  /\ pc[p] = "running"
  /\ \E verdict \in {"failed", "unchanged", "error", ChangedVerdict(mode[p])} :
       Conclude(p, verdict, "cleanup")
  /\ UNCHANGED <<mode, commit, dir, previous, stop, did, lock, disk, unlocked, source, bundle, count>>

(* The poll sees the stop, or the time is up: the process group gets TERM    *)
(* and, after a grace period, KILL.                                          *)
Interrupt(p) ==
  /\ pc[p] = "running"
  /\ stop[p]
  /\ Conclude(p, "failed", "cleanup")
  /\ UNCHANGED <<mode, commit, dir, previous, stop, did, lock, disk, unlocked, source, bundle, count>>

(* Reading its output to relay it fails: the exception ends the wait, and    *)
(* nothing ends the playbook.                                                *)
Playbook(p) == [dir |-> dir[p], commit |-> commit[p], mode |-> mode[p]]

RelayFails(p) ==
  /\ pc[p] = "running"
  /\ count.kills < MaxKills
  /\ count' = [count EXCEPT !.kills = @ + 1]
  /\ orphans' = orphans \cup {Playbook(p)}
  /\ Conclude(p, "error", "cleanup")
  /\ UNCHANGED <<mode, commit, dir, previous, stop, did, lock, disk, pending, source, bundle>>

MutTimeOut(p) == FALSE
TimeOut(p) ==
  /\ pc[p] = "running"
  /\ Conclude(p, "timed-out", "cleanup")
  /\ UNCHANGED <<mode, commit, dir, previous, stop, did, lock, disk, unlocked, source, bundle, count>>

(* The next operation raises before it has an effect: a missing tool, a full *)
(* disk, a program that cannot be started.                                   *)
Fault(p) ==
  /\ pc[p] \in {"lock", "sweep", "source", "admit", "checkout", "record", "promote", "start"}
  /\ Conclude(p, "error", IF pc[p] = "lock" THEN "answer" ELSE "cleanup")
  /\ UNCHANGED <<mode, commit, dir, previous, stop, did, lock, disk, unlocked, source, bundle, count>>

MutCleanUp(p) ==
  /\ pc[p] = "cleanup"
  /\ tree' = IF dir[p] \in {None, current} THEN tree ELSE [tree EXCEPT ![dir[p]] = None]
  /\ dir' = [dir EXCEPT ![p] = None]
  /\ Goto(p, "release")
  /\ UNCHANGED <<mode, commit, previous, stop, exit, did, lock, floor, current, host,
                 unlocked, bundle, source, count>>

(* The finally clauses, inside out: the checkout unless it is current, and   *)
(* the quarantine.                                                           *)
CleanUp(p) ==
  /\ pc[p] = "cleanup"
  /\ tree' = IF dir[p] \in {None, current} THEN tree ELSE [tree EXCEPT ![dir[p]] = None]
  /\ dir' = [dir EXCEPT ![p] = None]
  /\ quarantine' = [quarantine EXCEPT ![p] = "none"]
  /\ Goto(p, "release")
  /\ UNCHANGED <<mode, commit, previous, stop, exit, did, lock, floor, current, host,
                 unlocked, source, spool, count>>

Release(p) ==
  /\ pc[p] = "release"
  /\ lock' = None
  /\ commit' = [commit EXCEPT ![p] = None]
  /\ Goto(p, "answer")
  /\ UNCHANGED <<mode, dir, previous, stop, exit, did, disk, unlocked, source, bundle, count>>

(* What a process keeps to itself is gone when it ends.                      *)
Forget(p) ==
  /\ Goto(p, "idle")
  /\ commit' = [commit EXCEPT ![p] = None]
  /\ dir' = [dir EXCEPT ![p] = None]
  /\ previous' = [previous EXCEPT ![p] = None]
  /\ mode' = [mode EXCEPT ![p] = "check"]
  /\ stop' = [stop EXCEPT ![p] = FALSE]
  /\ exit' = [exit EXCEPT ![p] = "none"]
  /\ did' = [did EXCEPT ![p] = "nothing"]

(* The upload is removed and the verdict reported.                           *)
Answer(p) ==
  /\ pc[p] = "answer"
  /\ spool' = [spool EXCEPT ![p] = "none"]
  /\ Forget(p)
  /\ UNCHANGED <<lock, disk, unlocked, source, quarantine, count>>
-----------------------------------------------------------------------------
(* What happens to a host from outside.                                      *)

(* TERM or INT: the handler only sets an event.  It is read when the run     *)
(* begins and while the playbook runs, so one that arrives earlier is the    *)
(* same as one that arrives at "begin".                                      *)
Stop(p) ==
  /\ pc[p] \in {"begin", "record", "promote", "retire", "start", "running"}
  /\ ~stop[p]
  /\ stop' = [stop EXCEPT ![p] = TRUE]
  /\ UNCHANGED <<pc, mode, commit, dir, previous, exit, did, lock, disk, unlocked, source,
                 bundle, count>>

(* KILL: the kernel drops the lock; a playbook that runs goes on running.    *)
Kill(p) ==
  /\ pc[p] # "idle"
  /\ count.kills < MaxKills
  /\ count' = [count EXCEPT !.kills = @ + 1]
  /\ lock' = IF lock = p THEN None ELSE lock
  /\ orphans' = IF pc[p] = "running" THEN orphans \cup {Playbook(p)} ELSE orphans
  /\ spool' = [spool EXCEPT ![p] = IF @ = "mine" THEN "left" ELSE @]
  /\ quarantine' = [quarantine EXCEPT ![p] = IF @ = "mine" THEN "left" ELSE @]
  /\ Forget(p)
  /\ UNCHANGED <<disk, source, pending>>

OrphanEnds(o) ==
  /\ o \in orphans
  /\ orphans' = orphans \ {o}
  /\ UNCHANGED <<run, lock, disk, source, bundle, pending, count>>

PushMain(c) ==
  /\ Source = "remote"
  /\ NotAfter(main, c)
  /\ main' = c
  /\ wasMain' = wasMain \cup Ancestors(c)
  /\ UNCHANGED <<run, lock, disk, unlocked, cache, bundle, count>>

RewriteMain(c) ==
  /\ Source = "remote"
  /\ count.rewrites < MaxRewrites
  /\ ~NotAfter(main, c)
  /\ count' = [count EXCEPT !.rewrites = @ + 1]
  /\ main' = c
  /\ wasMain' = wasMain \cup Ancestors(c)
  /\ UNCHANGED <<run, lock, disk, unlocked, cache, bundle>>

(* repo.git is removed, or git prunes what main no longer reaches.           *)
LoseCache ==
  /\ Source = "remote"
  /\ count.rewrites < MaxRewrites
  /\ count' = [count EXCEPT !.rewrites = @ + 1]
  /\ \/ cache' = [tip |-> None, objects |-> {}]
     \/ cache.tip # None /\ cache' = [cache EXCEPT !.objects = Ancestors(cache.tip)]
  /\ UNCHANGED <<run, lock, disk, unlocked, main, wasMain, bundle>>

DamageFloor ==
  /\ count.hands < MaxHands
  /\ count' = [count EXCEPT !.hands = @ + 1]
  /\ floor' = Damaged
  /\ UNCHANGED <<run, lock, current, tree, host, unlocked, source, bundle>>

(* "Taking over by hand": a person writes the floor or removes it, while no  *)
(* request runs.                                                             *)
ResetFloor(v) ==
  /\ count.hands < MaxHands
  /\ lock = None
  /\ count' = [count EXCEPT !.hands = @ + 1]
  /\ floor' = v
  /\ host' = None
  /\ UNCHANGED <<run, lock, current, tree, unlocked, source, bundle>>
-----------------------------------------------------------------------------
(* What the program does by itself.  The end of a playbook is not among it:  *)
(* a playbook may hang.                                                      *)
Step(p) ==
  \/ Publish(p) \/ PublishClash(p) \/ Receive(p) \/ ReceiveFails(p)
  \/ TakeLock(p) \/ Busy(p) \/ Sweep(p)
  \/ Fetch(p) \/ FetchFails(p) \/ AdmitRemote(p) \/ RefuseRemote(p) \/ FaultRemote(p)
  \/ OpenQuarantine(p)
  \/ \E good \in BOOLEAN : AdmitBundle(p, good) \/ RefuseBundle(p, good) \/ FaultBundle(p, good)
  \/ \E d \in Dir : MakeCheckout(p, d)
  \/ FillCheckout(p) \/ CheckoutFails(p)
  \/ RefuseOnDisk(p) \/ BeginStopped(p) \/ BeginRun(p)
  \/ RecordApplied(p) \/ PromoteLink(p) \/ PromoteRetire(p) \/ StartPlaybook(p)
  \/ Interrupt(p) \/ TimeOut(p)
  \/ Fault(p) \/ CleanUp(p) \/ Release(p) \/ Answer(p)

Environment ==
  \/ \E p \in Proc :
       (\E m \in Mode : Ask(p, m)) \/ PlaybookEnds(p) \/ RelayFails(p) \/ Stop(p) \/ Kill(p)
  \/ \E o \in orphans : OrphanEnds(o)
  \/ \E c \in Commit : PushMain(c) \/ RewriteMain(c)
  \/ LoseCache \/ DamageFloor
  \/ \E v \in Commit \cup {None} : ResetFloor(v)

Next == Environment \/ \E p \in Proc : Step(p)

Spec == Init /\ [][Next]_vars

(* A process that is alive is scheduled.  Every wait of the program has a    *)
(* limit: git's commands, the upload and the playbook have deadlines, and    *)
(* the lock is not waited for.                                               *)
FairSpec == Spec /\ \A p \in Proc : WF_vars(Step(p))
-----------------------------------------------------------------------------
(* Properties.                                                               *)

Slot == {"none", "mine", "left"}
Orphan == [dir: Dir, commit: Commit, mode: Mode]
Counts == [kills: 0..MaxKills, hands: 0..MaxHands, rewrites: 0..MaxRewrites]

(* Every variable has its type.                                              *)
TypeOK ==
  /\ pc \in [Proc -> Label]
  /\ mode \in [Proc -> Mode]
  /\ commit \in [Proc -> Commit \cup {None}]
  /\ dir \in [Proc -> Dir \cup {None}]
  /\ previous \in [Proc -> Dir \cup {None}]
  /\ stop \in [Proc -> BOOLEAN]
  /\ exit \in [Proc -> Verdict]
  /\ did \in [Proc -> Progress]
  /\ lock \in Proc \cup {None}
  /\ floor \in Commit \cup {None, Damaged}
  /\ current \in Dir \cup {None}
  /\ tree \in [Dir -> Commit \cup {None, Partial}]
  /\ orphans \in SUBSET Orphan /\ pending \in BOOLEAN
  /\ main \in Commit /\ wasMain \in SUBSET Commit
  /\ cache \in [tip: Commit \cup {None}, objects: SUBSET Commit]
  /\ spool \in [Proc -> Slot] /\ quarantine \in [Proc -> Slot]
  /\ count \in Counts
  /\ host \in Commit \cup {None}

(* single_flight: the lock is held by the one process that is between the    *)
(* sweep and the release, so no two requests work on the host at once.       *)
SingleFlight == \A p \in Proc : pc[p] \in Held <=> lock = p

(* sweep_bundle removes every quarantine.  None is in use when it does: only *)
(* the holder of the lock has one, from its sweep to its clean-up.           *)
QuarantineOwned ==
  \A p \in Proc : quarantine[p] = "mine" => lock = p /\ pc[p] \notin {"sweep", "source"}

(* Every way out of a bundle request but KILL removes what it brought: the   *)
(* upload and the quarantine.                                                *)
NothingLeftBehind ==
  \A p \in Proc :
    /\ pc[p] \in {"answer", "idle"} => quarantine[p] # "mine"
    /\ pc[p] = "idle" => spool[p] # "mine"

(* Nothing that was begun on the host is missing from the commit a request   *)
(* runs, in any mode: the rollback floor, read when the request is admitted, *)
(* still protects when the playbook runs.                                    *)
Includes(c) == host = None \/ NotAfter(host, c)
NoStaleRun == \A p \in Proc : pc[p] = "running" => Includes(commit[p])

(* record_applied comes first: whatever is killed when, the floor is at or   *)
(* above the last commit that was begun on the host, unless a hand took it.  *)
FloorCoversHost ==
  host # None => floor = Damaged \/ (floor \in Commit /\ NotAfter(host, floor))

(* What may be run: signed by a listed key, with the playbook in it; and on  *)
(* the remote source, part of main as it was at some time.                   *)
Acceptable(c) ==
  /\ Signature[c].signed /\ Signature[c].status \in {"G", "U"} /\ Signature[c].listed
  /\ c \in PlaybookInTree /\ c \in PlaybookOnDisk
MayRun(c) == Acceptable(c) /\ (Source = "remote" => c \in wasMain)

(* The playbooks that run, those that outlived their process and the         *)
(* checkout that current names are all of commits that may be run: signed by *)
(* a listed key and, on the remote source, on main when it was fetched.      *)
OnlyAcceptableRuns ==
  /\ \A p \in Proc : pc[p] = "running" => MayRun(commit[p])
  /\ \A o \in orphans : MayRun(o.commit)
  /\ current # None => MayRun(tree[current])

(* require_ancestor_of_main: what runs is part of the main this request      *)
(* fetched, even if the cache still holds a commit main has moved away from. *)
RunsWhatMainHolds ==
  \A p \in Proc : pc[p] = "running" /\ Source = "remote" /\ cache.tip # None =>
    NotAfter(commit[p], cache.tip)

(* NoFloorError: a host that takes bundles and has no floor runs nothing.    *)
BundleNeedsFloor ==
  \A p \in Proc : pc[p] = "running" /\ Source = "bundle" => floor # None

(* The current link never names a directory that is missing or half-made,    *)
(* and no sweep, promotion or clean-up by another process takes the checkout *)
(* from under a run that is alive.                                           *)
CheckoutsIntact ==
  /\ current # None => tree[current] \in Commit
  /\ \A p \in Proc : pc[p] \in {"begin", "record", "promote", "retire", "start", "running"}
       => dir[p] # None /\ tree[dir[p]] = commit[p]

(* README "Taking over by hand": the commit last applied is the one current  *)
(* names.  A person who copies it into a damaged floor never sets the floor  *)
(* below what was begun.                                                     *)
CurrentNamesHost == host # None => current # None /\ NotAfter(host, tree[current])

(* Work directories do not pile up: after its sweep a request sees only the  *)
(* current checkout, its own, and the one it is about to retire.             *)
SweptIsClean ==
  \A p \in Proc : pc[p] \in Held \ {"sweep", "cleanup", "release"} =>
    Existing \subseteq {current, dir[p], previous[p]}

(* The verdict tells the caller how far the request went: a refused or busy  *)
(* request changed neither floor nor current nor the host; a completed or    *)
(* timed-out one did run; a check raised and promoted nothing.               *)
VerdictTruthful ==
  \A p \in Proc : pc[p] = "answer" =>
    /\ exit[p] # "none"
    /\ exit[p] \in {"refused", "busy"} => did[p] = "nothing"
    /\ exit[p] \in {"unchanged", "applied", "would-change", "timed-out"} => did[p] = "started"
    /\ mode[p] = "check" => exit[p] # "applied" /\ did[p] \in {"nothing", "started"}
    /\ mode[p] # "check" => exit[p] # "would-change"

(* A host locks itself out only when main is rewritten or a hand moved the   *)
(* floor: otherwise the floor is part of main, so the tip of main, the way   *)
(* forward after a failed apply, is never refused as a rollback.             *)
WayForward ==
  (Source = "remote" /\ count.rewrites = 0 /\ count.hands = 0 /\ floor # None)
    => NotAfter(floor, main)

(* README "Lock semantics": "A second request is refused with exit 21".  One  *)
(* that fits and comes while another holds the lock is not an error.         *)
SecondIsNoError ==
  [][\A p \in Proc :
       pc[p] = "publish" /\ commit[p] # None /\ lock # None => exit'[p] # "error"]_vars

(* The whole program keeps the promise of Ledger.                            *)
L == INSTANCE Ledger WITH Permitted <- {c \in Commit : Acceptable(c)}, Start <- Seed
LedgerSpec == L!Spec

(* Whatever is refused, fails, hangs or is killed, a request comes to an end *)
(* and the lock with it.                                                     *)
EveryRequestEnds == \A p \in Proc : pc[p] # "idle" ~> pc[p] = "idle"
===============================================================================
