--------------------------- MODULE RuntimeInstall ---------------------------
(***************************************************************************)
(* The host's Ansible environments (install_runtime.py): one directory per *)
(* lock, built and marked in steps any of which may fail or be cut off,    *)
(* and one link that names the environment in service. Both callers are    *)
(* modelled: first boot gives the program the link, the role moves it      *)
(* itself on every apply.                                                  *)
(*                                                                         *)
(* Program "lock" is the program's reading of a lock beside pip's own.     *)
(***************************************************************************)
EXTENDS Program

CONSTANTS Locks,       \* locks the repository has held, as names
          Packages,    \* what a lock names
          Engine,      \* the one of them that brings ansible-playbook
          MaxLines     \* physical lines of a lock

\* A lock names the engine, and no lock is what the link may be without one.
ASSUME RuntimeAssumption == Engine \in Packages /\ {None, "directory"} \cap Locks = {}

\* venv: what `python -m venv` has put down so far; bin/python comes first, bin/pip last.
Environment == [venv : {"none", "python", "pip", "link"}, packages : SUBSET Packages,
                marker : BOOLEAN]
RuntimeHost == [env : [Locks -> Environment], copy : [Locks -> BOOLEAN], rootTrusted : BOOLEAN,
                link : Locks \cup {None, "directory"}]
NoEnvironment == [venv |-> "none", packages |-> {}, marker |-> FALSE]

RuntimeInit ==
  /\ at = <<"runtime", "idle">> /\ mem = None /\ faults = 0
  /\ \E trusted \in BOOLEAN, linkWas \in {None, "directory"}, v \in {"none", "link"} :
       host = [env |-> [l \in Locks |-> [NoEnvironment EXCEPT !.venv = v]],
               copy |-> [l \in Locks |-> FALSE], rootTrusted |-> trusted, link |-> linkWas]

Env == host.env[mem.lock]
RuntimeEnds(from, verdict) ==
  Act("runtime", from, "ended") /\ mem' = [mem EXCEPT !.verdict = verdict]

\* The lock on the host is the one the caller hashed, or is not.
StartInstall ==
  /\ Act("runtime", "idle", "read") /\ UNCHANGED host
  /\ \E l \in Locks, byRole \in BOOLEAN, as \in {"given", "other", "unhashed"} :
       mem' = [lock |-> l, byRole |-> byRole, as |-> as, verdict |-> None, failed |-> FALSE]

\* Nothing on the host changes before the lock is the given one and wholly hashed. The role
\* does not run the program at all where the marker is there.
ReadLock ==
  /\ At("runtime", "read") /\ UNCHANGED host
  /\ IF mem.byRole /\ Env.marker THEN Act("runtime", "read", "link") /\ UNCHANGED mem
     ELSE IF mem.as = "given" THEN Act("runtime", "read", "root") /\ UNCHANGED mem
     ELSE RuntimeEnds("read", "refused")
CheckRoot ==
  /\ At("runtime", "root")
  /\ IF host.rootTrusted
     THEN /\ Act("runtime", "root", "venv") /\ UNCHANGED mem
          /\ host' = [host EXCEPT !.copy[mem.lock] = TRUE]
     ELSE RuntimeEnds("root", "refused") /\ UNCHANGED host

VenvIsMade(unmade) ==
  /\ At("runtime", "venv")
  /\ CASE Env.marker -> Act("runtime", "venv", "link") /\ UNCHANGED <<mem, host>>
       [] ~Env.marker /\ Env.venv = "link" -> RuntimeEnds("venv", "refused") /\ UNCHANGED host
       [] ~Env.marker /\ Env.venv \notin unmade \cup {"link"} ->
            Act("runtime", "venv", "pip") /\ UNCHANGED <<mem, host>>
       [] ~Env.marker /\ Env.venv \in unmade ->
            \/ /\ Act("runtime", "venv", "pip") /\ UNCHANGED mem
               /\ host' = [host EXCEPT !.env[mem.lock] = [NoEnvironment EXCEPT !.venv = "pip"]]
            \/ /\ Fault /\ Goto("runtime", "ended")
               /\ mem' = [mem EXCEPT !.verdict = "refused", !.failed = TRUE]
               /\ \E left \in {"none", "python"} :
                    host' = [host EXCEPT !.env[mem.lock] = [NoEnvironment EXCEPT !.venv = left]]
MutMakeVenv == VenvIsMade({"none"})  \* an environment with bin/python is taken for a made one
\* pip is what a finished venv has last, so its absence is what asks for one; whatever is there
\* is cleared, except through a link.
MakeVenv == VenvIsMade({"none", "python"})

\* pip installs the lock whole, or fails with any part of it installed.
PipInstalls(onFailure) ==
  /\ At("runtime", "pip")
  /\ \/ /\ Env.venv = "pip" /\ Act("runtime", "pip", "engine") /\ UNCHANGED mem
        /\ host' = [host EXCEPT !.env[mem.lock].packages = Packages]
     \/ /\ Env.venv = "pip" /\ Fault /\ Goto("runtime", onFailure)
        /\ \E part \in SUBSET Packages : host' = [host EXCEPT !.env[mem.lock].packages = @ \cup part]
        /\ mem' = [mem EXCEPT !.verdict = IF onFailure = "ended" THEN "refused" ELSE None, !.failed = TRUE]
     \/ Env.venv # "pip" /\ RuntimeEnds("pip", "refused") /\ UNCHANGED host
MutInstallLock == PipInstalls("engine")  \* pip's status is not read
InstallLock == PipInstalls("ended")

\* The marker is written last, once the engine is there to be linked to.
MarkInstalled ==
  /\ At("runtime", "engine")
  /\ IF Engine \in Env.packages
     THEN /\ Act("runtime", "engine", "link") /\ UNCHANGED mem
          /\ host' = [host EXCEPT !.env[mem.lock].marker = TRUE]
     ELSE RuntimeEnds("engine", "refused") /\ UNCHANGED host

\* The program will not replace a directory; the role's own link task, with force, is not
\* modelled over one.
PointLink ==
  /\ At("runtime", "link")
  /\ RuntimeEnds("link", IF host.link = "directory" THEN "refused" ELSE "done")
  /\ host' = [host EXCEPT !.link = IF @ = "directory" THEN @ ELSE mem.lock]
RuntimeForget == Act("runtime", "ended", "idle") /\ mem' = None /\ UNCHANGED host

\* The host goes down: a venv or pip under way leaves what it had put down.
RuntimeDies ==
  /\ at[1] = "runtime" /\ at[2] \notin {"idle", "ended"} /\ Fault
  /\ Goto("runtime", "idle") /\ mem' = None
  /\ host' \in {host}
        \cup (IF At("runtime", "venv") /\ ~Env.marker /\ Env.venv \in {"none", "python"}
              THEN {[host EXCEPT !.env[mem.lock].venv = "python"]} ELSE {})
        \cup (IF At("runtime", "pip")
              THEN {[host EXCEPT !.env[mem.lock].packages = @ \cup p] : p \in SUBSET Packages} ELSE {})

RuntimeNext == \/ StartInstall \/ ReadLock \/ CheckRoot \/ MakeVenv \/ InstallLock \/ MarkInstalled
               \/ PointLink \/ RuntimeForget \/ RuntimeDies
RuntimeSpec == RuntimeInit /\ [][RuntimeNext]_programVars

---------------------------------------------------------------------------
\* The environment in service was installed whole, from the lock it is named for, whatever
\* failed or died since: "A failed install leaves the previous environment in service".
LinkIsWhole ==
  at[1] = "runtime" /\ host.link \in Locks => host.env[host.link].packages = Packages

\* What a dead or failed run left is taken up by the next: a run in which nothing fails, on a
\* host whose paths are the program's own, is not refused.
HalfMadeIsResumed ==
  at[1] = "runtime" /\ at[2] = "ended" /\ mem.verdict = "refused" /\ ~mem.failed =>
    mem.as # "given" \/ ~host.rootTrusted \/ host.link = "directory" \/ Env.venv = "link"

---------------------------------------------------------------------------
(* The reading of a lock. A physical line is a run of tokens, which may end in a backslash: *)
(* a pinned name, a hash, another option, and a "#" with what follows it.                    *)
Token == {"name", "hash", "option", "#"}
Line == [tokens : {<<>>} \cup Token \X {"hash"} \cup {<<t>> : t \in Token}, joins : BOOLEAN]
IsComment(line) == line.tokens # <<>> /\ line.tokens[1] = "#"
BlankLine(line) == line.tokens = <<>> /\ ~line.joins

LockInit == at = <<"lock", "read">> /\ mem = None /\ faults = 0 /\ host = <<>>
GrowLock == /\ Act("lock", "read", "read") /\ Len(host) < MaxLines /\ UNCHANGED mem
            /\ \E line \in Line : host' = Append(host, line)

\* What has been read of a lock: its logical lines so far, and the tokens of the one still open.
NoPending == [lines |-> <<>>, open |-> FALSE, pending |-> <<>>]
Close(r, tokens) == [lines |-> IF tokens = <<>> THEN r.lines ELSE Append(r.lines, tokens),
                     open |-> FALSE, pending |-> <<>>]
MutLogicalStep(r, line) ==  \* a comment's backslash joins it to the next line
  IF ~r.open /\ (BlankLine(line) \/ (IsComment(line) /\ ~line.joins)) THEN r
  ELSE IF line.joins
  THEN [r EXCEPT !.open = TRUE, !.pending = IF IsComment(line) THEN @ ELSE @ \o line.tokens]
  ELSE IF r.open /\ r.pending = <<>> THEN [r EXCEPT !.open = FALSE] ELSE Close(r, r.pending \o line.tokens)
LogicalStep(r, line) ==
  IF ~r.open /\ (IsComment(line) \/ BlankLine(line)) THEN r
  ELSE IF line.joins /\ ~IsComment(line)
  THEN [r EXCEPT !.open = TRUE, !.pending = @ \o line.tokens]
  ELSE Close(r, r.pending \o line.tokens)

\* pip's own rule: a comment ends the line it is joined to, and is dropped afterwards.
PipStep(r, line) ==
  IF line.joins /\ ~IsComment(line)
  THEN [r EXCEPT !.open = TRUE, !.pending = @ \o line.tokens]
  ELSE Close(r, r.pending \o line.tokens)
Joins(lock, reader) ==
  LET read[n \in 0..Len(lock)] ==
        IF n = 0 THEN NoPending
        ELSE IF reader = "pip" THEN PipStep(read[n - 1], lock[n]) ELSE LogicalStep(read[n - 1], lock[n])
      last == read[Len(lock)]
  IN  Close(last, last.pending).lines
BeforeComment(tokens) ==
  LET cut == {i \in DOMAIN tokens : tokens[i] = "#"}
  IN  IF cut = {} THEN tokens ELSE SubSeq(tokens, 1, First(cut) - 1)

PinnedAndHashed(tokens) ==
  Len(tokens) > 1 /\ tokens[1] = "name" /\ \A i \in 2..Len(tokens) : tokens[i] = "hash"
NoOptions(lock) ==
  \A i \in DOMAIN lock : IsComment(lock[i]) \/ \A j \in DOMAIN lock[i].tokens : lock[i].tokens[j] # "option"
LockAccepted(lock) ==
  LET lines == Joins(lock, "program")
  IN  NoOptions(lock) /\ lines # <<>> /\ \A i \in DOMAIN lines : PinnedAndHashed(lines[i])
PipReads(lock) ==
  LET lines == Joins(lock, "pip") IN {BeforeComment(lines[i]) : i \in DOMAIN lines} \ {<<>>}

\* A lock the program accepts is one pip reads the same way: something to install, every
\* requirement of it hashed, and no option but the hashes.
PipReadsNoMore ==
  at[1] = "lock" /\ LockAccepted(host) =>
    PipReads(host) # {} /\ \A r \in PipReads(host) : PinnedAndHashed(r)

\* The runtime a host runs is the whole of a lock, and one that was cut off is made whole.
RuntimeHolds == LinkIsWhole /\ HalfMadeIsResumed
=============================================================================
