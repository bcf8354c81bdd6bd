----------------------------- MODULE BootRecord -----------------------------
(***************************************************************************)
(* The first-boot document's record (pull_bootstrap.py): each fetched file *)
(* pinned at its last commit on main, beside the configuration main's own  *)
(* files give. The record is built and checked in clones that may be       *)
(* shallow, behind, on a branch or edited, while main moves on.            *)
(*                                                                         *)
(* Program "fill" is the filling of a variable's references.               *)
(***************************************************************************)
EXTENDS Program

CONSTANTS Fetched,      \* the files a host fetches
          Content,      \* what a file may hold
          MaxCommits,   \* commits on main
          Names,        \* variables of the role, as numbers
          FillDepth     \* how many references may lead to one another

\* A file has a content, and references are followed a fixed number of times.
ASSUME BootAssumption == None \notin Content /\ FillDepth \in Nat

\* A commit is what the tree holds after it: main is never rewritten. "inputs" stands for the
\* files the configuration comes from; Odd is a content the tool will not render.
Tree == [Fetched \cup {"inputs"} -> Content \cup {Odd}]
Commit == 1..MaxCommits
\* What HEAD is: a commit of main, or one commit of a branch beside it.
Branch == 0
Clone == [head : Commit \cup {Branch}, shallow : BOOLEAN, edited : BOOLEAN]
NoRecord == [f \in Fetched |-> [pin |-> None, sha256 |-> None]]

BootInit ==
  /\ at = <<"boot", "idle">> /\ mem = None /\ faults = 0
  /\ \E t \in {t \in Tree : \A f \in Fetched : t[f] # Odd} :
       host = [main |-> <<t>>, record |-> NoRecord, config |-> None, built |-> 0]

Tip == Len(host.main)
CommitToMain ==
  /\ at[1] = "boot" /\ Tip < MaxCommits /\ UNCHANGED <<at, mem, faults>>
  /\ \E f \in DOMAIN host.main[Tip], c \in Content \cup {Odd} :  \* the same one: another file's commit
       /\ f \in Fetched => c # Odd
       /\ host' = [host EXCEPT !.main = Append(@, [host.main[Tip] EXCEPT ![f] = c])]

StartBoot ==
  /\ Act("boot", "idle", "history") /\ UNCHANGED host
  /\ \E clone \in Clone, verify \in BOOLEAN :
       /\ clone.head <= Tip /\ (verify => host.built # 0)
       /\ mem' = [clone |-> clone, verify |-> verify, tip |-> 0, verdict |-> None]

BootEnds(from, verdict) == Act("boot", from, "ended") /\ mem' = [mem EXCEPT !.verdict = verdict]

MutRefuseShallow ==  \* whatever the clone holds will do
  Act("boot", "history", "fetch") /\ UNCHANGED <<mem, host>>
\* A shallow clone answers HEAD for the last commit of every file.
RefuseShallow ==
  /\ At("boot", "history") /\ UNCHANGED host
  /\ IF mem.clone.shallow THEN BootEnds("history", "refused")
     ELSE Act("boot", "history", "fetch") /\ UNCHANGED mem
FetchMain ==
  /\ At("boot", "fetch") /\ UNCHANGED host
  /\ Act("boot", "fetch", "head") /\ mem' = [mem EXCEPT !.tip = Tip]
CheckedOutTip ==
  /\ At("boot", "head") /\ UNCHANGED host
  /\ IF mem.clone.head # mem.tip THEN BootEnds("head", "refused")
     ELSE Act("boot", "head", "read") /\ UNCHANGED mem

HeadCommit == mem.clone.head
Changed(f, n) == n = 1 \/ host.main[n][f] # host.main[n - 1][f]
LastChange(f, n) == CHOOSE m \in 1..n : Changed(f, m) /\ \A k \in m + 1..n : ~Changed(f, k)
MutLastCommit(f) == HeadCommit  \* the log of the whole tree
LastCommit(f) == IF mem.clone.shallow THEN HeadCommit ELSE LastChange(f, HeadCommit)
\* The configuration of HEAD's files, or None: an input edited, or one the tool will not render.
ConfigOf ==
  IF mem.clone.edited \/ host.main[HeadCommit]["inputs"] = Odd THEN None ELSE host.main[HeadCommit]["inputs"]
BuildRecord ==
  /\ At("boot", "read") /\ ~mem.verify
  /\ IF ConfigOf = None THEN BootEnds("read", "refused") /\ UNCHANGED host
     ELSE /\ BootEnds("read", "current")
          /\ host' = [host EXCEPT
               !.record = [f \in Fetched |-> [pin |-> LastCommit(f),
                                              sha256 |-> host.main[LastCommit(f)][f]]],
               !.config = ConfigOf, !.built = mem.tip]

Ancestor(pin) == pin \in 1..mem.tip
EntryIsCurrent(f) ==
  LET entry == host.record[f]
  IN  /\ Ancestor(entry.pin)
      /\ entry.sha256 = host.main[entry.pin][f]
      /\ entry.pin = LastCommit(f)
VerifyRecord ==
  /\ At("boot", "read") /\ mem.verify /\ UNCHANGED host
  /\ BootEnds("read", IF /\ \A f \in Fetched : EntryIsCurrent(f)
                         /\ ConfigOf # None /\ host.config = ConfigOf
                      THEN "current" ELSE "refused")
BootForget == Act("boot", "ended", "idle") /\ mem' = None /\ UNCHANGED host

\* A hand on the record: an old pin put back, a digest or the configuration of another commit.
EditRecord ==
  /\ At("boot", "idle") /\ Fault /\ UNCHANGED <<at, mem>> /\ host.built # 0
  /\ \E f \in Fetched, n \in 1..Tip :
       host' \in {[host EXCEPT !.record[f].pin = n], [host EXCEPT !.record[f].sha256 = host.main[n][f]],
                  [host EXCEPT !.config = host.main[n]["inputs"]]}

BootNext == \/ CommitToMain \/ StartBoot \/ RefuseShallow \/ FetchMain \/ CheckedOutTip
            \/ BuildRecord \/ VerifyRecord \/ BootForget \/ EditRecord
BootSpec == BootInit /\ [][BootNext]_programVars

---------------------------------------------------------------------------
\* A record that was built or found current describes main as it was when the run fetched it:
\* each pin is the commit that last changed the file, its digest the file's, and the
\* configuration the one that commit's files give.
VerdictIsMains ==
  at[1] = "boot" /\ at[2] = "ended" /\ mem.verdict = "current" =>
    LET now == host.main[mem.tip]
    IN  /\ host.config = now["inputs"] /\ host.config # Odd
        /\ \A f \in Fetched : host.record[f] = [pin |-> LastChange(f, mem.tip), sha256 |-> now[f]]

\* A record is found current for as long as main holds what it was built from: commits that
\* change something else, and a clean clone of any later tip, do not turn it away.
RecordLasts ==
  at[1] = "boot" /\ at[2] = "ended" /\ mem.verify /\ mem.verdict = "refused" /\ faults = 0 =>
    \/ mem.clone.shallow \/ mem.clone.edited \/ mem.clone.head # mem.tip
    \/ \E f \in Fetched \cup {"inputs"} : \E n \in host.built + 1..mem.tip : Changed(f, n)

---------------------------------------------------------------------------
(* fill: a variable's text is plain, names another variable, or holds another template. *)
FillInit == at = <<"fill", "grow">> /\ mem = None /\ faults = 0 /\ host = <<>>
GrowVariables ==
  /\ Act("fill", "grow", "grow") /\ Len(host) < Cardinality(Names) /\ UNCHANGED mem
  /\ \E value \in {[is |-> "plain", to |-> 0], [is |-> "template", to |-> 0], [is |-> "number", to |-> 0]}
                  \cup {[is |-> "name", to |-> n] : n \in Names} : host' = Append(host, value)

Unset == [is |-> "refused", to |-> 0]
Follow(value) ==
  IF value.is # "name" THEN value
  ELSE IF value.to \in DOMAIN host /\ host[value.to].is # "number" THEN host[value.to] ELSE Unset
MutFilled(n) ==  \* one round too few
  LET rounds[k \in 0..FillDepth] == IF k = 0 THEN host[n] ELSE Follow(rounds[k - 1]) IN rounds[FillDepth - 1]
Filled(n) ==
  LET rounds[k \in 0..FillDepth] == IF k = 0 THEN host[n] ELSE Follow(rounds[k - 1])
  IN  rounds[FillDepth]
Fills(n) == Filled(n).is \in {"plain", "number"}

Leads(n, m) == host[n].is = "name" /\ host[n].to = m
\* The variables that a chain of references from n passes, as far as it is followed.
Chain(n) == {p \in UNION {[1..k -> DOMAIN host] : k \in 1..FillDepth + 1} :
               p[1] = n /\ \A i \in 1..Len(p) - 1 : Leads(p[i], p[i + 1])}
\* What is filled is the text the references lead to, and a value is refused exactly when they
\* lead to no text within the depth: a loop, a name nothing sets, a template or a number in text.
FillFollowsNames ==
  at[1] = "fill" => \A n \in DOMAIN host :
    Fills(n) <=> \E p \in Chain(n) : host[p[Len(p)]].is = "plain" \/ (Len(p) = 1 /\ host[n].is = "number")

\* The bootstrap's verdict and the record of it are main's.
BootHolds == VerdictIsMains /\ RecordLasts
=============================================================================
