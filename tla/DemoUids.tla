------------------------------ MODULE DemoUids ------------------------------
(***************************************************************************)
(* The demo host's claims in the tenant uid register (demo_uid_claims.py): *)
(* one file per slug, written once and kept. Two runs may overlap, each    *)
(* may die at any step, and between runs other programs claim uids and     *)
(* make accounts. The demo's slugs are abstracted to the uids they want.   *)
(***************************************************************************)
EXTENDS Program

CONSTANTS Claimers,     \* runs that may be under way at once
          Uid,          \* the uids the demo wants, a slug's own each
          Tenant        \* the slugs of other programs

\* No run and no verdict is None; a uid is a number, as the sorted walk over the wanted ones needs it.
ASSUME UidAssumption == None \notin Claimers \cup {"broken"} /\ Uid \subseteq Nat

UidHost == [claim : [Uid \cup Tenant -> {None}], temp : SUBSET Uid, oddTemp : BOOLEAN,
            accounts : SUBSET Uid, dir : {"none", "ours", "other"}, lock : {None}]
UidInit ==
  /\ at = <<"uids", "run">> /\ mem = [c \in Claimers |-> None] /\ faults = 0
  /\ host \in UidHost /\ (host.dir = "none" => host.temp = {} /\ ~host.oddTemp)

Claims(c, step) == At("uids", "run") /\ UNCHANGED <<at, faults>>
                   /\ mem[c] # None /\ mem[c].step = step
ClaimsGo(c, to) == mem' = [mem EXCEPT ![c].step = to]
ClaimsEnd(c, verdict) == mem' = [mem EXCEPT ![c].step = "ended", ![c].verdict = verdict]

MutLockRegister(c) ==
  /\ At("uids", "run") /\ UNCHANGED <<at, faults>> /\ mem[c] = None
  /\ LET fits == host.dir # "other"  \* no lock
     IN  /\ mem' = [mem EXCEPT ![c] = [step |-> IF fits THEN "temps" ELSE "ended", left |-> {},
                                        made |-> {}, verdict |-> IF fits THEN None ELSE "refused"]]
         /\ host' = [host EXCEPT !.dir = IF @ = "none" THEN "ours" ELSE @,
                                 !.lock = IF fits THEN c ELSE @]

\* The directory is made or must be as made; the lock on it is not waited for.
LockRegister(c) ==
  /\ At("uids", "run") /\ UNCHANGED <<at, faults>> /\ mem[c] = None
  /\ LET fits == host.dir # "other" /\ host.lock = None
     IN  /\ mem' = [mem EXCEPT ![c] = [step |-> IF fits THEN "temps" ELSE "ended", left |-> {},
                                        made |-> {}, verdict |-> IF fits THEN None ELSE "refused"]]
         /\ host' = [host EXCEPT !.dir = IF @ = "none" THEN "ours" ELSE @,
                                 !.lock = IF fits THEN c ELSE @]

MutClearStaleTemps(c) ==  \* a leftover is read as a claim
  /\ Claims(c, "temps")
  /\ IF host.oddTemp \/ host.temp # {} THEN ClaimsEnd(c, "refused") /\ host' = [host EXCEPT !.lock = None]
     ELSE ClaimsGo(c, "judge") /\ UNCHANGED host
ClearStaleTemps(c) ==
  /\ Claims(c, "temps")
  /\ IF host.oddTemp THEN ClaimsEnd(c, "refused") /\ host' = [host EXCEPT !.lock = None]
     ELSE ClaimsGo(c, "judge") /\ host' = [host EXCEPT !.temp = {}]

\* Nothing is written unless every wanted uid can be had; a claim made by an earlier run is
\* not looked up among the accounts again, since its account is expected to be there.
Unclaimed == {u \in Uid : host.claim[u] = None}
MutClaimable ==  \* nobody looks who else holds the uid
  /\ \A s \in Uid \cup Tenant : host.claim[s] # Odd
  /\ \A u \in Uid : host.claim[u] \in {None, u}
  /\ Unclaimed \cap host.accounts = {}
Claimable ==
  /\ \A s \in Uid \cup Tenant : host.claim[s] # Odd
  /\ \A u \in Uid : /\ host.claim[u] \in {None, u}
                    /\ \A s \in (Uid \cup Tenant) \ {u} : host.claim[s] # u
  /\ Unclaimed \cap host.accounts = {}
JudgeClaims(c) ==
  /\ Claims(c, "judge")
  /\ IF Claimable THEN mem' = [mem EXCEPT ![c].step = "write", ![c].left = Unclaimed] /\ UNCHANGED host
     ELSE ClaimsEnd(c, "refused") /\ host' = [host EXCEPT !.lock = None]

WriteTemp(c) ==
  /\ Claims(c, "write") /\ mem[c].left # {}
  /\ LET u == First(mem[c].left)
     IN  IF u \in host.temp THEN ClaimsEnd(c, "broken") /\ host' = [host EXCEPT !.lock = None]
         ELSE ClaimsGo(c, "rename") /\ host' = [host EXCEPT !.temp = @ \cup {u}]
RenameClaim(c) ==
  /\ Claims(c, "rename")
  /\ LET u == First(mem[c].left)
     IN  IF u \in host.temp
         THEN /\ host' = [host EXCEPT !.temp = @ \ {u}, !.claim[u] = u]
              /\ mem' = [mem EXCEPT ![c].step = "write", ![c].left = @ \ {u}, ![c].made = @ \cup {u}]
         ELSE ClaimsEnd(c, "broken") /\ host' = [host EXCEPT !.lock = None]
ClaimsDone(c) ==
  /\ Claims(c, "write") /\ mem[c].left = {} /\ ClaimsEnd(c, "done")
  /\ host' = [host EXCEPT !.lock = None]
ClaimsForget(c) == Claims(c, "ended") /\ mem' = [mem EXCEPT ![c] = None] /\ UNCHANGED host

ClaimsDie(c) ==
  /\ At("uids", "run") /\ UNCHANGED at /\ Fault /\ mem[c] # None /\ mem[c].step # "ended"
  /\ mem' = [mem EXCEPT ![c] = None]
  /\ host' = [host EXCEPT !.lock = IF @ = c THEN None ELSE @]

\* What others do while no run holds the register.
OthersClaim ==
  /\ At("uids", "run") /\ Fault /\ host.lock = None /\ host.dir = "ours" /\ UNCHANGED <<at, mem>>
  /\ \/ \E t \in Tenant, u \in Uid : (\A s \in Uid \cup Tenant : host.claim[s] # u)
                                     /\ host' = [host EXCEPT !.claim[t] = u]
     \/ \E u \in Uid : host' \in {[host EXCEPT !.claim[u] = Odd], [host EXCEPT !.accounts = @ \cup {u}]}

UidNext ==
  \/ \E c \in Claimers :
       \/ LockRegister(c) \/ ClearStaleTemps(c) \/ JudgeClaims(c) \/ WriteTemp(c) \/ RenameClaim(c)
       \/ ClaimsDone(c) \/ ClaimsForget(c) \/ ClaimsDie(c)
  \/ OthersClaim
UidSpec == UidInit /\ [][UidNext]_programVars

---------------------------------------------------------------------------
\* No uid has two claims, and none a run has just made belongs to an account that was
\* there before: the next lease of a uid would own another's files.
ClaimsAreAlone ==
  at[1] = "uids" =>
    /\ \A s, t \in Uid \cup Tenant : s # t /\ host.claim[s] \in Uid => host.claim[s] # host.claim[t]
    /\ \A c \in Claimers : mem[c] # None => mem[c].made \cap host.accounts = {} \/ mem[c].step = "ended"

\* Two runs never trip over each other's files: "the check-then-write below is only sound
\* serially", so the second is refused and the first is not disturbed.
RunsDoNotCollide ==
  at[1] = "uids" => \A c \in Claimers : mem[c] # None => mem[c].verdict # "broken"

\* What a dead run left never stops the next one: after a death alone, a run that has the
\* register to itself is not refused.
Resumes ==
  at[1] = "uids" =>
    \A c \in Claimers : mem[c] # None /\ mem[c].step \in {"temps", "judge"} /\ host.accounts = {}
        /\ (\A u \in Uid : host.claim[u] \in {None, u}) /\ (\A t \in Tenant : host.claim[t] = None)
        /\ ~host.oddTemp /\ mem'[c] # None => mem'[c].verdict = None
DeadRunIsResumed == [][Resumes]_programVars

\* The register of uids, whoever else writes it.
UidsHold == ClaimsAreAlone /\ RunsDoNotCollide
=============================================================================
