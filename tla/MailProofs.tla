----------------------------- MODULE MailProofs -----------------------------
(***************************************************************************)
(* What the programs of the mail server promise, for any number of         *)
(* secrets, settings, mailboxes and texts: the submission credentials, the *)
(* administrator's, the accounts, and the classes of the server's stack.   *)
(***************************************************************************)
EXTENDS MailSubmission, MailAdmin, MailAccounts, MailStack, SequenceTheorems, WellFoundedInduction, TLAPS

SubmitStage == {"idle", "plan", "domains", "exempt", "restart", "account", "password", "record", "check", "ended",
          "destroy", "unrecord"}
SubmitVerdict == {None, "refused", "orphaned", "failed", "provisioned", "revoked"}
RunMemory == [changed : BOOLEAN, secret : {None} \cup Nat, verdict : SubmitVerdict]

SubmitTyped == /\ \E s \in SubmitStage : at = <<"submit", s>>
               /\ host \in Submission
               /\ at[2] # "idle" => mem \in RunMemory
               /\ at[2] = "record" => mem.secret \in Nat

\* The domain rule is in force wherever the exemption is, and at the step that adds it.
Scoped == /\ NeverUnscoped
          /\ at[2] = "exempt" => "domains" \in host.stored

\* A credential and its record exist together, except between the server's answer and the record,
\* and between the revocation and the removal of the record: what a death leaves there is a record
\* or a credential on its own, never two that differ.
Together ==
  host.script # "website" =>
    /\ host.live # None /\ host.lines # <<>> => host.lines[1] = host.live
    /\ at[2] \in {"domains", "exempt", "restart", "account", "password"} => (host.live = None <=> host.lines = <<>>)
    /\ at[2] = "record" => host.lines = <<>> /\ host.live # None /\ mem.secret = host.live
    /\ at[2] = "check" => host.live # None /\ host.lines # <<>>
    /\ at[2] = "unrecord" => host.live = None
    /\ at[2] = "ended" /\ mem.verdict = "provisioned" => host.live # None /\ host.lines # <<>>

SubmitInv == SubmitTyped /\ Scoped /\ Together
---------------------------------------------------------------------------
\* A step of the script from one stage to the next.
LEMMA SubmitMoves ==
  ASSUME NEW from, NEW to, At("submit", from), Goto("submit", to)
  PROVE  at[1] = "submit" /\ at[2] = from /\ at'[1] = "submit" /\ at'[2] = to /\ at' = <<"submit", to>>
BY DEF At, Goto

LEMMA Recording == ASSUME host \in Submission PROVE Recorded = None <=> host.lines = <<>>
<1>1. host.lines \in Seq(Nat)
  BY DEF Submission
<1>2. CASE host.lines # <<>>
  <2>1. host.lines[1] \in Nat
    BY <1>1, <1>2
  <2>2. host.lines[1] # None
    BY <2>1, ValueAssumption
  <2> QED
    BY <1>2, <2>2 DEF Recorded
<1> QED
  BY <1>2 DEF Recorded

\* A run ends, and what it leaves on the host is what was there.
LEMMA SubmitEndsKeeps ==
  ASSUME SubmitInv, NEW from \in SubmitStage \ {"idle"}, NEW verdict \in SubmitVerdict,
         At("submit", from), Goto("submit", "ended"), mem' = [mem EXCEPT !.verdict = verdict], UNCHANGED host,
         verdict = "provisioned" => from = "check"
  PROVE  SubmitInv'
<1>1. mem \in RunMemory /\ at[2] = from /\ at'[2] = "ended" /\ at' = <<"submit", "ended">> /\ at[1] = "submit"
  BY SubmitMoves DEF SubmitInv, SubmitTyped
<1>2. mem' \in RunMemory /\ mem'.verdict = verdict
  BY <1>1 DEF RunMemory
<1>3. SubmitTyped'
  BY <1>1, <1>2 DEF SubmitInv, SubmitTyped, SubmitStage
<1>4. Scoped'
  BY <1>1 DEF SubmitInv, Scoped, NeverUnscoped
<1>5. Together'
  BY <1>1, <1>2 DEF SubmitInv, Together
<1> QED
  BY <1>3, <1>4, <1>5 DEF SubmitInv

\* A failed step may have left its change behind: a rule stored or loaded, an account, a
\* credential destroyed.
LEMMA SubmitFailsKeeps ==
  ASSUME SubmitInv, NEW from \in SubmitStage \ {"idle"}, SubmitFails(from),
         host' \in Submission, host'.lines = host.lines, host'.script = host.script,
         host'.live \in {host.live, None},
         \A rules \in {host'.stored, host'.loaded} : "exempt" \in rules => "domains" \in rules
  PROVE  SubmitInv'
<1>1. /\ mem \in RunMemory /\ at[2] = from /\ at'[2] = "ended" /\ at' = <<"submit", "ended">> /\ at[1] = "submit"
      /\ mem' = [mem EXCEPT !.verdict = "failed"]
  BY SubmitMoves DEF SubmitInv, SubmitTyped, SubmitFails
<1>2. mem' \in RunMemory /\ mem'.verdict = "failed"
  BY <1>1 DEF RunMemory, SubmitVerdict
<1>3. SubmitTyped'
  BY <1>1, <1>2 DEF SubmitTyped, SubmitStage
<1>4. Scoped'
  BY <1>1 DEF Scoped, NeverUnscoped
<1>5. Together'
  BY <1>1, <1>2 DEF SubmitInv, Together
<1> QED
  BY <1>3, <1>4, <1>5 DEF SubmitInv

LEMMA SubmitPlanKeeps == ASSUME SubmitInv, StartSubmission \/ StartRevoke \/ PlanSubmission PROVE SubmitInv'
<1>1. CASE StartSubmission
  <2>1. /\ at' = <<"submit", "plan">> /\ at'[2] = "plan" /\ at[1] = "submit" /\ UNCHANGED host
        /\ mem' = [changed |-> FALSE, secret |-> None, verdict |-> None]
    BY <1>1, SubmitMoves DEF StartSubmission, Act
  <2>2. mem' \in RunMemory
    BY <2>1 DEF RunMemory, SubmitVerdict
  <2> QED
    BY <2>1, <2>2 DEF SubmitInv, SubmitTyped, SubmitStage, Scoped, NeverUnscoped, Together
<1>2. CASE StartRevoke
  <2>1. /\ at' = <<"submit", "destroy">> /\ at'[2] = "destroy" /\ at[1] = "submit" /\ UNCHANGED host
        /\ mem' = [changed |-> FALSE, secret |-> None, verdict |-> None]
    BY <1>2, SubmitMoves DEF StartRevoke, Act
  <2>2. mem' \in RunMemory
    BY <2>1 DEF RunMemory, SubmitVerdict
  <2> QED
    BY <2>1, <2>2 DEF SubmitInv, SubmitTyped, SubmitStage, Scoped, NeverUnscoped, Together
<1>3. CASE PlanSubmission
  <2>1. At("submit", "plan") /\ UNCHANGED host
    BY <1>3 DEF PlanSubmission
  <2>2. CASE SubmitEnds("plan", "refused") \/ SubmitEnds("plan", "orphaned")
    BY <2>1, <2>2, SubmitEndsKeeps DEF SubmitEnds, Act, SubmitStage, SubmitVerdict
  <2>3. CASE /\ ~SubmissionRefused /\ ~(host.live # None /\ Recorded = None) /\ UNCHANGED mem
             /\ Act("submit", "plan", IF host.script = "collector" THEN "domains" ELSE "account")
    <3>1. PICK next \in {"domains", "account"} : Act("submit", "plan", next)
      BY <2>3
    <3>2. at[1] = "submit" /\ at[2] = "plan" /\ at'[2] = next /\ at' = <<"submit", next>>
      BY <3>1, SubmitMoves DEF Act
    <3>3. host.script # "website" => (host.live = None <=> host.lines = <<>>)
      <4>1. host.script \in {"website", "zitadel", "collector"} /\ (Recorded = None <=> host.lines = <<>>)
        BY Recording DEF SubmitInv, SubmitTyped, Submission
      <4>2. host.script # "website" => ~StaleRecord
        BY <2>3, <4>1 DEF SubmissionRefused, ZitadelRefuses, CollectorRefuses
      <4> QED
        BY <2>3, <4>1, <4>2 DEF StaleRecord
    <3> QED
      BY <2>1, <2>3, <3>2, <3>3 DEF SubmitInv, SubmitTyped, SubmitStage, Scoped, NeverUnscoped, Together
  <2> QED
    BY <1>3, <2>2, <2>3 DEF PlanSubmission
<1> QED
  BY <1>1, <1>2, <1>3
LEMMA SubmitRulesKeep == ASSUME SubmitInv, SetSenderDomains \/ SetMustMatch \/ RestartToLoad PROVE SubmitInv'
<1>0. host \in Submission
  BY DEF SubmitInv, SubmitTyped
<1>1. ASSUME NEW rule \in Rules, NEW from \in {"domains", "exempt"}, NEW to \in {"exempt", "restart"},
             StoreRule(rule, from, to),
             \/ rule = "domains" /\ from = "domains" /\ to = "exempt"
             \/ rule = "exempt" /\ from = "exempt" /\ to = "restart"
      PROVE  SubmitInv'
  <2> DEFINE after == [host EXCEPT !.stored = @ \cup {rule}]
  <2>1. At("submit", from) /\ at[2] = from /\ mem \in RunMemory
    BY <1>1 DEF StoreRule, At, SubmitInv, SubmitTyped
  <2>2. /\ after \in Submission /\ after.lines = host.lines /\ after.script = host.script
        /\ after.live = host.live /\ after.stored = host.stored \cup {rule} /\ after.loaded = host.loaded
    <3>1. host.stored \cup {rule} \in SUBSET Rules
      BY <1>0 DEF Submission
    <3> QED
      BY <1>0, <3>1 DEF Submission
  <2>3. /\ "exempt" \in after.stored => "domains" \in after.stored
        /\ "exempt" \in host.stored => "domains" \in host.stored
        /\ "exempt" \in host.loaded => "domains" \in host.loaded
    BY <1>1, <2>1, <2>2 DEF SubmitInv, Scoped, NeverUnscoped, At
  <2> HIDE DEF after
  <2>4. CASE SubmitFails(from) /\ host' \in {host, after}
    BY <1>0, <2>2, <2>3, <2>4, SubmitFailsKeeps DEF SubmitStage
  <2>5. CASE /\ Act("submit", from, to) /\ mem' \in {mem, [mem EXCEPT !.changed = TRUE]}
             /\ host' \in {host, after} /\ rule \in host'.stored
    <3>1. at[1] = "submit" /\ at'[2] = to /\ at' = <<"submit", to>>
      BY <2>5, SubmitMoves DEF Act
    <3>2. mem' \in RunMemory
      BY <2>1, <2>5 DEF RunMemory
    <3>3. SubmitTyped'
      BY <1>0, <2>2, <2>5, <3>1, <3>2 DEF SubmitTyped, SubmitStage
    <3>4. Scoped'
      BY <1>1, <2>2, <2>3, <2>5, <3>1 DEF Scoped, NeverUnscoped
    <3>5. Together'
      BY <2>1, <2>2, <2>5, <3>1 DEF SubmitInv, Together
    <3> QED
      BY <3>3, <3>4, <3>5 DEF SubmitInv
  <2>6. rule \in after.stored
    BY <2>2
  <2> QED
    BY <1>1, <2>4, <2>5, <2>6 DEF StoreRule, after
<1>2. CASE SetSenderDomains
  BY <1>1, <1>2 DEF SetSenderDomains, Rules
<1>3. CASE SetMustMatch
  BY <1>1, <1>3 DEF SetMustMatch, Rules
<1>4. CASE RestartToLoad
  <2> DEFINE after == [host EXCEPT !.loaded = host.stored]
  <2>1. At("submit", "restart") /\ at[2] = "restart" /\ mem \in RunMemory
    BY <1>4 DEF RestartToLoad, At, SubmitInv, SubmitTyped
  <2>2. /\ after \in Submission /\ after.lines = host.lines /\ after.script = host.script
        /\ after.live = host.live /\ after.stored = host.stored /\ after.loaded = host.stored
    BY <1>0 DEF Submission
  <2>3. /\ "exempt" \in host.stored => "domains" \in host.stored
        /\ "exempt" \in host.loaded => "domains" \in host.loaded
    BY <2>1 DEF SubmitInv, Scoped, NeverUnscoped, At
  <2> HIDE DEF after
  <2>4. CASE SubmitFails("restart") /\ host' \in {host, after}
    BY <1>0, <2>2, <2>3, <2>4, SubmitFailsKeeps DEF SubmitStage
  <2>5. CASE Act("submit", "restart", "account") /\ UNCHANGED mem /\ host' \in {host, after}
    <3>1. at[1] = "submit" /\ at'[2] = "account" /\ at' = <<"submit", "account">>
      BY <2>5, SubmitMoves DEF Act
    <3>2. SubmitTyped'
      BY <1>0, <2>1, <2>2, <2>5, <3>1 DEF SubmitTyped, SubmitStage
    <3>3. Scoped'
      BY <2>2, <2>3, <2>5, <3>1 DEF Scoped, NeverUnscoped
    <3>4. Together'
      BY <2>1, <2>2, <2>5, <3>1 DEF SubmitInv, Together
    <3> QED
      BY <3>2, <3>3, <3>4 DEF SubmitInv
  <2> QED
    BY <1>4, <2>4, <2>5 DEF RestartToLoad, after
<1> QED
  BY <1>2, <1>3, <1>4

LEMMA SubmitAccountKeeps == ASSUME SubmitInv, CreateAccount \/ CheckStored \/ RecordSecret PROVE SubmitInv'
<1>0. host \in Submission
  BY DEF SubmitInv, SubmitTyped
<1>1. CASE CreateAccount
  <2> DEFINE after == [host EXCEPT !.account = TRUE]
  <2>1. At("submit", "account") /\ at[2] = "account" /\ mem \in RunMemory
    BY <1>1 DEF CreateAccount, At, SubmitInv, SubmitTyped
  <2>2. /\ after \in Submission /\ after.lines = host.lines /\ after.script = host.script
        /\ after.live = host.live /\ after.stored = host.stored /\ after.loaded = host.loaded
    BY <1>0 DEF Submission
  <2>3. /\ "exempt" \in host.stored => "domains" \in host.stored
        /\ "exempt" \in host.loaded => "domains" \in host.loaded
    BY <2>1 DEF SubmitInv, Scoped, NeverUnscoped, At
  <2> HIDE DEF after
  <2>4. CASE SubmitFails("account") /\ host' \in {host, after}
    BY <1>0, <2>2, <2>3, <2>4, SubmitFailsKeeps DEF SubmitStage
  <2>5. CASE Act("submit", "account", "password") /\ UNCHANGED mem /\ host' = after
    <3>1. at[1] = "submit" /\ at'[2] = "password" /\ at' = <<"submit", "password">>
      BY <2>5, SubmitMoves DEF Act
    <3>2. SubmitTyped'
      BY <2>1, <2>2, <2>5, <3>1 DEF SubmitTyped, SubmitStage
    <3>3. Scoped'
      BY <2>2, <2>3, <2>5, <3>1 DEF Scoped, NeverUnscoped
    <3>4. Together'
      BY <2>1, <2>2, <2>5, <3>1 DEF SubmitInv, Together
    <3> QED
      BY <3>2, <3>3, <3>4 DEF SubmitInv
  <2> QED
    BY <1>1, <2>4, <2>5 DEF CreateAccount, after
<1>2. CASE CheckStored
  <2>1. PICK verdict \in {"failed", "provisioned"} : SubmitEnds("check", verdict)
    BY <1>2 DEF CheckStored
  <2> QED
    BY <1>2, <2>1, SubmitEndsKeeps DEF CheckStored, SubmitEnds, Act, SubmitStage, SubmitVerdict
<1>3. CASE RecordSecret
  <2>1. /\ at[1] = "submit" /\ at[2] = "record" /\ at'[2] = "check" /\ at' = <<"submit", "check">>
        /\ UNCHANGED mem /\ host' = [host EXCEPT !.lines = Append(@, mem.secret)]
    BY <1>3, SubmitMoves DEF RecordSecret, Act
  <2>2. mem \in RunMemory /\ mem.secret \in Nat /\ host.lines \in Seq(Nat)
    BY <1>0, <2>1 DEF SubmitInv, SubmitTyped, Submission
  <2>3. Append(host.lines, mem.secret) \in Seq(Nat) /\ Append(host.lines, mem.secret) # <<>>
    BY <2>2, AppendProperties
  <2>4. /\ host' \in Submission /\ host'.lines = Append(host.lines, mem.secret) /\ host'.script = host.script
        /\ host'.live = host.live /\ host'.stored = host.stored /\ host'.loaded = host.loaded
    BY <1>0, <2>1, <2>3 DEF Submission
  <2>5. host.script # "website" => host'.lines[1] = mem.secret /\ mem.secret = host.live /\ host.live # None
    <3> SUFFICES ASSUME host.script # "website" PROVE host'.lines[1] = mem.secret /\ mem.secret = host.live /\ host.live # None
      OBVIOUS
    <3>1. host.lines = <<>> /\ mem.secret = host.live /\ host.live # None
      BY <2>1 DEF SubmitInv, Together
    <3> QED
      BY <2>2, <2>4, <3>1
  <2>6. SubmitTyped'
    BY <2>1, <2>2, <2>4 DEF SubmitTyped, SubmitStage
  <2>7. Scoped'
    BY <2>1, <2>4 DEF SubmitInv, Scoped, NeverUnscoped
  <2>8. Together'
    BY <2>1, <2>3, <2>4, <2>5 DEF Together
  <2> QED
    BY <2>6, <2>7, <2>8 DEF SubmitInv
<1> QED
  BY <1>1, <1>2, <1>3

LEMMA SubmitPasswordKeeps == ASSUME SubmitInv, CreatePassword PROVE SubmitInv'
<1>0. At("submit", "password") /\ at[1] = "submit" /\ at[2] = "password" /\ host \in Submission /\ mem \in RunMemory
  BY DEF CreatePassword, At, SubmitInv, SubmitTyped
<1>1. CASE host.live # None /\ Act("submit", "password", "check") /\ UNCHANGED <<mem, host>>
  <2>1. at'[2] = "check" /\ at' = <<"submit", "check">>
    BY <1>1, SubmitMoves DEF Act
  <2> QED
    BY <1>0, <1>1, <2>1 DEF SubmitInv, SubmitTyped, SubmitStage, Scoped, NeverUnscoped, Together
<1>2. CASE /\ host.live = None /\ host' = [host EXCEPT !.issued = @ + 1, !.live = host.issued + 1]
           /\ \/ Act("submit", "password", "record") /\ mem' = [mem EXCEPT !.secret = host.issued + 1]
              \/ SubmitFails("password")
  <2>1. host.issued \in Nat
    BY <1>0 DEF Submission
  <2>2. host.issued + 1 \in Nat /\ host.issued + 1 # None
    BY <2>1, ValueAssumption
  <2> DEFINE next == host.issued + 1
             shown == [host EXCEPT !.issued = next]
  <2>3. shown \in Submission /\ shown.lines = host.lines /\ shown.script = host.script
        /\ shown.stored = host.stored /\ shown.loaded = host.loaded
    BY <1>0, <2>2 DEF Submission
  <2>4. host' = [shown EXCEPT !.live = next] /\ next \in Nat /\ next # None
    BY <1>0, <1>2, <2>2 DEF Submission
  <2>5. \/ Act("submit", "password", "record") /\ mem' = [mem EXCEPT !.secret = next]
        \/ SubmitFails("password")
    BY <1>2
  <2> HIDE DEF next, shown
  <2>6. /\ host' \in Submission /\ host'.lines = host.lines /\ host'.script = host.script /\ host'.live = next
        /\ host'.stored = host.stored /\ host'.loaded = host.loaded
    BY <2>3, <2>4 DEF Submission
  <2>7. host.script # "website" => host'.lines = <<>>
    BY <1>0, <1>2, <2>6 DEF SubmitInv, Together
  <2>8. /\ \/ at'[2] = "record" /\ at' = <<"submit", "record">> /\ mem'.secret = next
           \/ at'[2] = "ended" /\ at' = <<"submit", "ended">> /\ mem'.verdict = "failed"
        /\ mem' \in RunMemory
    <3>1. CASE Act("submit", "password", "record") /\ mem' = [mem EXCEPT !.secret = next]
      BY <1>0, <2>4, <3>1, SubmitMoves DEF Act, RunMemory
    <3>2. CASE SubmitFails("password")
      BY <1>0, <3>2, SubmitMoves DEF SubmitFails, RunMemory, SubmitVerdict
    <3> QED
      BY <2>5, <3>1, <3>2
  <2>9. SubmitTyped'
    BY <2>4, <2>6, <2>8 DEF SubmitTyped, SubmitStage
  <2>10. Scoped'
    BY <1>0, <2>6, <2>8 DEF SubmitInv, Scoped, NeverUnscoped
  <2>11. Together'
    BY <2>4, <2>6, <2>7, <2>8 DEF Together
  <2> QED
    BY <2>9, <2>10, <2>11 DEF SubmitInv
<1> QED
  BY <1>1, <1>2 DEF CreatePassword
LEMMA SubmitRevokeKeeps == ASSUME SubmitInv, DestroyPassword \/ RemoveRecord \/ DestroyByHand PROVE SubmitInv'
<1>0. host \in Submission
  BY DEF SubmitInv, SubmitTyped
<1> DEFINE gone == [host EXCEPT !.live = None]
<1>1. /\ gone \in Submission /\ gone.lines = host.lines /\ gone.script = host.script /\ gone.live = None
      /\ gone.stored = host.stored /\ gone.loaded = host.loaded
  BY <1>0 DEF Submission
<1>2. CASE DestroyPassword
  <2>1. At("submit", "destroy") /\ at[1] = "submit" /\ at[2] = "destroy" /\ mem \in RunMemory
    BY <1>2 DEF DestroyPassword, At, SubmitInv, SubmitTyped
  <2>2. /\ "exempt" \in host.stored => "domains" \in host.stored
        /\ "exempt" \in host.loaded => "domains" \in host.loaded
    BY <2>1 DEF SubmitInv, Scoped, NeverUnscoped
  <2>3. /\ \/ Act("submit", "destroy", "unrecord") /\ UNCHANGED mem /\ host' = gone
           \/ SubmitFails("destroy") /\ host' \in {host, gone}
    BY <1>2 DEF DestroyPassword
  <2> HIDE DEF gone
  <2>4. CASE SubmitFails("destroy") /\ host' \in {host, gone}
    BY <1>0, <1>1, <2>2, <2>4, SubmitFailsKeeps DEF SubmitStage
  <2>5. CASE Act("submit", "destroy", "unrecord") /\ UNCHANGED mem /\ host' = gone
    <3>1. at'[2] = "unrecord" /\ at' = <<"submit", "unrecord">>
      BY <2>5, SubmitMoves DEF Act
    <3>2. SubmitTyped'
      BY <1>1, <2>1, <2>5, <3>1 DEF SubmitTyped, SubmitStage
    <3>3. Scoped'
      BY <1>1, <2>2, <2>5, <3>1 DEF Scoped, NeverUnscoped
    <3>4. Together'
      BY <1>1, <2>5, <3>1 DEF Together
    <3> QED
      BY <3>2, <3>3, <3>4 DEF SubmitInv
  <2> QED
    BY <2>3, <2>4, <2>5
<1>3. CASE RemoveRecord
  <2>1. /\ at[1] = "submit" /\ at[2] = "unrecord" /\ at'[2] = "ended" /\ at' = <<"submit", "ended">>
        /\ mem' = [mem EXCEPT !.verdict = "revoked"] /\ host' = [host EXCEPT !.lines = <<>>]
    BY <1>3, SubmitMoves DEF RemoveRecord, SubmitEnds, Act
  <2>2. mem \in RunMemory
    BY <2>1 DEF SubmitInv, SubmitTyped
  <2>3. mem' \in RunMemory /\ mem'.verdict = "revoked"
    BY <2>1, <2>2 DEF RunMemory, SubmitVerdict
  <2>4. /\ host' \in Submission /\ host'.lines = <<>> /\ host'.script = host.script /\ host'.live = host.live
        /\ host'.stored = host.stored /\ host'.loaded = host.loaded
    <3>1. <<>> \in Seq(Nat)
      OBVIOUS
    <3> DEFINE none == <<>>
    <3>2. host' = [host EXCEPT !.lines = none] /\ none \in Seq(Nat) /\ none = <<>>
      BY <2>1, <3>1
    <3> HIDE DEF none
    <3>3. host' \in Submission /\ host'.lines = none /\ host'.script = host.script /\ host'.live = host.live
      BY <1>0, <3>2 DEF Submission
    <3>4. host'.stored = host.stored /\ host'.loaded = host.loaded
      BY <1>0, <3>2 DEF Submission
    <3> QED
      BY <3>2, <3>3, <3>4
  <2>5. SubmitTyped'
    BY <2>1, <2>3, <2>4 DEF SubmitTyped, SubmitStage
  <2>6. Scoped'
    BY <2>1, <2>4 DEF SubmitInv, Scoped, NeverUnscoped
  <2>7. Together'
    BY <2>1, <2>3, <2>4 DEF Together
  <2> QED
    BY <2>5, <2>6, <2>7 DEF SubmitInv
<1>4. CASE DestroyByHand
  <2>1. at[2] = "idle" /\ UNCHANGED <<at, mem>> /\ host' = gone
    BY <1>4 DEF DestroyByHand, At
  <2> HIDE DEF gone
  <2> QED
    BY <1>1, <2>1 DEF SubmitInv, SubmitTyped, Scoped, NeverUnscoped, Together
<1> QED
  BY <1>2, <1>3, <1>4

LEMMA SubmitOverKeeps == ASSUME SubmitInv, SubmitForget \/ SubmitDies PROVE SubmitInv'
<1>1. at' = <<"submit", "idle">> /\ at'[2] = "idle" /\ at[1] = "submit" /\ UNCHANGED host
  BY SubmitMoves DEF SubmitForget, SubmitDies, Act, Goto, At
<1> QED
  BY <1>1 DEF SubmitInv, SubmitTyped, SubmitStage, Scoped, NeverUnscoped, Together

---------------------------------------------------------------------------
LEMMA SubmissionIsInductive ==
  /\ SubmissionInit => SubmitInv
  /\ SubmitInv /\ [SubmitNext]_programVars => SubmitInv'
<1>1. SubmissionInit => SubmitInv
  <2> SUFFICES ASSUME SubmissionInit PROVE SubmitInv
    OBVIOUS
  <2>1. PICK account \in BOOLEAN, foreign \in BOOLEAN, script \in {"website", "zitadel", "collector"} :
          host = [script |-> script, account |-> account, live |-> None, issued |-> 0, lines |-> <<>>, stored |-> {},
                  loaded |-> {}, foreign |-> foreign]
    BY DEF SubmissionInit
  <2>2. <<>> \in Seq(Nat)
    OBVIOUS
  <2>3. host \in Submission /\ host.live = None /\ host.lines = <<>> /\ host.stored = {} /\ host.loaded = {}
    BY <2>1, <2>2 DEF Submission
  <2> QED
    BY <2>3 DEF SubmissionInit, SubmitInv, SubmitTyped, SubmitStage, Scoped, NeverUnscoped, Together
<1>2. SubmitInv /\ [SubmitNext]_programVars => SubmitInv'
  <2> SUFFICES ASSUME SubmitInv, [SubmitNext]_programVars PROVE SubmitInv'
    OBVIOUS
  <2>1. CASE UNCHANGED programVars
    BY <2>1 DEF programVars, SubmitInv, SubmitTyped, Scoped, NeverUnscoped, Together
  <2>2. CASE SubmitNext
    BY <2>2, SubmitPlanKeeps, SubmitRulesKeep, SubmitAccountKeeps, SubmitPasswordKeeps, SubmitRevokeKeeps, SubmitOverKeeps DEF SubmitNext
  <2> QED
    BY <2>1, <2>2
<1> QED
  BY <1>1, <1>2

\* The collector is never exempt from the exact-address rule without being held to its domains,
\* stored or loaded, whatever failed in between and however often the scripts are run and revoked.
THEOREM ScopeComesFirst == SubmissionSpec => []NeverUnscoped
<1>1. SubmitInv => NeverUnscoped
  BY DEF SubmitInv, Scoped
<1> QED
  BY <1>1, SubmissionIsInductive, PTL DEF SubmissionSpec

\* A provisioning run that says so leaves on record the secret the server takes: a death between
\* the server's answer and the record, or between a revocation and the removal of the record,
\* leaves a half that the next run refuses.
THEOREM ProvisionedOpens == SubmissionSpec => []RecordedIsLive
<1>1. SubmitInv => RecordedIsLive
  BY DEF SubmitInv, SubmitTyped, Together, RecordedIsLive, Recorded
<1> QED
  BY <1>1, SubmissionIsInductive, PTL DEF SubmissionSpec

---------------------------------------------------------------------------
(* The shim's environment. The first line under a label stays the first    *)
(* when another is appended; the environment, and the token a run is about *)
(* to write into it, are such a line.                                      *)

LEMMA LeastLine == ASSUME NEW S \in SUBSET Nat, S # {} PROVE First(S) \in S /\ \A y \in S : First(S) <= y
<1> DEFINE R == {ss \in Nat \X Nat : ss[1] < ss[2]}
<1>1. IsWellFoundedOn(R, Nat)
  BY NatLessThanWellFounded DEF OpToRel
<1> HIDE DEF R
<1>2. PICK x \in S : \A y \in S : ~(<<y, x>> \in R)
  BY <1>1, WFMin
<1>3. ASSUME NEW y \in S PROVE x <= y
  <2>1. x \in Nat /\ y \in Nat /\ <<y, x>> \notin R
    BY <1>2
  <2>2. ~(y < x)
    BY <2>1 DEF R
  <2> QED
    BY <2>1, <2>2
<1> QED
  BY <1>3 DEF First

ShimHost == [lines : Seq(ShimLine), minted : Labels, digest : Labels \cup {None, Odd}, env : {None} \cup (Labels \X (0..Passwords)),
             issued : 0..Passwords]
ShimRun == [token : {None} \cup (0..Passwords), verdict : {None, "refused", "wrote"}]

\* The line that is read under a label is the one with this secret.
ReadsAs(h, label, secret) ==
  secret # 0 /\ Holding(h.lines, label) # {} /\ FirstLine(h.lines, label) = <<label, secret>>

ShimInv ==
  /\ at \in {"shim"} \X {"idle", "read", "write", "ended"} /\ host \in ShimHost
  /\ at[2] # "idle" => mem \in ShimRun
  /\ at[2] = "read" => host.digest # None
  /\ at[2] = "write" => host.digest \in Labels /\ mem.token \in 0..Passwords /\ ReadsAs(host, host.digest, mem.token)
  /\ host.env # None => host.env \in Labels \X (0..Passwords) /\ ReadsAs(host, host.env[1], host.env[2])

LEMMA FirstStays ==
  ASSUME NEW lines \in Seq(ShimLine), NEW line \in ShimLine, NEW label \in Labels
  PROVE  LET more == Append(lines, line)
         IN  /\ more \in Seq(ShimLine)
             /\ Holding(lines, label) # {} => Holding(more, label) # {} /\ FirstLine(more, label) = FirstLine(lines, label)
             /\ Holding(lines, label) = {} /\ line[1] = label => Holding(more, label) # {} /\ FirstLine(more, label) = line
<1> DEFINE n == Len(lines)
           more == Append(lines, line)
           H == Holding(lines, label)
           K == Holding(more, label)
<1>1. n \in Nat /\ DOMAIN lines = 1..n /\ more \in Seq(ShimLine) /\ DOMAIN more = 1..n + 1
  OBVIOUS
<1>2. (\A i \in 1..n : more[i] = lines[i]) /\ more[n + 1] = line
  OBVIOUS
<1>3. H = {i \in 1..n : lines[i] = Odd \/ lines[i][1] = label} /\ K = {i \in 1..n + 1 : more[i] = Odd \/ more[i][1] = label}
  BY <1>1 DEF Holding
<1>4. H \in SUBSET Nat /\ K \in SUBSET Nat
  BY <1>1, <1>3
<1>5. FirstLine(lines, label) = lines[First(H)] /\ FirstLine(more, label) = more[First(K)]
  BY DEF FirstLine
<1> HIDE DEF n, more, H, K
<1>6. \A i \in H : i \in K /\ i \in 1..n
  BY <1>1, <1>2, <1>3
<1>7. \A i \in K : i \in H \/ i = n + 1
  BY <1>1, <1>2, <1>3
<1>8. ASSUME H # {} PROVE K # {} /\ more[First(K)] = lines[First(H)]
  <2>1. First(H) \in H /\ \A y \in H : First(H) <= y
    BY <1>4, <1>8, LeastLine
  <2>2. K # {}
    BY <1>6, <1>8
  <2>3. First(K) \in K /\ \A y \in K : First(K) <= y
    BY <1>4, <2>2, LeastLine
  <2>4. First(K) \in H
    <3>1. First(H) \in 1..n /\ First(H) \in K
      BY <1>6, <2>1
    <3>2. First(K) <= First(H) /\ First(K) \in Nat
      BY <1>4, <2>3, <3>1
    <3>3. First(K) # n + 1
      BY <1>1, <3>1, <3>2
    <3> QED
      BY <1>7, <2>3, <3>3
  <2>5. First(K) = First(H)
    <3>1. First(H) <= First(K) /\ First(K) <= First(H)
      BY <1>6, <2>1, <2>3, <2>4
    <3>2. First(H) \in Nat /\ First(K) \in Nat
      BY <1>4, <2>1, <2>3
    <3> QED
      BY <3>1, <3>2
  <2> QED
    BY <1>2, <1>6, <2>1, <2>2, <2>5
<1>9. ASSUME H = {}, line[1] = label PROVE K # {} /\ more[First(K)] = line
  <2>1. n + 1 \in K
    BY <1>1, <1>2, <1>3, <1>9
  <2>2. First(K) \in K
    BY <1>4, <2>1, LeastLine
  <2> QED
    BY <1>2, <1>7, <1>9, <2>1, <2>2
<1> QED
  BY <1>1, <1>5, <1>8, <1>9 DEF more, H, K

LEMMA ReadShimKeeps == ASSUME ShimInv, ReadSecret PROVE ShimInv'
<1> DEFINE d == host.digest
           found == FirstLine(host.lines, d)
           n == host.issued + 1
           more == Append(host.lines, <<d, n>>)
<1>1. at = <<"shim", "read">> /\ host \in ShimHost /\ mem \in ShimRun /\ d \in Labels \cup {Odd} /\ Found = Holding(host.lines, d)
  BY DEF ShimInv, ReadSecret, At, Found, ShimHost
<1>2. host.env # None => host.env \in Labels \X (0..Passwords) /\ ReadsAs(host, host.env[1], host.env[2])
  BY DEF ShimInv
<1>3. CASE ShimEnds("read", "refused") /\ UNCHANGED host
  <2>1. at' = <<"shim", "ended">> /\ mem' \in ShimRun /\ host' = host
    BY <1>1, <1>3 DEF ShimEnds, Act, Goto, ShimRun
  <2> QED
    BY <1>1, <1>2, <2>1 DEF ShimInv
<1>4. CASE /\ d # Odd /\ Found # {} /\ found # Odd /\ found[2] # 0
           /\ Act("shim", "read", "write") /\ mem' = [mem EXCEPT !.token = found[2]] /\ UNCHANGED host
  <2>1. First(Found) \in DOMAIN host.lines /\ First(Found) \in Found
    <3>1. host.lines \in Seq(ShimLine)
      BY <1>1 DEF ShimHost
    <3>2. Found \in SUBSET Nat /\ Found \subseteq DOMAIN host.lines
      BY <1>1, <3>1 DEF Holding
    <3> QED
      BY <1>4, <3>2, LeastLine
  <2>2. found \in ShimLine
    <3>1. host.lines \in Seq(ShimLine)
      BY <1>1 DEF ShimHost
    <3> QED
      BY <1>1, <2>1, <3>1 DEF FirstLine
  <2>3. found[1] = d /\ found \in Labels \X (0..Passwords)
    <3>1. found = Odd \/ found[1] = d
      BY <1>1, <2>1 DEF Holding, FirstLine
    <3> QED
      BY <1>4, <2>2, <3>1 DEF ShimLine
  <2>4. found = <<d, found[2]>> /\ found[2] \in 0..Passwords
    BY <2>3
  <2> HIDE DEF found
  <2>5. mem' \in ShimRun /\ mem'.token = found[2] /\ at' = <<"shim", "write">> /\ host' = host
    BY <1>1, <1>4, <2>4 DEF ShimRun, Act, Goto
  <2>6. ReadsAs(host, d, found[2])
    BY <1>1, <1>4, <2>4 DEF ReadsAs, found
  <2>7. d \in Labels
    BY <1>1, <1>4
  <2> QED
    BY <1>1, <1>2, <2>4, <2>5, <2>6, <2>7 DEF ShimInv
<1>5. CASE /\ d # Odd /\ Found = {} /\ host.issued < Passwords
           /\ Act("shim", "read", "write") /\ mem' = [mem EXCEPT !.token = n]
           /\ host' = [host EXCEPT !.issued = n, !.lines = more]
  <2>1. d \in Labels /\ n \in 0..Passwords /\ n # 0
    <3>1. host.issued \in 0..Passwords
      BY <1>1 DEF ShimHost
    <3> QED
      BY <1>1, <1>5, <3>1, PasswordsAssumption
  <2>2. host.lines \in Seq(ShimLine) /\ <<d, n>> \in ShimLine
    BY <1>1, <2>1 DEF ShimHost, ShimLine
  <2>3. /\ more \in Seq(ShimLine)
        /\ \A label \in Labels : Holding(host.lines, label) # {} =>
             Holding(more, label) # {} /\ FirstLine(more, label) = FirstLine(host.lines, label)
        /\ Holding(more, d) # {} /\ FirstLine(more, d) = <<d, n>>
    <3> DEFINE lines == host.lines
               line == <<d, n>>
    <3>1. lines \in Seq(ShimLine) /\ line \in ShimLine /\ line[1] = d /\ d \in Labels /\ Holding(lines, d) = {}
      BY <1>1, <1>5, <2>1, <2>2
    <3> HIDE DEF lines, line
    <3>2. \A label \in Labels :
            /\ Append(lines, line) \in Seq(ShimLine)
            /\ Holding(lines, label) # {} =>
                 Holding(Append(lines, line), label) # {} /\ FirstLine(Append(lines, line), label) = FirstLine(lines, label)
            /\ Holding(lines, label) = {} /\ line[1] = label =>
                 Holding(Append(lines, line), label) # {} /\ FirstLine(Append(lines, line), label) = line
      BY <3>1, FirstStays
    <3>3. more = Append(lines, line)
      BY DEF lines, line
    <3> HIDE DEF more
    <3> QED
      BY <3>1, <3>2, <3>3 DEF lines, line
  <2> HIDE DEF more, n
  <2>4. host' \in ShimHost /\ host'.lines = more /\ host'.digest = d /\ host'.env = host.env
    BY <1>1, <1>5, <2>1, <2>3 DEF ShimHost
  <2>5. mem' \in ShimRun /\ mem'.token = n /\ at' = <<"shim", "write">>
    BY <1>1, <1>5, <2>1 DEF ShimRun, Act, Goto
  <2>6. ReadsAs(host', d, n)
    BY <2>1, <2>3, <2>4 DEF ReadsAs
  <2>7. host'.env # None => host'.env \in Labels \X (0..Passwords) /\ ReadsAs(host', host'.env[1], host'.env[2])
    BY <1>2, <2>3, <2>4 DEF ReadsAs
  <2> QED
    BY <2>1, <2>4, <2>5, <2>6, <2>7 DEF ShimInv
<1> QED
  BY <1>1, <1>3, <1>4, <1>5 DEF ReadSecret, ShimHost

LEMMA ShimKeeps ==
  ASSUME ShimInv, PinImage \/ WriteEnv \/ ShimForget \/ ShimDies \/ UNCHANGED programVars
  PROVE  ShimInv'
<1>1. /\ host \in ShimHost /\ at \in {"shim"} \X {"idle", "read", "write", "ended"}
      /\ host.env # None => host.env \in Labels \X (0..Passwords) /\ ReadsAs(host, host.env[1], host.env[2])
  BY DEF ShimInv
<1>2. CASE UNCHANGED programVars
  BY <1>2 DEF ShimInv, programVars
<1>3. CASE ShimForget \/ ShimDies
  <2>1. at' = <<"shim", "idle">> /\ host' = host
    BY <1>3 DEF ShimForget, ShimDies, Act, Goto
  <2> QED
    BY <1>1, <2>1 DEF ShimInv
<1>4. CASE PinImage
  <2>1. PICK l \in Labels \cup {Odd} : host' = [host EXCEPT !.digest = l]
    BY <1>4 DEF PinImage
  <2>2. host' \in ShimHost /\ host'.digest = l /\ host'.env = host.env /\ host'.lines = host.lines
    BY <1>1, <2>1 DEF ShimHost
  <2>3. at' = <<"shim", "read">> /\ mem' \in ShimRun
    BY <1>4 DEF PinImage, Act, Goto, ShimRun
  <2>4. l # None
    BY ValueAssumption, PasswordsAssumption
  <2>5. host'.env # None => host'.env \in Labels \X (0..Passwords) /\ ReadsAs(host', host'.env[1], host'.env[2])
    BY <1>1, <2>2 DEF ReadsAs
  <2> QED
    BY <2>2, <2>3, <2>4, <2>5 DEF ShimInv
<1>5. CASE WriteEnv
  <2> DEFINE e == <<host.digest, mem.token>>
  <2>1. at = <<"shim", "write">> /\ at' = <<"shim", "ended">> /\ host' = [host EXCEPT !.env = e] /\ mem' = [mem EXCEPT !.verdict = "wrote"]
    BY <1>5 DEF WriteEnv, ShimEnds, Act, At, Goto
  <2>2. host.digest \in Labels /\ mem.token \in 0..Passwords /\ ReadsAs(host, host.digest, mem.token) /\ mem \in ShimRun
    BY <2>1 DEF ShimInv
  <2>3. e \in Labels \X (0..Passwords) /\ ReadsAs(host, e[1], e[2])
    BY <2>2
  <2> HIDE DEF e
  <2>4. host' \in ShimHost /\ host'.env = e /\ host'.lines = host.lines
    BY <1>1, <2>1, <2>3 DEF ShimHost
  <2>5. mem' \in ShimRun
    BY <2>1, <2>2 DEF ShimRun
  <2>6. ReadsAs(host', host'.env[1], host'.env[2])
    BY <2>3, <2>4 DEF ReadsAs
  <2> QED
    BY <2>1, <2>3, <2>4, <2>5, <2>6 DEF ShimInv
<1> QED
  BY <1>2, <1>3, <1>4, <1>5

LEMMA ShimIsInductive ==
  (ShimInit => ShimInv) /\ (ShimInv /\ [ShimNext]_programVars => ShimInv')
<1>1. ASSUME ShimInit PROVE ShimInv
  <2>1. PICK lines \in {<<>>} \cup {<<l>> : l \in ShimLine}, minted \in Labels :
          host = [lines |-> lines, minted |-> minted, digest |-> None, env |-> None, issued |-> Passwords - 1]
    BY <1>1 DEF ShimInit
  <2>2. lines \in Seq(ShimLine)
    <3>1. CASE lines = <<>>
      BY <3>1
    <3>2. CASE \E l \in ShimLine : lines = <<l>>
      BY <3>2
    <3> QED
      BY <3>1, <3>2
  <2>3. Passwords - 1 \in 0..Passwords
    BY PasswordsAssumption
  <2>4. host \in ShimHost /\ host.env = None /\ at = <<"shim", "idle">>
    BY <1>1, <2>1, <2>2, <2>3 DEF ShimHost, ShimInit
  <2> QED
    BY <2>4 DEF ShimInv
<1> QED
  BY <1>1, ReadShimKeeps, ShimKeeps DEF ShimNext

---------------------------------------------------------------------------
(* The session that checks the sender's scope. *)

Answered == {"ok", "deferred", "refused"}
ScopeInv ==
  /\ at \in {"scope"} \X {"accept", "deliver", "refuse", "ended"} /\ host \in [rules : SUBSET Rules]
  /\ mem \in [accept : Answered, rest : Answered, refuse : Answered]
  /\ mem.accept = "ok" => "exempt" \in host.rules
  /\ mem.refuse = "refused" => ~Taken("main")

LEMMA ScopeIsInductive ==
  (ScopeInit => ScopeInv) /\ (ScopeInv /\ [ScopeNext]_programVars => ScopeInv')
<1>1. ScopeInit => ScopeInv
  BY DEF ScopeInit, ScopeInv, Answered
<1>2. ASSUME ScopeInv, OfferInScope PROVE ScopeInv'
  <2>1. PICK a \in Reply("collector") : mem' = [mem EXCEPT !.accept = a]
    BY <1>2 DEF OfferInScope
  <2>2. a \in Answered /\ (a = "ok" => "exempt" \in host.rules)
    BY DEF Reply, Taken, Answered
  <2>3. at' = <<"scope", "deliver">> /\ host' = host
    BY <1>2 DEF OfferInScope, Act, Goto
  <2> QED
    BY <1>2, <2>1, <2>2, <2>3 DEF ScopeInv, Taken
<1>3. ASSUME ScopeInv, DeliverInScope PROVE ScopeInv'
  <2>1. PICK a \in Answers : mem' = [mem EXCEPT !.rest = IF mem.accept = "ok" THEN a ELSE @]
    BY <1>3 DEF DeliverInScope
  <2>2. at' = <<"scope", "refuse">> /\ host' = host
    BY <1>3 DEF DeliverInScope, Act, Goto
  <2> QED
    BY <1>3, <2>1, <2>2 DEF ScopeInv, Taken, Answers, Answered
<1>4. ASSUME ScopeInv, OfferMainDomain PROVE ScopeInv'
  <2>1. PICK a \in Reply("main") : mem' = [mem EXCEPT !.refuse = a]
    BY <1>4 DEF OfferMainDomain
  <2>2. a \in Answered /\ (a = "refused" => ~Taken("main"))
    BY DEF Reply, Answered
  <2>3. at' = <<"scope", "ended">> /\ host' = host
    BY <1>4 DEF OfferMainDomain, Act, Goto
  <2> QED
    BY <1>4, <2>1, <2>2, <2>3 DEF ScopeInv, Taken
<1>5. ScopeInv /\ UNCHANGED programVars => ScopeInv'
  BY DEF ScopeInv, Taken, programVars
<1> QED
  BY <1>1, <1>2, <1>3, <1>4, <1>5 DEF ScopeNext

---------------------------------------------------------------------------
(* The administrator. Where a run stands says which of the server's secret *)
(* and the file's may differ: after the wizard's answer until it is saved, *)
(* and in a rotation until it is verified. A run that follows one that     *)
(* settled everything finds everything set.                                *)

AdminStep == {"idle", "wizard", "probe", "save", "restart", "settings", "ended", "rotate", "verify"}
AdminRun == [secret : 0..Secrets, next : Nat, changed : BOOLEAN, settled : BOOLEAN,
             verdict : {None, "failed", "settled", "rotated"}]
Setting == {Settings[i] : i \in DOMAIN Settings}
AllSet(h) == \A s \in Setting : h.stored[s] = "set"

\* The file and the server's secret, at each step.
Secret(step, m, h) ==
  /\ step \notin {"idle", "verify"} /\ ~h.wizard /\ ~h.lost => h.file = h.secret
  /\ step = "save" => m.secret = h.secret /\ h.secret # 0
  /\ step = "restart" => h.file = h.secret /\ h.secret # 0
  /\ step \in {"settings", "rotate"} => h.file = h.secret
  /\ step \in {"rotate", "verify"} => ~h.wizard /\ m.secret # 0
  /\ step = "verify" => h.secret \in {h.file, m.secret}

\* The settings a run has gone through are set; one that follows a settled one changes nothing.
Settling(step, m, h) ==
  /\ m.settled => ~m.changed /\ AllSet(h)
  /\ step = "settings" => /\ m.next >= 1 /\ m.next <= Len(Settings) + 1
                          /\ \A i \in 1..m.next - 1 : h.stored[Settings[i]] = "set"
  /\ step \in {"wizard", "probe", "save", "restart"} => m.next = 1
  /\ step = "ended" /\ m.verdict = "settled" => AllSet(h)
  /\ step # "ended" => m.verdict = None

AdminInv ==
  /\ at \in {"mail"} \X AdminStep /\ host \in MailServer
  /\ at[2] = "idle" => mem = None /\ (~host.wizard /\ ~host.lost => host.file = host.secret)
  /\ at[2] # "idle" => mem \in AdminRun /\ Secret(at[2], mem, host) /\ Settling(at[2], mem, host)

LEMMA AdminMoves ==
  ASSUME NEW to \in AdminStep \ {"idle"}, at' = <<"mail", to>>, host' \in MailServer, mem' \in AdminRun,
         Secret(to, mem', host'), Settling(to, mem', host')
  PROVE  AdminInv'
  BY DEF AdminInv, AdminStep

LEMMA AdminRests ==
  ASSUME at' = <<"mail", "idle">>, mem' = None, host' \in MailServer, ~host'.wizard /\ ~host'.lost => host'.file = host'.secret
  PROVE  AdminInv'
  BY DEF AdminInv, AdminStep

LEMMA AdminIs ==
  ASSUME AdminInv, NEW step \in AdminStep \ {"idle"}, at = <<"mail", step>>
  PROVE  host \in MailServer /\ mem \in AdminRun /\ Secret(step, mem, host) /\ Settling(step, mem, host)
  BY DEF AdminInv, AdminStep

LEMMA SettingsAre == DOMAIN Settings = 1..Len(Settings) /\ Len(Settings) \in Nat /\ \A s \in Setting : \E i \in 1..Len(Settings) : s = Settings[i]
<1>1. DOMAIN Settings = 1..Len(Settings) /\ Len(Settings) \in Nat
  BY SettingsAssumption
<1> QED
  BY <1>1 DEF Setting

\* A call that fails ends the run; what may have become of the server is for the caller to say.
LEMMA AdminFails ==
  ASSUME AdminInv, NEW from \in AdminStep \ {"idle"}, MailCallFails(from), host' \in MailServer,
         ~host'.wizard /\ ~host'.lost => host'.file = host'.secret,
         mem.settled => AllSet(host')
  PROVE  AdminInv'
<1>1. at = <<"mail", from>> /\ at' = <<"mail", "ended">> /\ mem' = [mem EXCEPT !.verdict = "failed"]
  BY DEF MailCallFails, At, Goto
<1>2. mem \in AdminRun /\ Settling(from, mem, host)
  BY <1>1, AdminIs
<1>3. mem' \in AdminRun /\ mem'.settled = mem.settled /\ mem'.changed = mem.changed /\ mem'.verdict = "failed"
  BY <1>1, <1>2 DEF AdminRun
<1>4. Secret("ended", mem', host')
  BY DEF Secret
<1>5. Settling("ended", mem', host')
  BY <1>2, <1>3 DEF Settling
<1> QED
  BY <1>1, <1>3, <1>4, <1>5, AdminMoves DEF AdminStep

\* A run that ends with the host as it was.
LEMMA AdminEnds ==
  ASSUME AdminInv, NEW from \in AdminStep \ {"idle", "verify"}, NEW v \in {"failed", "settled"}, MailEnds(from, v),
         host' = host, v = "settled" => AllSet(host)
  PROVE  AdminInv'
<1>1. at = <<"mail", from>> /\ at' = <<"mail", "ended">> /\ mem' = [mem EXCEPT !.verdict = v]
  BY DEF MailEnds, Act, At, Goto
<1>2. host \in MailServer /\ mem \in AdminRun /\ Secret(from, mem, host) /\ Settling(from, mem, host)
  BY <1>1, AdminIs
<1>3. mem' \in AdminRun /\ mem'.settled = mem.settled /\ mem'.changed = mem.changed /\ mem'.verdict = v
  BY <1>1, <1>2 DEF AdminRun
<1>4. Secret("ended", mem', host')
  BY <1>2 DEF Secret
<1>5. Settling("ended", mem', host')
  BY <1>2, <1>3 DEF Settling
<1> QED
  BY <1>1, <1>2, <1>3, <1>4, <1>5, AdminMoves DEF AdminStep

LEMMA LoadsIs ==
  ASSUME NEW h \in MailServer
  PROVE  /\ Loads(h) \in MailServer /\ Loads(h).secret = h.secret /\ Loads(h).file = h.file /\ Loads(h).lost = h.lost
         /\ Loads(h).stored = h.stored /\ (Loads(h).wizard <=> h.wizard /\ h.secret = 0)
  BY DEF Loads, MailServer

LEMMA StartsKeep == ASSUME AdminInv, StartConfigure \/ StartRotation \/ ProbeWizard \/ RunAgain \/ MailForget PROVE AdminInv'
<1>1. host' = host /\ host \in MailServer
  BY DEF AdminInv, StartConfigure, StartRotation, ProbeWizard, RunAgain, MailForget
<1>2. CASE StartConfigure
  <2> DEFINE to == IF host.file = None THEN "wizard" ELSE "probe"
  <2>1. /\ at = <<"mail", "idle">> /\ at' = <<"mail", to>> /\ to \in {"wizard", "probe"}
        /\ mem' = [secret |-> 0, next |-> 1, changed |-> FALSE, verdict |-> None, settled |-> FALSE]
    BY <1>2 DEF StartConfigure, Act, At, Goto
  <2> HIDE DEF to
  <2>2. mem' \in AdminRun /\ ~mem'.settled /\ mem'.next = 1 /\ mem'.verdict = None
    BY <2>1, SettingsAssumption DEF AdminRun
  <2>3. ~host.wizard /\ ~host.lost => host.file = host.secret
    BY <2>1 DEF AdminInv
  <2>4. Secret(to, mem', host') /\ Settling(to, mem', host')
    BY <1>1, <2>1, <2>2, <2>3 DEF Secret, Settling
  <2> QED
    BY <1>1, <2>1, <2>2, <2>4, AdminMoves DEF AdminStep
<1>3. CASE StartRotation
  <2> DEFINE opens == ~host.wizard /\ host.file = host.secret
             to == IF opens THEN "rotate" ELSE "ended"
             v == IF opens THEN None ELSE "failed"
             n == Issue
  <2>1. /\ at = <<"mail", "idle">> /\ at' = <<"mail", to>> /\ host.file # None
        /\ mem' = [secret |-> n, next |-> 0, changed |-> FALSE, settled |-> FALSE, verdict |-> v]
    BY <1>3 DEF StartRotation, Act, At, Goto
  <2>2. n \in 0..Secrets /\ (opens => n # 0)
    <3>1. host.secret \in 0..Secrets /\ host.file \in {None} \cup 1..Secrets
      BY <1>1 DEF MailServer
    <3> QED
      BY <2>1, <3>1, SettingsAssumption DEF Issue
  <2>3. (opens => to = "rotate" /\ v = None) /\ (~opens => to = "ended" /\ v = "failed")
    OBVIOUS
  <2> HIDE DEF n, to, v
  <2>4. mem' \in AdminRun /\ ~mem'.settled /\ mem'.secret = n /\ mem'.verdict = v
    BY <2>1, <2>2, <2>3 DEF AdminRun
  <2>5. ~host.wizard /\ ~host.lost => host.file = host.secret
    BY <2>1 DEF AdminInv
  <2>6. Secret(to, mem', host') /\ Settling(to, mem', host')
    BY <1>1, <2>2, <2>3, <2>4, <2>5 DEF Secret, Settling
  <2> QED
    BY <1>1, <2>1, <2>3, <2>4, <2>6, AdminMoves DEF AdminStep
<1>4. CASE ProbeWizard
  <2>1. at = <<"mail", "probe">>
    BY <1>4 DEF ProbeWizard, At
  <2>2. mem \in AdminRun /\ Secret("probe", mem, host) /\ Settling("probe", mem, host)
    BY <2>1, AdminIs DEF AdminStep
  <2>3. CASE host.wizard /\ MailGoes("probe", "wizard")
    <3>1. at' = <<"mail", "wizard">> /\ mem' = mem
      BY <2>3 DEF MailGoes, Act, Goto
    <3>2. Secret("wizard", mem', host') /\ Settling("wizard", mem', host')
      BY <1>1, <2>2, <3>1 DEF Secret, Settling
    <3> QED
      BY <1>1, <2>2, <3>1, <3>2, AdminMoves DEF AdminStep
  <2>4. CASE MailEnds("probe", "failed")
    BY <1>1, <2>4, AdminEnds DEF AdminStep
  <2>5. CASE host.file = host.secret /\ MailGoes("probe", "settings")
    <3>1. at' = <<"mail", "settings">> /\ mem' = mem
      BY <2>5 DEF MailGoes, Act, Goto
    <3>2. Secret("settings", mem', host') /\ Settling("settings", mem', host')
      BY <1>1, <2>2, <2>5, <3>1, SettingsAre DEF Secret, Settling
    <3> QED
      BY <1>1, <2>2, <3>1, <3>2, AdminMoves DEF AdminStep
  <2> QED
    BY <1>4, <2>3, <2>4, <2>5 DEF ProbeWizard
<1>5. CASE RunAgain
  <2>1. /\ at = <<"mail", "ended">> /\ at' = <<"mail", "probe">> /\ mem.verdict = "settled"
        /\ mem' = [mem EXCEPT !.verdict = None, !.next = 1, !.changed = FALSE, !.settled = TRUE]
    BY <1>5 DEF RunAgain, Act, At, Goto
  <2>2. mem \in AdminRun /\ Secret("ended", mem, host) /\ Settling("ended", mem, host)
    BY <2>1, AdminIs DEF AdminStep
  <2>3. mem' \in AdminRun /\ mem'.verdict = None /\ mem'.next = 1 /\ ~mem'.changed
    BY <2>1, <2>2 DEF AdminRun
  <2>4. Secret("probe", mem', host') /\ Settling("probe", mem', host')
    BY <1>1, <2>1, <2>2, <2>3 DEF Secret, Settling
  <2> QED
    BY <1>1, <2>1, <2>3, <2>4, AdminMoves DEF AdminStep
<1>6. CASE MailForget
  <2>1. at = <<"mail", "ended">> /\ at' = <<"mail", "idle">> /\ mem' = None
    BY <1>6 DEF MailForget, Act, At, Goto
  <2>2. ~host.wizard /\ ~host.lost => host.file = host.secret
    BY <2>1, AdminIs DEF AdminStep, Secret
  <2> QED
    BY <1>1, <2>1, <2>2, AdminRests
<1> QED
  BY <1>2, <1>3, <1>4, <1>5, <1>6

LEMMA WizardKeeps == ASSUME AdminInv, CompleteWizard \/ SaveCredential \/ RestartFromWizard PROVE AdminInv'
<1>1. CASE CompleteWizard
  <2>1. at = <<"mail", "wizard">>
    BY <1>1 DEF CompleteWizard, At
  <2>2. host \in MailServer /\ mem \in AdminRun /\ Secret("wizard", mem, host) /\ Settling("wizard", mem, host)
    BY <2>1, AdminIs DEF AdminStep
  <2>3. CASE MailEnds("wizard", "failed") /\ host' = host
    BY <2>3, AdminEnds DEF AdminStep
  <2>4. CASE /\ host.wizard /\ host.secret < Secrets /\ host' = [host EXCEPT !.secret = Issue]
             /\ \/ Act("mail", "wizard", "save") /\ mem' = [mem EXCEPT !.secret = Issue]
                \/ MailCallFails("wizard")
    <3> DEFINE n == Issue
    <3>1. n \in 0..Secrets /\ n # 0
      <4>1. host.secret \in 0..Secrets
        BY <2>2 DEF MailServer
      <4> QED
        BY <2>4, <4>1, SettingsAssumption DEF Issue
    <3>2. host' = [host EXCEPT !.secret = n] /\ host.wizard
      BY <2>4
    <3>3. mem' = [mem EXCEPT !.secret = n] \/ MailCallFails("wizard")
      BY <2>4
    <3> HIDE DEF n
    <3>4. host' \in MailServer /\ host'.secret = n /\ host'.wizard /\ host'.stored = host.stored
      BY <2>2, <3>1, <3>2 DEF MailServer
    <3>5. AllSet(host) => AllSet(host')
      BY <3>4 DEF AllSet
    <3>6. CASE MailCallFails("wizard")
      BY <2>2, <3>4, <3>5, <3>6, AdminFails DEF AdminStep, Settling
    <3>7. CASE Act("mail", "wizard", "save") /\ mem' = [mem EXCEPT !.secret = n]
      <4>1. mem' \in AdminRun /\ mem'.secret = n /\ mem'.settled = mem.settled /\ mem'.changed = mem.changed
            /\ mem'.next = mem.next /\ mem'.verdict = mem.verdict
        BY <2>2, <3>1, <3>7 DEF AdminRun
      <4>2. Secret("save", mem', host') /\ Settling("save", mem', host')
        BY <2>2, <3>1, <3>4, <3>5, <4>1 DEF Secret, Settling
      <4>3. at' = <<"mail", "save">>
        BY <3>7 DEF Act, Goto
      <4> QED
        BY <3>4, <4>1, <4>2, <4>3, AdminMoves DEF AdminStep
    <3> QED
      BY <2>4, <3>6, <3>7 DEF n
  <2> QED
    BY <1>1, <2>3, <2>4 DEF CompleteWizard
<1>2. CASE SaveCredential
  <2>1. at = <<"mail", "save">> /\ at' = <<"mail", "restart">> /\ mem' = mem /\ host' = [host EXCEPT !.file = mem.secret]
    BY <1>2 DEF SaveCredential, MailGoes, Act, At, Goto
  <2>2. host \in MailServer /\ mem \in AdminRun /\ Secret("save", mem, host) /\ Settling("save", mem, host)
    BY <2>1, AdminIs DEF AdminStep
  <2>3. mem.secret = host.secret /\ mem.secret \in 1..Secrets
    <3>1. mem.secret = host.secret /\ host.secret # 0
      BY <2>2 DEF Secret
    <3>2. host.secret \in 0..Secrets
      BY <2>2 DEF MailServer
    <3> QED
      BY <3>1, <3>2, SettingsAssumption
  <2>4. host' \in MailServer /\ host'.file = mem.secret /\ host'.secret = host.secret /\ host'.stored = host.stored
    BY <2>1, <2>2, <2>3 DEF MailServer
  <2>5. host'.secret # 0
    BY <2>2, <2>4 DEF Secret
  <2>6. Secret("restart", mem', host') /\ Settling("restart", mem', host')
    BY <2>1, <2>2, <2>3, <2>4, <2>5 DEF Secret, Settling, AllSet
  <2> QED
    BY <2>1, <2>2, <2>4, <2>6, AdminMoves DEF AdminStep
<1>3. CASE RestartFromWizard
  <2>1. at = <<"mail", "restart">>
    BY <1>3 DEF RestartFromWizard, At
  <2>2. host \in MailServer /\ mem \in AdminRun /\ Secret("restart", mem, host) /\ Settling("restart", mem, host)
    BY <2>1, AdminIs DEF AdminStep
  <2>3. host.file = host.secret /\ host.secret # 0 /\ mem.next = 1 /\ mem.verdict = None
    BY <2>2 DEF Secret, Settling
  <2>4. host' \in {host, Loads(host)}
    BY <1>3 DEF RestartFromWizard
  <2>5. host' \in MailServer /\ host'.file = host.file /\ host'.secret = host.secret /\ host'.stored = host.stored
    BY <2>2, <2>4, LoadsIs
  <2>6. AllSet(host) => AllSet(host')
    BY <2>5 DEF AllSet
  <2>7. CASE MailCallFails("restart")
    BY <2>2, <2>3, <2>5, <2>6, <2>7, AdminFails DEF AdminStep, Settling
  <2>8. CASE MailGoes("restart", "settings")
    <3>1. at' = <<"mail", "settings">> /\ mem' = mem
      BY <2>8 DEF MailGoes, Act, Goto
    <3>2. Secret("settings", mem', host')
      BY <2>3, <2>5 DEF Secret
    <3>3. Settling("settings", mem', host')
      BY <2>2, <2>3, <2>6, <3>1, SettingsAre DEF Settling
    <3> QED
      BY <2>2, <2>5, <3>1, <3>2, <3>3, AdminMoves DEF AdminStep
  <2> QED
    BY <1>3, <2>7, <2>8 DEF RestartFromWizard
<1> QED
  BY <1>1, <1>2, <1>3

\* A setting is set, in an order that no other one's value depends on.
LEMMA SettingIsSet ==
  ASSUME host \in MailServer, NEW s \in Setting
  PROVE  LET h == [host EXCEPT !.stored[s] = "set"]
         IN  /\ h \in MailServer /\ h.wizard = host.wizard /\ h.file = host.file /\ h.secret = host.secret /\ h.lost = host.lost
             /\ \A t \in Setting : h.stored[t] = IF t = s THEN "set" ELSE host.stored[t]
<1> DEFINE stored == [host.stored EXCEPT ![s] = "set"]
           h == [host EXCEPT !.stored = stored]
<1>1. host.stored \in [Setting -> {"drift", "set"}]
  BY DEF MailServer, Setting
<1>2. stored \in [Setting -> {"drift", "set"}] /\ \A t \in Setting : stored[t] = IF t = s THEN "set" ELSE host.stored[t]
  BY <1>1
<1>3. h = [host EXCEPT !.stored[s] = "set"]
  BY <1>1 DEF MailServer
<1> HIDE DEF stored
<1>4. /\ h \in MailServer /\ h.wizard = host.wizard /\ h.file = host.file /\ h.secret = host.secret /\ h.lost = host.lost
      /\ h.stored = stored
  BY <1>2 DEF MailServer, Setting
<1> HIDE DEF h
<1> QED
  BY <1>2, <1>3, <1>4

LEMMA SettingsKeep == ASSUME AdminInv, ReconcileSetting \/ RestartIfChanged PROVE AdminInv'
<1>1. at = <<"mail", "settings">>
  BY DEF ReconcileSetting, RestartIfChanged, At
<1>2. host \in MailServer /\ mem \in AdminRun /\ Secret("settings", mem, host) /\ Settling("settings", mem, host)
  BY <1>1, AdminIs DEF AdminStep
<1>3. /\ host.file = host.secret /\ mem.next >= 1 /\ mem.next <= Len(Settings) + 1 /\ mem.next \in Nat /\ mem.verdict = None
      /\ \A i \in 1..mem.next - 1 : host.stored[Settings[i]] = "set"
  BY <1>2 DEF Secret, Settling, AdminRun
<1>4. CASE ReconcileSetting
  <2> DEFINE s == Settings[mem.next]
             set == [host EXCEPT !.stored[s] = "set"]
  <2>1. mem.next \in 1..Len(Settings) /\ s \in Setting
    BY <1>4, SettingsAre DEF ReconcileSetting, Setting
  <2>2. /\ set \in MailServer /\ set.wizard = host.wizard /\ set.file = host.file /\ set.secret = host.secret /\ set.lost = host.lost
        /\ \A t \in Setting : set.stored[t] = IF t = s THEN "set" ELSE host.stored[t]
    BY <1>2, <2>1, SettingIsSet
  <2>3. CASE Reconciled(s)
    <3>1. host.stored[s] = "set"
      <4>1. host.stored[s] \in {"drift", "set"}
        BY <1>2, <2>1 DEF MailServer, Setting
      <4> QED
        BY <2>3, <4>1 DEF Reconciled, ReadBack
    <3>2. at' = <<"mail", "settings">> /\ mem' = [mem EXCEPT !.next = @ + 1] /\ host' = host
      BY <1>4, <2>3 DEF ReconcileSetting, Act, Goto
    <3>3. mem' \in AdminRun /\ mem'.next = mem.next + 1 /\ mem'.settled = mem.settled /\ mem'.changed = mem.changed /\ mem'.verdict = None
      BY <1>2, <1>3, <3>2 DEF AdminRun
    <3>4. \A i \in 1..mem'.next - 1 : host.stored[Settings[i]] = "set"
      <4> SUFFICES ASSUME NEW i \in 1..mem.next PROVE host.stored[Settings[i]] = "set"
        BY <1>3, <3>3
      <4>1. i \in 1..mem.next - 1 \/ i = mem.next
        BY <1>3
      <4> QED
        BY <1>3, <3>1, <4>1
    <3>5. mem'.next >= 1 /\ mem'.next <= Len(Settings) + 1
      BY <1>3, <2>1, <3>3, SettingsAre
    <3>6. Settling("settings", mem', host')
      BY <1>2, <3>2, <3>3, <3>4, <3>5 DEF Settling
    <3>7. Secret("settings", mem', host')
      BY <1>3, <3>2 DEF Secret
    <3> QED
      BY <1>2, <3>2, <3>3, <3>6, <3>7, AdminMoves DEF AdminStep
  <2>4. CASE ~Reconciled(s)
    <3>1. ~mem.settled
      <4>1. host.stored[s] # "set"
        BY <2>4 DEF Reconciled, ReadBack
      <4> QED
        BY <1>2, <2>1, <4>1 DEF Settling, AllSet
    <3> HIDE DEF set
    <3>2. CASE MailCallFails("settings") /\ host' \in {host, set}
      <4>1. host' \in MailServer /\ host'.file = host'.secret
        BY <1>2, <1>3, <2>2, <3>2
      <4> QED
        BY <3>1, <3>2, <4>1, AdminFails DEF AdminStep
    <3>3. CASE Act("mail", "settings", "settings") /\ host' = set /\ mem' = [mem EXCEPT !.next = @ + 1, !.changed = TRUE]
      <4> DEFINE n == mem.next + 1
      <4>0. n \in Nat /\ mem' = [mem EXCEPT !.next = n, !.changed = TRUE]
        BY <1>3, <3>3
      <4> HIDE DEF n
      <4>a. mem' \in AdminRun /\ mem'.next = n /\ mem'.settled = mem.settled /\ mem'.verdict = None
        BY <1>2, <1>3, <4>0 DEF AdminRun
      <4>1. mem' \in AdminRun /\ mem'.next = mem.next + 1 /\ mem'.settled = mem.settled /\ mem'.verdict = None
        BY <4>a DEF n
      <4>2. \A i \in 1..mem'.next - 1 : set.stored[Settings[i]] = "set"
        <5> SUFFICES ASSUME NEW i \in 1..mem.next PROVE set.stored[Settings[i]] = "set"
          BY <1>3, <4>1
        <5>1. i \in 1..mem.next - 1 \/ i = mem.next
          BY <1>3
        <5>2. i \in 1..Len(Settings)
          BY <1>3, <2>1, SettingsAre
        <5>3. Settings[i] \in Setting
          BY <5>2, SettingsAre DEF Setting
        <5> QED
          BY <1>3, <2>2, <5>1, <5>3
      <4>3. mem'.next >= 1 /\ mem'.next <= Len(Settings) + 1
        BY <1>3, <2>1, <4>1, SettingsAre
      <4>4. Settling("settings", mem', host')
        BY <3>1, <3>3, <4>1, <4>2, <4>3 DEF Settling
      <4>5. Secret("settings", mem', host')
        BY <1>3, <2>2, <3>3 DEF Secret
      <4>6. at' = <<"mail", "settings">>
        BY <3>3 DEF Act, Goto
      <4> QED
        BY <2>2, <3>3, <4>1, <4>4, <4>5, <4>6, AdminMoves DEF AdminStep
    <3> QED
      BY <1>4, <2>4, <3>2, <3>3 DEF ReconcileSetting, set
  <2> QED
    BY <2>3, <2>4
<1>5. CASE RestartIfChanged
  <2>1. host' \in {host, Loads(host)}
    BY <1>5 DEF RestartIfChanged
  <2>2. host' \in MailServer /\ host'.file = host.file /\ host'.secret = host.secret /\ host'.stored = host.stored
    BY <1>2, <2>1, LoadsIs
  <2>3. mem.next = Len(Settings) + 1
    BY <1>3, <1>5, SettingsAre DEF RestartIfChanged
  <2>4. AllSet(host)
    <3> SUFFICES ASSUME NEW s \in Setting PROVE host.stored[s] = "set"
      BY DEF AllSet
    <3>1. PICK i \in 1..Len(Settings) : s = Settings[i]
      BY SettingsAre
    <3>2. i \in 1..mem.next - 1
      BY <2>3, SettingsAre
    <3> QED
      BY <1>3, <3>1, <3>2
  <2>5. AllSet(host')
    BY <2>2, <2>4 DEF AllSet
  <2>6. CASE MailCallFails("settings")
    BY <1>3, <2>2, <2>5, <2>6, AdminFails DEF AdminStep
  <2>7. CASE MailEnds("settings", "settled")
    <3>1. at' = <<"mail", "ended">> /\ mem' = [mem EXCEPT !.verdict = "settled"]
      BY <2>7 DEF MailEnds, Act, Goto
    <3>2. mem' \in AdminRun /\ mem'.settled = mem.settled /\ mem'.changed = mem.changed /\ mem'.verdict = "settled"
      BY <1>2, <3>1 DEF AdminRun
    <3>3. Secret("ended", mem', host')
      BY <1>3, <2>2 DEF Secret
    <3>4. Settling("ended", mem', host')
      BY <1>2, <2>5, <3>2 DEF Settling
    <3> QED
      BY <2>2, <3>1, <3>2, <3>3, <3>4, AdminMoves DEF AdminStep
  <2> QED
    BY <1>5, <2>6, <2>7 DEF RestartIfChanged
<1> QED
  BY <1>4, <1>5

LEMMA RotationKeeps == ASSUME AdminInv, ChangeSecret \/ VerifyRotation PROVE AdminInv'
<1> DEFINE changed == [host EXCEPT !.secret = mem.secret]
           cut == [host EXCEPT !.secret = mem.secret, !.lost = TRUE]
<1>1. CASE ChangeSecret
  <2>1. at = <<"mail", "rotate">>
    BY <1>1 DEF ChangeSecret, At
  <2>2. host \in MailServer /\ mem \in AdminRun /\ Secret("rotate", mem, host) /\ Settling("rotate", mem, host)
    BY <2>1, AdminIs DEF AdminStep
  <2>3. host.file = host.secret /\ ~host.wizard /\ mem.secret # 0
    BY <2>2 DEF Secret
  <2>4. /\ changed \in MailServer /\ changed.secret = mem.secret /\ changed.file = host.file /\ ~changed.wizard /\ changed.stored = host.stored
        /\ cut \in MailServer /\ cut.lost /\ cut.stored = host.stored
    BY <2>2, <2>3 DEF MailServer, AdminRun
  <2> HIDE DEF changed, cut
  <2>5. CASE MailCallFails("rotate") /\ host' \in {host, cut}
    <3>1. host' \in MailServer /\ host'.stored = host.stored /\ (~host'.lost => host'.file = host'.secret)
      BY <2>2, <2>3, <2>4, <2>5
    <3>2. mem.settled => AllSet(host')
      BY <2>2, <3>1 DEF Settling, AllSet
    <3> QED
      BY <2>5, <3>1, <3>2, AdminFails DEF AdminStep
  <2>6. CASE at' = <<"mail", "verify">> /\ mem' = mem /\ host' \in {host, changed}
    <3>1. host' \in MailServer /\ host'.secret \in {host'.file, mem.secret} /\ host'.stored = host.stored /\ ~host'.wizard
      BY <2>2, <2>3, <2>4, <2>6
    <3>2. Secret("verify", mem', host') /\ Settling("verify", mem', host')
      BY <2>2, <2>3, <2>6, <3>1 DEF Secret, Settling, AllSet
    <3> QED
      BY <2>2, <2>6, <3>1, <3>2, AdminMoves DEF AdminStep
  <2> QED
    BY <1>1, <2>5, <2>6 DEF ChangeSecret, MailGoes, Act, Goto, changed, cut
<1>2. CASE VerifyRotation
  <2> DEFINE saved == [host EXCEPT !.file = mem.secret]
             lost == [host EXCEPT !.lost = @ \/ host.secret = mem.secret]
  <2>1. at = <<"mail", "verify">>
    BY <1>2 DEF VerifyRotation, At
  <2>2. host \in MailServer /\ mem \in AdminRun /\ Secret("verify", mem, host) /\ Settling("verify", mem, host)
    BY <2>1, AdminIs DEF AdminStep
  <2>3. ~host.wizard /\ mem.secret # 0 /\ host.secret \in {host.file, mem.secret}
    BY <2>2 DEF Secret
  <2>4. mem.secret \in 1..Secrets
    <3>1. mem.secret \in 0..Secrets
      BY <2>2 DEF AdminRun
    <3> QED
      BY <2>3, <3>1, SettingsAssumption
  <2>5. /\ saved \in MailServer /\ saved.file = mem.secret /\ saved.secret = host.secret /\ saved.stored = host.stored
        /\ lost \in MailServer /\ lost.stored = host.stored /\ lost.secret = host.secret /\ lost.file = host.file
        /\ host.secret = mem.secret => lost.lost
    BY <2>2, <2>4 DEF MailServer
  <2> HIDE DEF saved, lost
  <2>6. AllSet(host) => AllSet(saved) /\ AllSet(lost)
    BY <2>5 DEF AllSet
  <2>7. CASE MailCallFails("verify") /\ host' = lost
    BY <2>2, <2>3, <2>5, <2>6, <2>7, AdminFails DEF AdminStep, Settling
  <2>8. ASSUME NEW v \in {"rotated", "failed"}, MailEnds("verify", v), host' \in MailServer, host'.file = host'.secret,
               AllSet(host) => AllSet(host')
        PROVE  AdminInv'
    <3>1. at' = <<"mail", "ended">> /\ mem' = [mem EXCEPT !.verdict = v]
      BY <2>8 DEF MailEnds, Act, Goto
    <3>2. mem' \in AdminRun /\ mem'.settled = mem.settled /\ mem'.changed = mem.changed /\ mem'.verdict = v
      BY <2>2, <3>1 DEF AdminRun
    <3>3. Secret("ended", mem', host') /\ Settling("ended", mem', host')
      BY <2>2, <2>8, <3>2 DEF Secret, Settling
    <3> QED
      BY <2>8, <3>1, <3>2, <3>3, AdminMoves DEF AdminStep
  <2>9. CASE host.secret = mem.secret /\ MailEnds("verify", "rotated") /\ host' = saved
    BY <2>5, <2>6, <2>8, <2>9
  <2>10. CASE (host.secret # mem.secret \/ mem.secret = host.file) /\ MailEnds("verify", "failed") /\ host' = host
    <3>1. host.file = host.secret
      BY <2>3, <2>10
    <3> QED
      BY <2>2, <2>8, <2>10, <3>1
  <2> QED
    BY <1>2, <2>7, <2>9, <2>10 DEF VerifyRotation, saved, lost
<1> QED
  BY <1>1, <1>2

LEMMA AdminWorldKeeps == ASSUME AdminInv, MailDies \/ MailDrifts \/ UNCHANGED programVars PROVE AdminInv'
<1>1. host \in MailServer
  BY DEF AdminInv
<1>2. CASE UNCHANGED programVars
  BY <1>2 DEF AdminInv, programVars
<1>3. CASE MailDrifts
  <2>1. at = <<"mail", "idle">> /\ at' = at /\ mem' = mem
    BY <1>3 DEF MailDrifts, At
  <2>2. PICK s \in DOMAIN host.stored : host' = [host EXCEPT !.stored[s] = "drift"]
    BY <1>3 DEF MailDrifts
  <2> DEFINE stored == [host.stored EXCEPT ![s] = "drift"]
  <2>3. stored \in [Setting -> {"drift", "set"}] /\ host' = [host EXCEPT !.stored = stored]
    BY <1>1, <2>2 DEF MailServer, Setting
  <2> HIDE DEF stored
  <2>4. host' \in MailServer /\ host'.wizard = host.wizard /\ host'.lost = host.lost /\ host'.file = host.file /\ host'.secret = host.secret
    BY <1>1, <2>3 DEF MailServer, Setting
  <2>5. mem = None /\ (~host.wizard /\ ~host.lost => host.file = host.secret)
    BY <2>1 DEF AdminInv
  <2> QED
    BY <2>1, <2>4, <2>5, AdminRests
<1>4. CASE MailDies
  <2> DEFINE held == At("mail", "verify") /\ host.secret = mem.secret
             cut == [host EXCEPT !.lost = @ \/ held]
             gone == host.wizard /\ host.secret # 0 /\ host.file # host.secret
             down == [Loads(cut) EXCEPT !.lost = @ \/ gone]
  <2>1. PICK step \in AdminStep \ {"idle"} : at = <<"mail", step>>
    BY <1>4 DEF AdminInv, MailDies
  <2>2. Secret(step, mem, host)
    BY <2>1, AdminIs
  <2>3. cut \in MailServer /\ cut.wizard = host.wizard /\ cut.file = host.file /\ cut.secret = host.secret /\ (cut.lost <=> host.lost \/ held)
    BY <1>1 DEF MailServer
  <2>4. at' = <<"mail", "idle">> /\ mem' = None /\ host' \in {cut, down}
    BY <1>4 DEF MailDies, Goto
  <2>5. ~host.wizard /\ ~host.lost /\ ~held => host.file = host.secret
    <3>1. CASE step = "verify"
      BY <2>1, <2>2, <3>1 DEF Secret, At
    <3>2. CASE step # "verify"
      BY <2>2, <3>2 DEF Secret
    <3> QED
      BY <3>1, <3>2
  <2> HIDE DEF held, cut
  <2>6. /\ Loads(cut) \in MailServer /\ Loads(cut).secret = host.secret /\ Loads(cut).file = host.file /\ Loads(cut).lost = cut.lost
        /\ (Loads(cut).wizard <=> host.wizard /\ host.secret = 0)
    BY <2>3, LoadsIs
  <2> DEFINE l == Loads(cut)
  <2>7. gone \in BOOLEAN
    OBVIOUS
  <2> HIDE DEF l, gone
  <2>8. /\ down \in MailServer /\ down.secret = host.secret /\ down.file = host.file /\ (down.lost <=> cut.lost \/ gone)
        /\ (down.wizard <=> host.wizard /\ host.secret = 0)
    BY <2>6, <2>7 DEF MailServer, l
  <2> HIDE DEF down
  <2>9. ~down.wizard /\ ~down.lost => down.file = down.secret
    BY <2>3, <2>5, <2>8 DEF gone
  <2>10. ~cut.wizard /\ ~cut.lost => cut.file = cut.secret
    BY <2>3, <2>5
  <2> QED
    BY <2>3, <2>4, <2>8, <2>9, <2>10, AdminRests
<1> QED
  BY <1>2, <1>3, <1>4

LEMMA AdminIsInductive ==
  (MailInit => AdminInv) /\ (AdminInv /\ [MailNext]_programVars => AdminInv')
<1>1. ASSUME MailInit PROVE AdminInv
  <2> DEFINE drift == [s \in Setting |-> "drift"]
  <2>1. drift \in [Setting -> {"drift", "set"}]
    OBVIOUS
  <2>2. host = [wizard |-> TRUE, secret |-> 0, file |-> None, lost |-> FALSE, stored |-> drift, loaded |-> drift]
    BY <1>1 DEF MailInit, Setting
  <2> HIDE DEF drift
  <2>3. host \in MailServer /\ host.wizard
    BY <2>1, <2>2, SettingsAssumption DEF MailServer, Setting
  <2> QED
    BY <1>1, <2>3 DEF MailInit, AdminInv, AdminStep
<1>2. AdminInv /\ MailNext => AdminInv'
  BY StartsKeep, WizardKeeps, SettingsKeep, RotationKeeps, AdminWorldKeeps DEF MailNext
<1> QED
  BY <1>1, <1>2, AdminWorldKeeps

UnblockInv == at \in {"unblock"} \X {"list", "ended"} /\ ClearsWhatWasAsked

LEMMA UnblockIsInductive ==
  (UnblockInit => UnblockInv) /\ (UnblockInv /\ [ClearBlocked]_programVars => UnblockInv')
<1>1. UnblockInit => UnblockInv
  BY DEF UnblockInit, UnblockInv, ClearsWhatWasAsked
<1>2. UnblockInv /\ UNCHANGED programVars => UnblockInv'
  BY DEF UnblockInv, ClearsWhatWasAsked, programVars
<1>3. ASSUME ClearBlocked PROVE UnblockInv'
  <2>1. at' = <<"unblock", "ended">> /\ mem' = SelectIds /\ host' = host
    BY <1>3 DEF ClearBlocked, Act, Goto
  <2>2. CASE host.all
    <3>1. SelectIds = IF host.ips \cup host.reasons = {} THEN host.blocked ELSE {}
      BY <2>2 DEF SelectIds
    <3> QED
      BY <2>1, <2>2, <3>1 DEF UnblockInv, ClearsWhatWasAsked
  <2>3. CASE ~host.all /\ host.ips # {e[1] : e \in ByIp}
    <3>1. SelectIds = {}
      BY <2>3 DEF SelectIds
    <3> QED
      BY <2>1, <3>1 DEF UnblockInv, ClearsWhatWasAsked
  <2>4. CASE ~host.all /\ host.ips = {e[1] : e \in ByIp} /\ host.reasons # {} /\ ByReason = {}
    <3>1. SelectIds = {}
      BY <2>4 DEF SelectIds
    <3> QED
      BY <2>1, <3>1 DEF UnblockInv, ClearsWhatWasAsked
  <2>5. CASE ~host.all /\ host.ips = {e[1] : e \in ByIp} /\ ~(host.reasons # {} /\ ByReason = {})
    <3>1. SelectIds = ByIp \cup ByReason
      BY <2>5 DEF SelectIds
    <3>2. mem' = {e \in host.blocked : e[1] \in host.ips \/ e[2] \in host.reasons}
      BY <2>1, <3>1 DEF ByIp, ByReason
    <3>3. \A a \in host.ips : \E e \in mem' : e[1] = a
      BY <2>1, <2>5, <3>1
    <3>4. host.reasons # {} => \E e \in mem' : e[2] \in host.reasons
      BY <2>1, <2>5, <3>1 DEF ByReason
    <3> QED
      BY <2>1, <2>5, <3>2, <3>3, <3>4 DEF UnblockInv, ClearsWhatWasAsked
  <2> QED
    BY <2>2, <2>3, <2>4, <2>5
<1> QED
  BY <1>1, <1>2, <1>3

---------------------------------------------------------------------------
(* The mailboxes. What a run read of the mailboxes before it still holds   *)
(* of those it has not come to: what it knows to be missing is missing,    *)
(* and a secret it knows to be on disk is the one on disk.                 *)

BoxHost == [accounts : [Boxes -> {None, Odd} \cup Nat], recorded : [Boxes -> {None} \cup Nat], used : Nat,
            script : [Boxes -> Script]]
BoxRun == [next : Nat \ {0}, secret : {None} \cup Nat, missing : SUBSET Boxes, recorded : [Boxes -> {None} \cup Nat]]

\* The mailboxes from one on are as the run read them; the others are there.
Ahead(m, h, from) == \A i \in DOMAIN Mailboxes :
  i >= from => /\ h.recorded[Mailboxes[i]] = m.recorded[Mailboxes[i]]
               /\ Mailboxes[i] \in m.missing => h.accounts[Mailboxes[i]] = None
Behind(m, h) == /\ \A b \in Boxes \ m.missing : h.accounts[b] # None
                /\ \A i \in DOMAIN Mailboxes : i < m.next => h.accounts[Mailboxes[i]] # None
Present(h) == \A b \in Boxes : h.accounts[b] # None
Copied(m, h) == \A i \in DOMAIN Mailboxes : i < m.next => h.script[Mailboxes[i]] = "wanted"
Opens(h) == \A b \in Boxes : h.accounts[b] \notin {None, Odd} => h.recorded[b] = h.accounts[b]

BoxAt(step, m, h) ==
  /\ step \in {"account", "create", "forward"} => m \in BoxRun
  /\ step = "account" => Ahead(m, h, m.next) /\ Behind(m, h)
  /\ step = "create" => /\ m.next \in DOMAIN Mailboxes /\ m.secret \in Nat /\ m.secret = h.recorded[Mailboxes[m.next]]
                        /\ Ahead(m, h, m.next + 1) /\ Behind(m, h)
  /\ step = "forward" => Present(h) /\ Copied(m, h)
  /\ step = "ended" => Present(h) /\ \A b \in Boxes : h.script[b] = "wanted"
BoxStep == {"idle", "account", "create", "forward", "ended"}
BoxInv == /\ at \in {"boxes"} \X BoxStep /\ host \in BoxHost /\ Opens(host)
          /\ \A step \in BoxStep : at = <<"boxes", step>> => BoxAt(step, mem, host)

LEMMA BoxMoves ==
  ASSUME NEW step \in BoxStep, at' = <<"boxes", step>>, host' \in BoxHost, Opens(host'), BoxAt(step, mem', host')
  PROVE  BoxInv'
BY DEF BoxInv

LEMMA BoxIs ==
  ASSUME BoxInv, NEW step \in BoxStep, at = <<"boxes", step>>
  PROVE  host \in BoxHost /\ Opens(host) /\ BoxAt(step, mem, host)
BY DEF BoxInv

LEMMA BoxesAre == DOMAIN Mailboxes \subseteq Nat /\ \A i \in DOMAIN Mailboxes : Mailboxes[i] \in Boxes
BY MailboxesAssumption DEF Boxes

LEMMA BoxRests == ASSUME at' = <<"boxes", "idle">>, host' \in BoxHost, Opens(host') PROVE BoxInv'
<1>1. BoxAt("idle", mem', host')
  BY DEF BoxAt
<1> QED
  BY <1>1, BoxMoves DEF BoxStep

LEMMA AccountsKeep ==
  ASSUME BoxInv, StartBoxes \/ SkipAccount \/ RecordBoxSecret \/ BoxesCreated PROVE BoxInv'
<1>0. host \in BoxHost /\ Opens(host)
  BY DEF BoxInv
<1>1. CASE StartBoxes
  <2>1. /\ at' = <<"boxes", "account">> /\ host' = host
        /\ mem' = [next |-> 1, secret |-> None, missing |-> {b \in Boxes : host.accounts[b] = None}, recorded |-> host.recorded]
    BY <1>1 DEF StartBoxes, Act, Goto
  <2>2. mem' \in BoxRun
    BY <1>0, <2>1 DEF BoxRun, BoxHost
  <2>a. /\ mem'.next = 1 /\ mem'.missing = {b \in Boxes : host.accounts[b] = None} /\ mem'.recorded = host.recorded
        /\ \A i \in DOMAIN Mailboxes : ~(i < 1)
    BY <2>1, MailboxesAssumption
  <2>3. Ahead(mem', host', mem'.next) /\ Behind(mem', host')
    BY <2>1, <2>a, BoxesAre DEF Ahead, Behind
  <2>4. BoxAt("account", mem', host')
    BY <2>2, <2>3 DEF BoxAt
  <2> QED
    BY <1>0, <2>1, <2>4, BoxMoves DEF BoxStep
<1>a. ASSUME at = <<"boxes", "account">>
      PROVE  mem \in BoxRun /\ Ahead(mem, host, mem.next) /\ Behind(mem, host)
  BY <1>a, BoxIs DEF BoxAt, BoxStep
<1>2. CASE SkipAccount
  <2>1. at = <<"boxes", "account">> /\ at' = <<"boxes", "account">> /\ host' = host /\ mem' = [mem EXCEPT !.next = @ + 1]
    BY <1>2 DEF SkipAccount, At, Act, Goto
  <2>2. mem.next \in DOMAIN Mailboxes /\ Mailboxes[mem.next] \notin mem.missing
    BY <1>2 DEF SkipAccount, Box
  <2>3. mem \in BoxRun /\ Ahead(mem, host, mem.next) /\ Behind(mem, host)
    BY <1>a, <2>1
  <2> DEFINE n == mem.next + 1
  <2>4. n \in Nat /\ mem.next \in Nat
    BY <2>3 DEF BoxRun
  <2>5. Ahead(mem, host, n)
    BY <2>3, <2>4, BoxesAre DEF Ahead
  <2>6. \A i \in DOMAIN Mailboxes : i < n => host.accounts[Mailboxes[i]] # None
    <3> SUFFICES ASSUME NEW i \in DOMAIN Mailboxes, i < n PROVE host.accounts[Mailboxes[i]] # None
      OBVIOUS
    <3>1. i < mem.next \/ i = mem.next
      BY <2>4, BoxesAre
    <3> QED
      BY <2>2, <2>3, <3>1, BoxesAre DEF Behind
  <2> HIDE DEF n
  <2>7. mem' \in BoxRun /\ mem'.next = n /\ mem'.missing = mem.missing /\ mem'.recorded = mem.recorded
    BY <2>1, <2>3, <2>4 DEF BoxRun, n
  <2>8. Ahead(mem', host', mem'.next) /\ Behind(mem', host')
    BY <2>1, <2>3, <2>5, <2>6, <2>7 DEF Ahead, Behind
  <2>9. BoxAt("account", mem', host')
    BY <2>7, <2>8 DEF BoxAt
  <2> QED
    BY <1>0, <2>1, <2>9, BoxMoves DEF BoxStep
<1>3. CASE RecordBoxSecret
  <2> DEFINE b == Mailboxes[mem.next]
             secret == IF mem.recorded[b] # None THEN mem.recorded[b] ELSE host.used + 1
             r == [host.recorded EXCEPT ![b] = IF mem.recorded[b] = None THEN secret ELSE @]
             u == IF secret = host.used + 1 THEN host.used + 1 ELSE host.used
  <2>1. /\ at = <<"boxes", "account">> /\ at' = <<"boxes", "create">> /\ mem' = [mem EXCEPT !.secret = secret]
        /\ host' = [host EXCEPT !.recorded = r, !.used = u]
    BY <1>3 DEF RecordBoxSecret, ResolveSecret, Box, At, Act, Goto
  <2>2. mem.next \in DOMAIN Mailboxes /\ b \in mem.missing /\ b \in Boxes
    BY <1>3, BoxesAre DEF RecordBoxSecret, Box
  <2>3. mem \in BoxRun /\ Ahead(mem, host, mem.next) /\ Behind(mem, host)
    BY <1>a, <2>1
  <2>4. mem.next \in Nat /\ host.recorded[b] = mem.recorded[b] /\ host.accounts[b] = None
    BY <2>2, <2>3 DEF BoxRun, Ahead
  <2>5. secret \in Nat /\ u \in Nat
    BY <1>0, <2>2, <2>3 DEF BoxRun, BoxHost
  <2>6. r \in [Boxes -> {None} \cup Nat] /\ r[b] = secret /\ \A c \in Boxes : c # b => r[c] = host.recorded[c]
    BY <1>0, <2>2, <2>4, <2>5 DEF BoxHost
  <2> HIDE DEF secret, r, u
  <2>7. host' \in BoxHost /\ host'.accounts = host.accounts /\ host'.recorded = r
    BY <1>0, <2>1, <2>5, <2>6 DEF BoxHost
  <2>8. mem' \in BoxRun /\ mem'.next = mem.next /\ mem'.missing = mem.missing /\ mem'.recorded = mem.recorded /\ mem'.secret = secret
    BY <2>1, <2>3, <2>5 DEF BoxRun
  <2>9. Opens(host')
    BY <1>0, <2>4, <2>6, <2>7 DEF Opens
  <2>10. Ahead(mem', host', mem'.next + 1)
    <3> SUFFICES ASSUME NEW i \in DOMAIN Mailboxes, i >= mem.next + 1
                 PROVE  /\ r[Mailboxes[i]] = mem.recorded[Mailboxes[i]]
                        /\ Mailboxes[i] \in mem.missing => host.accounts[Mailboxes[i]] = None
      BY <2>7, <2>8 DEF Ahead
    <3>1. i >= mem.next /\ i # mem.next
      BY <2>4, BoxesAre
    <3>2. Mailboxes[i] # b /\ Mailboxes[i] \in Boxes
      BY <2>2, <3>1, BoxesAre, MailboxesAssumption
    <3> QED
      BY <2>3, <2>6, <3>1, <3>2 DEF Ahead
  <2>11. Behind(mem', host')
    BY <2>3, <2>7, <2>8 DEF Behind
  <2>12. BoxAt("create", mem', host')
    BY <2>2, <2>5, <2>6, <2>7, <2>8, <2>10, <2>11 DEF BoxAt
  <2> QED
    BY <2>1, <2>7, <2>9, <2>12, BoxMoves DEF BoxStep
<1>4. CASE BoxesCreated
  <2>1. at = <<"boxes", "account">> /\ at' = <<"boxes", "forward">> /\ host' = host /\ mem' = [mem EXCEPT !.next = 1]
    BY <1>4 DEF BoxesCreated, At, Act, Goto
  <2>2. mem \in BoxRun /\ Ahead(mem, host, mem.next) /\ Behind(mem, host) /\ mem.next \notin DOMAIN Mailboxes
    BY <1>4, <1>a, <2>1 DEF BoxesCreated
  <2>3. Present(host)
    <3> SUFFICES ASSUME NEW b \in Boxes PROVE host.accounts[b] # None
      BY DEF Present
    <3>1. PICK i \in DOMAIN Mailboxes : Mailboxes[i] = b
      BY DEF Boxes
    <3>2. CASE i < mem.next
      BY <2>2, <3>1, <3>2 DEF Behind
    <3>3. CASE ~(i < mem.next)
      <4>1. DOMAIN Mailboxes = 1..Len(Mailboxes) /\ Len(Mailboxes) \in Nat
        BY MailboxesAssumption
      <4>2. mem.next \in Nat /\ mem.next >= 1
        BY <2>2 DEF BoxRun
      <4>3. mem.next \in 1..Len(Mailboxes)
        BY <3>3, <4>1, <4>2
      <4> QED
        BY <2>2, <4>1, <4>3
    <3> QED
      BY <3>2, <3>3
  <2>4. mem' \in BoxRun /\ mem'.next = 1
    BY <2>1, <2>2 DEF BoxRun
  <2>5. Copied(mem', host')
    <3>1. \A i \in DOMAIN Mailboxes : i >= 1 /\ i \in Nat
      BY MailboxesAssumption
    <3> QED
      BY <2>4, <3>1 DEF Copied
  <2>6. BoxAt("forward", mem', host')
    BY <2>1, <2>3, <2>4, <2>5 DEF BoxAt, Present
  <2> QED
    BY <1>0, <2>1, <2>6, BoxMoves DEF BoxStep
<1> QED
  BY <1>1, <1>2, <1>3, <1>4

LEMMA CreateKeeps == ASSUME BoxInv, CreateBox PROVE BoxInv'
<1> DEFINE b == Mailboxes[mem.next]
           a == [host.accounts EXCEPT ![b] = mem.secret]
           s == [host.script EXCEPT ![b] = "none"]
           made == [host EXCEPT !.accounts = a, !.script = s]
<1>1. at = <<"boxes", "create">>
  BY DEF CreateBox, At
<1>2. host \in BoxHost /\ Opens(host) /\ BoxAt("create", mem, host)
  BY <1>1, BoxIs DEF BoxStep
<1>3. /\ mem \in BoxRun /\ mem.next \in DOMAIN Mailboxes /\ mem.secret \in Nat /\ mem.secret = host.recorded[b]
      /\ Ahead(mem, host, mem.next + 1) /\ Behind(mem, host)
  BY <1>2 DEF BoxAt
<1>4. b \in Boxes /\ mem.next \in Nat
  BY <1>3, BoxesAre
<1>5. a \in [Boxes -> {None, Odd} \cup Nat] /\ a[b] = mem.secret /\ \A c \in Boxes : c # b => a[c] = host.accounts[c]
  BY <1>2, <1>3, <1>4 DEF BoxHost
<1>6. s \in [Boxes -> Script]
  BY <1>2, <1>4 DEF BoxHost, Script
<1> HIDE DEF a, s
<1>7. made \in BoxHost /\ made.accounts = a /\ made.recorded = host.recorded
  BY <1>2, <1>5, <1>6 DEF BoxHost
<1>8. Opens(made)
  BY <1>2, <1>3, <1>5, <1>7 DEF Opens
<1>9. CASE BoxFails("create") /\ host' \in {host, made}
  BY <1>2, <1>7, <1>8, <1>9, BoxRests DEF BoxFails, Goto
<1>10. CASE Act("boxes", "create", "account") /\ mem' = [mem EXCEPT !.next = @ + 1] /\ host' = made
  <2> DEFINE n == mem.next + 1
  <2>1. n \in Nat \ {0} /\ at' = <<"boxes", "account">>
    BY <1>4, <1>10 DEF Act, Goto
  <2>2. Ahead(mem, made, n)
    <3> SUFFICES ASSUME NEW i \in DOMAIN Mailboxes, i >= n
                 PROVE  /\ host.recorded[Mailboxes[i]] = mem.recorded[Mailboxes[i]]
                        /\ Mailboxes[i] \in mem.missing => a[Mailboxes[i]] = None
      BY <1>7 DEF Ahead
    <3>1. i # mem.next
      BY <1>4, BoxesAre
    <3>2. Mailboxes[i] # b /\ Mailboxes[i] \in Boxes
      BY <1>3, <3>1, BoxesAre, MailboxesAssumption
    <3> QED
      BY <1>3, <1>5, <3>2 DEF Ahead
  <2>3. a[b] # None
    <3>1. a[b] \in Nat
      BY <1>3, <1>5
    <3> QED
      BY <3>1, ValueAssumption
  <2>4. \A i \in DOMAIN Mailboxes : i < n => a[Mailboxes[i]] # None
    <3> SUFFICES ASSUME NEW i \in DOMAIN Mailboxes, i < n PROVE a[Mailboxes[i]] # None
      OBVIOUS
    <3>1. i < mem.next \/ i = mem.next
      BY <1>4, BoxesAre
    <3>2. CASE i = mem.next
      BY <2>3, <3>2
    <3>3. CASE i < mem.next
      <4>1. host.accounts[Mailboxes[i]] # None /\ Mailboxes[i] \in Boxes
        BY <1>3, <3>3, BoxesAre DEF Behind
      <4> QED
        BY <1>5, <2>3, <4>1
    <3> QED
      BY <3>1, <3>2, <3>3
  <2>5. \A c \in Boxes \ mem.missing : a[c] # None
    BY <1>3, <1>5, <2>3 DEF Behind
  <2> HIDE DEF n, made
  <2>6. mem' \in BoxRun /\ mem'.next = n /\ mem'.missing = mem.missing /\ mem'.recorded = mem.recorded
    BY <1>3, <1>10, <2>1 DEF BoxRun, n
  <2>7. Ahead(mem', host', mem'.next)
    BY <1>10, <2>2, <2>6 DEF Ahead
  <2>8. Behind(mem', host')
    BY <1>7, <1>10, <2>4, <2>5, <2>6 DEF Behind
  <2>9. BoxAt("account", mem', host')
    BY <2>6, <2>7, <2>8 DEF BoxAt
  <2> QED
    BY <1>7, <1>8, <1>10, <2>1, <2>9, BoxMoves DEF BoxStep
<1>11. made = [host EXCEPT !.accounts[Box] = mem.secret, !.script[Box] = "none"]
  BY <1>2, <1>4 DEF BoxHost, Box, a, s
<1> HIDE DEF made
<1> QED
  BY <1>9, <1>10, <1>11 DEF CreateBox

LEMMA ScriptIsSet ==
  ASSUME NEW h \in BoxHost, NEW b \in Boxes, NEW t \in Script
  PROVE  LET e == [h EXCEPT !.script[b] = t]
         IN  /\ e \in BoxHost /\ e.accounts = h.accounts /\ e.recorded = h.recorded
             /\ \A c \in Boxes : e.script[c] = IF c = b THEN t ELSE h.script[c]
<1> DEFINE s == [h.script EXCEPT ![b] = t]
           e == [h EXCEPT !.script = s]
<1>1. s \in [Boxes -> Script] /\ \A c \in Boxes : s[c] = IF c = b THEN t ELSE h.script[c]
  BY DEF BoxHost
<1> HIDE DEF s
<1>2. e \in BoxHost /\ e.accounts = h.accounts /\ e.recorded = h.recorded /\ e.script = s
  BY <1>1 DEF BoxHost
<1>3. e = [h EXCEPT !.script[b] = t]
  BY DEF s, BoxHost
<1> HIDE DEF e
<1> QED
  BY <1>1, <1>2, <1>3

LEMMA ScriptsKeep == ASSUME BoxInv, ReconcileScript \/ BoxesDone PROVE BoxInv'
<1>1. at = <<"boxes", "forward">>
  BY DEF ReconcileScript, BoxesDone, Act, At
<1>2. host \in BoxHost /\ Opens(host) /\ mem \in BoxRun /\ Present(host) /\ Copied(mem, host)
  BY <1>1, BoxIs DEF BoxStep, BoxAt
<1>3. CASE BoxesDone
  <2>1. at' = <<"boxes", "ended">> /\ host' = host /\ mem' = mem /\ mem.next \notin DOMAIN Mailboxes
    BY <1>3 DEF BoxesDone, Act, Goto
  <2>2. \A b \in Boxes : host.script[b] = "wanted"
    <3> SUFFICES ASSUME NEW b \in Boxes PROVE host.script[b] = "wanted"
      OBVIOUS
    <3>1. PICK i \in DOMAIN Mailboxes : Mailboxes[i] = b
      BY DEF Boxes
    <3>2. DOMAIN Mailboxes = 1..Len(Mailboxes) /\ Len(Mailboxes) \in Nat
      BY MailboxesAssumption
    <3>3. mem.next \in Nat /\ mem.next >= 1
      BY <1>2 DEF BoxRun
    <3>4. i < mem.next
      BY <2>1, <3>2, <3>3
    <3> QED
      BY <1>2, <3>1, <3>4 DEF Copied
  <2>3. BoxAt("ended", mem', host')
    BY <1>2, <2>1, <2>2 DEF BoxAt
  <2> QED
    BY <1>2, <2>1, <2>3, BoxMoves DEF BoxStep
<1>4. CASE ReconcileScript
  <2> DEFINE b == Mailboxes[mem.next]
             copied == [host EXCEPT !.script[b] = "wanted"]
             forwarded == IF PlanScript(host.script[b]) THEN copied ELSE host
  <2>1. mem.next \in DOMAIN Mailboxes /\ b \in Boxes
    BY <1>4, BoxesAre DEF ReconcileScript
  <2>2. /\ copied \in BoxHost /\ copied.accounts = host.accounts /\ copied.recorded = host.recorded
        /\ \A c \in Boxes : copied.script[c] = IF c = b THEN "wanted" ELSE host.script[c]
    BY <1>2, <2>1, ScriptIsSet DEF Script
  <2> HIDE DEF copied
  <2>3. /\ forwarded \in BoxHost /\ forwarded.accounts = host.accounts /\ forwarded.recorded = host.recorded
        /\ \A c \in Boxes : forwarded.script[c] = IF c = b THEN "wanted" ELSE host.script[c]
    BY <1>2, <2>1, <2>2 DEF PlanScript
  <2>4. Opens(forwarded) /\ Present(forwarded)
    BY <1>2, <2>3 DEF Opens, Present
  <2>5. /\ \/ Act("boxes", "forward", "forward") /\ mem' = [mem EXCEPT !.next = @ + 1] /\ host' = forwarded
           \/ BoxFails("forward") /\ host' \in {host, forwarded}
    BY <1>4 DEF ReconcileScript, Box, copied
  <2> HIDE DEF forwarded
  <2>6. CASE BoxFails("forward") /\ host' \in {host, forwarded}
    BY <1>2, <2>3, <2>4, <2>6, BoxRests DEF BoxFails, Goto
  <2>7. CASE Act("boxes", "forward", "forward") /\ mem' = [mem EXCEPT !.next = @ + 1] /\ host' = forwarded
    <3> DEFINE n == mem.next + 1
    <3>1. n \in Nat \ {0} /\ mem.next \in Nat /\ mem' = [mem EXCEPT !.next = n] /\ at' = <<"boxes", "forward">>
      BY <1>2, <2>7 DEF BoxRun, Act, Goto
    <3>2. \A i \in DOMAIN Mailboxes : i < n => forwarded.script[Mailboxes[i]] = "wanted"
      <4> SUFFICES ASSUME NEW i \in DOMAIN Mailboxes, i < n PROVE forwarded.script[Mailboxes[i]] = "wanted"
        OBVIOUS
      <4>1. i < mem.next \/ i = mem.next
        BY <3>1, BoxesAre
      <4> QED
        BY <1>2, <2>3, <4>1, BoxesAre DEF Copied
    <3> HIDE DEF n
    <3>3. mem' \in BoxRun /\ mem'.next = n
      BY <1>2, <3>1 DEF BoxRun
    <3>4. BoxAt("forward", mem', host')
      BY <2>4, <2>7, <3>2, <3>3 DEF BoxAt, Copied
    <3> QED
      BY <2>3, <2>4, <2>7, <3>1, <3>4, BoxMoves DEF BoxStep
  <2> QED
    BY <2>5, <2>6, <2>7
<1> QED
  BY <1>3, <1>4

LEMMA BoxIsInductive ==
  (BoxInit => BoxInv) /\ (BoxInv /\ [BoxNext]_programVars => BoxInv')
<1>1. ASSUME BoxInit PROVE BoxInv
  <2>1. PICK there \in SUBSET Boxes, s \in {"none", "edited", "idle"} :
          host = [accounts |-> [b \in Boxes |-> IF b \in there THEN Odd ELSE None],
                  recorded |-> [b \in Boxes |-> None], used |-> 0, script |-> [b \in Boxes |-> s]]
    BY <1>1 DEF BoxInit
  <2>2. host \in BoxHost /\ Opens(host)
    BY <2>1 DEF BoxHost, Opens, Script
  <2> QED
    BY <1>1, <2>2 DEF BoxInit, BoxInv, BoxAt, BoxStep
<1>2. ASSUME BoxInv, BoxesForget \/ BoxesDie PROVE BoxInv'
  <2>1. at' = <<"boxes", "idle">> /\ host' = host
    BY <1>2 DEF BoxesForget, BoxesDie, BoxFails, Act, Goto
  <2> QED
    BY <1>2, <2>1, BoxRests DEF BoxInv
<1>3. ASSUME BoxInv, ScriptEdited PROVE BoxInv'
  <2>1. PICK b \in Boxes, t \in Script : host' = [host EXCEPT !.script[b] = t]
    BY <1>3 DEF ScriptEdited
  <2>2. host \in BoxHost /\ Opens(host) /\ at' = <<"boxes", "idle">>
    BY <1>3 DEF BoxInv, ScriptEdited, At
  <2>3. host' \in BoxHost /\ host'.accounts = host.accounts /\ host'.recorded = host.recorded
    BY <2>1, <2>2, ScriptIsSet
  <2> QED
    BY <2>2, <2>3, BoxRests DEF Opens
<1>4. BoxInv /\ UNCHANGED programVars => BoxInv'
  BY DEF BoxInv, programVars
<1> QED
  BY <1>1, <1>2, <1>3, <1>4, AccountsKeep, CreateKeeps, ScriptsKeep DEF BoxNext

LEMMA BoxInvGives == BoxInv => RecordedOpensBox /\ BoxesForward
BY DEF BoxInv, BoxStep, BoxAt, Opens, Present, RecordedOpensBox, BoxesForward

---------------------------------------------------------------------------
(* The sending domain.                                                     *)

DomainHost == [domain : {"none", "Manual", "Automatic"}, key : [Selectors -> Stages], made : BOOLEAN]
Keyless(h) == \A s \in Selectors : h.key[s] = "none"
SendingAt(step, m, h) ==
  /\ h.domain = "none" => Keyless(h)
  /\ h.made => h.domain = "Manual" /\ h.key["other"] = "none"
  /\ step = "set" => m \in {"both", "key"} /\ Keyless(h) /\ (m = "key" => h.domain = "Manual")
  /\ step = "read" => h.domain # "none"
  /\ step = "ended" => /\ m = "records" => h.domain # "none" /\ h.key["ours"] = "active"
                       /\ m = "refused" /\ h.made => h.key["ours"] = "pending"
SendingStep == {"idle", "set", "read", "ended"}
SendingInv == /\ at \in {"sending"} \X SendingStep /\ host \in DomainHost
              /\ \A step \in SendingStep : at = <<"sending", step>> => SendingAt(step, mem, host)

LEMMA SendingMoves ==
  ASSUME NEW step \in SendingStep, at' = <<"sending", step>>, host' \in DomainHost, SendingAt(step, mem', host')
  PROVE  SendingInv'
BY DEF SendingInv

LEMMA SendingIs ==
  ASSUME SendingInv, NEW step \in SendingStep, at = <<"sending", step>>
  PROVE  host \in DomainHost /\ SendingAt(step, mem, host)
BY DEF SendingInv

LEMMA NoKeys == ASSUME host \in DomainHost PROVE (host.key = [s \in Selectors |-> "none"]) <=> Keyless(host)
BY DEF DomainHost, Keyless

LEMMA PlanKeeps == ASSUME SendingInv, PlanSending PROVE SendingInv'
<1>1. at = <<"sending", "idle">> /\ host' = host
  BY DEF PlanSending, At
<1>2. host \in DomainHost /\ SendingAt("idle", mem, host)
  BY <1>1, SendingIs DEF SendingStep
<1>3. CASE host.domain = "none"
  <2>1. at' = <<"sending", "set">> /\ mem' = "both"
    BY <1>3 DEF PlanSending, Act, Goto
  <2>2. SendingAt("set", mem', host')
    BY <1>1, <1>2, <1>3, <2>1 DEF SendingAt
  <2> QED
    BY <1>1, <1>2, <2>1, <2>2, SendingMoves DEF SendingStep
<1>4. CASE host.domain # "none" /\ host.key["ours"] = "active"
  <2>1. at' = <<"sending", "read">> /\ mem' = "noop"
    BY <1>4 DEF PlanSending, Act, Goto
  <2>2. SendingAt("read", mem', host')
    BY <1>1, <1>2, <1>4, <2>1 DEF SendingAt
  <2> QED
    BY <1>1, <1>2, <2>1, <2>2, SendingMoves DEF SendingStep
<1>5. CASE host.domain # "none" /\ host.key["ours"] # "active" /\ PlanKey
  <2>1. at' = <<"sending", "set">> /\ mem' = "key"
    BY <1>5 DEF PlanSending, Act, Goto
  <2>2. Keyless(host) /\ host.domain = "Manual"
    BY <1>2, <1>5, NoKeys DEF PlanKey
  <2>3. SendingAt("set", mem', host')
    BY <1>1, <1>2, <2>1, <2>2 DEF SendingAt
  <2> QED
    BY <1>1, <1>2, <2>1, <2>3, SendingMoves DEF SendingStep
<1>6. CASE host.domain # "none" /\ host.key["ours"] # "active" /\ ~PlanKey
  <2>1. at' = <<"sending", "ended">> /\ mem' = "refused"
    BY <1>6 DEF PlanSending, SendingEnds, Act, Goto
  <2>2. host.made => host.key["ours"] = "pending"
    <3>1. host.key["ours"] \in {"none", "pending"} /\ Selectors = {"ours", "other"}
      BY <1>2, <1>6 DEF DomainHost, Selectors, Stages
    <3>2. ~Keyless(host) \/ host.domain # "Manual"
      BY <1>2, <1>6, NoKeys DEF PlanKey
    <3> QED
      BY <1>2, <3>1, <3>2 DEF SendingAt, Keyless
  <2>3. SendingAt("ended", mem', host')
    BY <1>1, <1>2, <2>1, <2>2 DEF SendingAt
  <2> QED
    BY <1>1, <1>2, <2>1, <2>3, SendingMoves DEF SendingStep
<1> QED
  BY <1>3, <1>4, <1>5, <1>6

LEMMA SetKeeps == ASSUME SendingInv, SetDomain PROVE SendingInv'
<1> DEFINE d == IF mem = "both" THEN "Manual" ELSE host.domain
           with(stage) == [host.key EXCEPT !["ours"] = stage]
           domain == [host EXCEPT !.domain = d, !.made = TRUE]
           keyed(stage) == [host EXCEPT !.domain = d, !.made = TRUE, !.key = with(stage)]
<1>1. at = <<"sending", "set">>
  BY DEF SetDomain, At
<1>2. host \in DomainHost /\ SendingAt("set", mem, host)
  BY <1>1, SendingIs DEF SendingStep
<1>3. d = "Manual" /\ Keyless(host)
  BY <1>2 DEF SendingAt
<1> HIDE DEF d
<1>4. ASSUME NEW stage \in Stages
      PROVE  /\ with(stage) \in [Selectors -> Stages] /\ with(stage)["ours"] = stage /\ with(stage)["other"] = "none"
  BY <1>2, <1>3 DEF DomainHost, Keyless, Selectors
<1> HIDE DEF with
<1>5. domain \in DomainHost /\ domain.domain = "Manual" /\ Keyless(domain)
  BY <1>2, <1>3 DEF DomainHost, Keyless
<1>6. ASSUME NEW stage \in Stages
      PROVE  /\ keyed(stage) \in DomainHost /\ keyed(stage).domain = "Manual"
             /\ keyed(stage).key["ours"] = stage /\ keyed(stage).key["other"] = "none"
  BY <1>2, <1>3, <1>4 DEF DomainHost
<1>7. ASSUME NEW stage \in Stages PROVE [domain EXCEPT !.key["ours"] = stage] = keyed(stage)
  BY <1>2 DEF DomainHost, with
<1>8. Keyless(domain) => domain.key["other"] = "none"
  BY DEF Keyless, Selectors
<1> HIDE DEF domain, keyed
<1>9. /\ \/ Act("sending", "set", "read") /\ UNCHANGED mem /\ host' = keyed("active")
         \/ Goto("sending", "ended") /\ mem' = "failed" /\ host' \in {host, domain, keyed("active")}
         \/ Goto("sending", "read") /\ host' = keyed("pending")
  BY <1>7 DEF SetDomain, domain, d, Stages
<1>10. CASE Act("sending", "set", "read") /\ host' = keyed("active")
  <2>1. SendingAt("read", mem', host')
    BY <1>6, <1>10 DEF SendingAt, Stages
  <2> QED
    BY <1>6, <1>10, <2>1, SendingMoves DEF Act, Goto, Stages, SendingStep
<1>11. CASE Goto("sending", "read") /\ host' = keyed("pending")
  <2>1. SendingAt("read", mem', host')
    BY <1>6, <1>11 DEF SendingAt, Stages
  <2> QED
    BY <1>6, <1>11, <2>1, SendingMoves DEF Goto, Stages, SendingStep
<1>12. CASE Goto("sending", "ended") /\ mem' = "failed" /\ host' \in {host, domain, keyed("active")}
  <2>1. /\ host' \in DomainHost /\ (host'.domain = "none" => Keyless(host'))
        /\ host'.made => host'.domain = "Manual" /\ host'.key["other"] = "none"
    <3>1. CASE host' = host
      BY <1>2, <3>1 DEF SendingAt
    <3>2. CASE host' = domain
      BY <1>5, <1>8, <3>2
    <3>3. CASE host' = keyed("active")
      BY <1>6, <3>3 DEF Stages
    <3> QED
      BY <1>12, <3>1, <3>2, <3>3
  <2>2. SendingAt("ended", mem', host')
    BY <1>12, <2>1 DEF SendingAt
  <2> QED
    BY <1>12, <2>1, <2>2, SendingMoves DEF Goto, SendingStep
<1> QED
  BY <1>9, <1>10, <1>11, <1>12

LEMMA SendingIsInductive ==
  (SendingInit => SendingInv) /\ (SendingInv /\ [SendingNext]_programVars => SendingInv')
<1>1. ASSUME SendingInit PROVE SendingInv
  <2>1. host \in DomainHost /\ ~host.made /\ at = <<"sending", "idle">>
    BY <1>1 DEF SendingInit, DomainHost
  <2>2. host.domain = "none" => Keyless(host)
    BY <1>1, <2>1, NoKeys DEF SendingInit
  <2>3. SendingAt("idle", mem, host)
    BY <2>1, <2>2 DEF SendingAt
  <2> QED
    BY <2>1, <2>3 DEF SendingInv, SendingStep
<1>2. ASSUME SendingInv, ReadBackKey PROVE SendingInv'
  <2> DEFINE v == IF host.key["ours"] = "active" THEN "records" ELSE "failed"
  <2>1. at = <<"sending", "read">> /\ at' = <<"sending", "ended">> /\ mem' = v /\ host' = host
    BY <1>2 DEF ReadBackKey, SendingEnds, Act, At, Goto
  <2>2. host \in DomainHost /\ SendingAt("read", mem, host)
    BY <1>2, <2>1, SendingIs DEF SendingStep
  <2>3. SendingAt("ended", mem', host')
    BY <2>1, <2>2 DEF SendingAt
  <2> QED
    BY <2>1, <2>2, <2>3, SendingMoves DEF SendingStep
<1>3. ASSUME SendingInv, SendingForget PROVE SendingInv'
  <2>1. at = <<"sending", "ended">> /\ at' = <<"sending", "idle">> /\ host' = host
    BY <1>3 DEF SendingForget, Act, At, Goto
  <2>2. host \in DomainHost /\ SendingAt("ended", mem, host)
    BY <1>3, <2>1, SendingIs DEF SendingStep
  <2>3. SendingAt("idle", mem', host')
    BY <2>1, <2>2 DEF SendingAt
  <2> QED
    BY <2>1, <2>2, <2>3, SendingMoves DEF SendingStep
<1>4. SendingInv /\ UNCHANGED programVars => SendingInv'
  BY DEF SendingInv, programVars
<1> QED
  BY <1>1, <1>2, <1>3, <1>4, PlanKeeps, SetKeeps DEF SendingNext

LEMMA SendingInvGives == SendingInv => OnlyCreates /\ PrintedIsSigned
<1>1. SUFFICES ASSUME SendingInv PROVE OnlyCreates /\ PrintedIsSigned
  OBVIOUS
<1>2. PICK step \in SendingStep : at = <<"sending", step>> /\ SendingAt(step, mem, host)
  BY <1>1 DEF SendingInv
<1> QED
  BY <1>2 DEF SendingAt, OnlyCreates, PrintedIsSigned

---------------------------------------------------------------------------
(* A class of the stack. The time of its files is the only witness of what *)
(* the shim has read, so the invariant says that it is a true one; the     *)
(* rest is what a run nobody disturbs has made so at each of its steps.    *)

Version == Text \cup {None, Odd, 1}
LineSet == [compose : Version, caddyfile : Version, env : Version]
Container == [compose : Version, input : Version, since : SUBSET {"created", "started"}, up : BOOLEAN, healthy : BOOLEAN]
ClassHost == [repo : [compose : Text, caddyfile : Text], secret : Version, compose : Version, caddyfile : Version,
              env : Version, stamp : {None} \cup LineSet, box : [Services -> {None} \cup Container]]
ClassRun == [stale : SUBSET Services, quiet : BOOLEAN, verdict : {None, "failed", "done", "unchanged"}]
ClassStep == {"idle", "decide", "mark", "compose file", "caddyfile", "up", "stale", "recreate", "record", "ended"}

\* A shim created after its environment was last written read what the environment says.
ShimReads(h) == h.box["shim"] # None /\ "created" \notin h.box["shim"].since => h.box["shim"].input = h.env
Converged ==
  /\ host.stamp = Lines /\ host.env = host.secret
  /\ host.compose = host.repo.compose /\ host.caddyfile = host.repo.caddyfile
  /\ \A s \in Services : Live(s) /\ host.box[s].compose = host.compose /\ host.box[s].input = Input(host, s)
Quiet(step) ==
  /\ step \notin {"idle", "ended"} => host.env = host.secret
  /\ step \in {"caddyfile", "up", "stale", "recreate", "record"} => host.compose = host.repo.compose
  /\ step \in {"up", "stale", "recreate", "record"} => host.caddyfile = host.repo.caddyfile
  /\ step = "record" => \A s \in Services : Fresh(s) /\ Live(s)
  /\ step = "ended" /\ mem.verdict \in {"done", "unchanged"} => Converged
ClassAt(step) == step # "idle" => mem \in ClassRun /\ (mem.quiet => Quiet(step))
ClassInv == /\ at \in {"class"} \X ClassStep /\ host \in ClassHost /\ ShimReads(host)
            /\ \A step \in ClassStep : at = <<"class", step>> => ClassAt(step)

LEMMA ClassMoves ==
  ASSUME NEW step \in ClassStep, at' = <<"class", step>>, host' \in ClassHost, ShimReads(host'), ClassAt(step)'
  PROVE  ClassInv'
BY DEF ClassInv

LEMMA ClassIs ==
  ASSUME ClassInv, NEW step \in ClassStep, at = <<"class", step>>
  PROVE  host \in ClassHost /\ ShimReads(host) /\ ClassAt(step)
BY DEF ClassInv

\* A run that ends as failed, or is no longer quiet, claims nothing.
LEMMA ClassFails ==
  ASSUME mem \in ClassRun, ClassEnds("failed"), at' = <<"class", "ended">>, host' \in ClassHost, ShimReads(host')
  PROVE  ClassInv'
<1>1. mem' \in ClassRun /\ mem'.verdict = "failed"
  BY DEF ClassEnds, ClassRun
<1>2. ClassAt("ended")'
  BY <1>1 DEF ClassAt, Quiet
<1> QED
  BY <1>2, ClassMoves DEF ClassStep

LEMMA ClassRests ==
  ASSUME at' = <<"class", "idle">>, host' \in ClassHost, ShimReads(host') PROVE ClassInv'
<1>1. ClassAt("idle")'
  BY DEF ClassAt
<1> QED
  BY <1>1, ClassMoves DEF ClassStep

LEMMA BoxIsSet ==
  ASSUME NEW h \in ClassHost, ShimReads(h), NEW s \in Services, NEW c \in {None} \cup Container,
         s = "shim" /\ c # None /\ "created" \notin c.since => c.input = h.env
  PROVE  LET e == [h EXCEPT !.box[s] = c]
         IN  /\ e \in ClassHost /\ ShimReads(e) /\ e.env = h.env /\ e.secret = h.secret /\ e.compose = h.compose
             /\ e.caddyfile = h.caddyfile /\ e.repo = h.repo
<1> DEFINE b == [h.box EXCEPT ![s] = c]
           e == [h EXCEPT !.box = b]
<1>1. b \in [Services -> {None} \cup Container] /\ \A t \in Services : b[t] = IF t = s THEN c ELSE h.box[t]
  BY DEF ClassHost
<1>2. e = [h EXCEPT !.box[s] = c]
  BY DEF ClassHost
<1> HIDE DEF b
<1>3. /\ e \in ClassHost /\ e.env = h.env /\ e.secret = h.secret /\ e.compose = h.compose
      /\ e.caddyfile = h.caddyfile /\ e.repo = h.repo /\ e.box = b
  BY <1>1 DEF ClassHost
<1> HIDE DEF e
<1>4. ShimReads(e)
  BY <1>1, <1>3 DEF ShimReads, Services
<1> QED
  BY <1>2, <1>3, <1>4

LEMMA EnvIsWritten ==
  ASSUME NEW h \in ClassHost, ShimReads(h), NEW t \in Version
  PROVE  /\ WithEnv(h, t) \in ClassHost /\ ShimReads(WithEnv(h, t)) /\ WithEnv(h, t).env = t
         /\ WithEnv(h, t).secret = h.secret /\ WithEnv(h, t).repo = h.repo
<1>1. CASE h.env = t
  BY <1>1 DEF WithEnv
<1>2. CASE h.env # t
  <2> DEFINE since == {"created", "started"}
             b == Written(h, "shim")
             e == [h EXCEPT !.env = t, !.box = b]
  <2>1. b \in [Services -> {None} \cup Container] /\ (b["shim"] # None => b["shim"].since = since)
    <3>1. CASE h.box["shim"] = None
      BY <3>1 DEF Written, ClassHost
    <3>2. CASE h.box["shim"] # None
      <4> DEFINE c == [h.box["shim"] EXCEPT !.since = since]
      <4>1. h.box["shim"] \in Container
        BY <3>2 DEF ClassHost, Services
      <4>2. c \in Container /\ c.since = since
        BY <4>1 DEF Container
      <4>3. b = [h.box EXCEPT !["shim"] = c]
        BY <3>2 DEF Written, ClassHost
      <4> HIDE DEF c
      <4> QED
        BY <4>2, <4>3 DEF ClassHost, Services
    <3> QED
      BY <3>1, <3>2
  <2> HIDE DEF b
  <2>2. e \in ClassHost /\ e.env = t /\ e.secret = h.secret /\ e.repo = h.repo /\ e.box = b
    BY <2>1 DEF ClassHost
  <2>3. WithEnv(h, t) = e
    BY <1>2 DEF WithEnv, b
  <2> HIDE DEF e
  <2>4. ShimReads(e)
    BY <2>1, <2>2 DEF ShimReads
  <2> QED
    BY <2>2, <2>3, <2>4
<1> QED
  BY <1>1, <1>2

LEMMA CaddyfileIsWritten ==
  ASSUME NEW h \in ClassHost, ShimReads(h), NEW t \in Version
  PROVE  LET e == WithCaddyfile(h, t)
         IN  /\ e \in ClassHost /\ ShimReads(e) /\ e.caddyfile = t
             /\ e.env = h.env /\ e.secret = h.secret /\ e.compose = h.compose /\ e.repo = h.repo
<1>1. CASE h.caddyfile = t
  BY <1>1 DEF WithCaddyfile
<1>2. CASE h.caddyfile # t
  <2> DEFINE since == {"created", "started"}
             b == Written(h, "caddy")
             e == [h EXCEPT !.caddyfile = t, !.box = b]
  <2>1. b \in [Services -> {None} \cup Container] /\ b["shim"] = h.box["shim"]
    <3>1. CASE h.box["caddy"] = None
      BY <3>1 DEF Written, ClassHost
    <3>2. CASE h.box["caddy"] # None
      <4> DEFINE c == [h.box["caddy"] EXCEPT !.since = since]
      <4>1. h.box["caddy"] \in Container
        BY <3>2 DEF ClassHost, Services
      <4>2. c \in Container
        BY <4>1 DEF Container
      <4>3. b = [h.box EXCEPT !["caddy"] = c]
        BY <3>2 DEF Written, ClassHost
      <4> HIDE DEF c
      <4> QED
        BY <4>2, <4>3 DEF ClassHost, Services
    <3> QED
      BY <3>1, <3>2
  <2> HIDE DEF b
  <2>2. /\ e \in ClassHost /\ e.caddyfile = t /\ e.env = h.env /\ e.secret = h.secret /\ e.compose = h.compose
        /\ e.repo = h.repo /\ e.box = b
    BY <2>1 DEF ClassHost
  <2>3. WithCaddyfile(h, t) = e
    BY <1>2 DEF WithCaddyfile, b
  <2> HIDE DEF e
  <2>4. ShimReads(e)
    BY <2>1, <2>2 DEF ShimReads
  <2> QED
    BY <2>2, <2>3, <2>4
<1> QED
  BY <1>1, <1>2

\* A container that is started again read no new environment.
LEMMA StartsAgain ==
  ASSUME NEW h \in ClassHost, ShimReads(h), NEW s \in Services, h.box[s] # None
  PROVE  LET c == StartedAgain(h, s)
         IN  c \in Container /\ (s = "shim" /\ "created" \notin c.since => c.input = h.env)
<1> DEFINE since == h.box[s].since \ {"started"}
           input == IF s = "caddy" THEN h.caddyfile ELSE h.box[s].input
           c == [h.box[s] EXCEPT !.up = TRUE, !.since = since, !.input = input]
<1>1. h.box[s] \in Container
  BY DEF ClassHost
<1>2. since \in SUBSET {"created", "started"} /\ input \in Version /\ StartedAgain(h, s) = c
  BY <1>1 DEF Container, ClassHost, StartedAgain
<1>3. ("created" \in since <=> "created" \in h.box[s].since) /\ (s = "shim" => input = h.box[s].input)
  OBVIOUS
<1> HIDE DEF since, input
<1>4. c \in Container /\ c.since = since /\ c.input = input
  BY <1>1, <1>2 DEF Container
<1> HIDE DEF c
<1> QED
  BY <1>2, <1>3, <1>4 DEF ShimReads

LEMMA IsCreated ==
  ASSUME NEW h \in ClassHost, NEW s \in Services, NEW well \in BOOLEAN
  PROVE  LET c == Created(h, s, well) IN c \in Container /\ (s = "shim" => c.input = h.env)
BY DEF Created, Input, Container, ClassHost, Services

LEMMA ClassDecides == ASSUME ClassInv, RenderEnv \/ DecideClass \/ MarkClass PROVE ClassInv'
<1>0. host \in ClassHost /\ ShimReads(host)
  BY DEF ClassInv
<1>1. CASE RenderEnv
  <2> DEFINE missing == host.secret = Odd
             e == WithEnv(host, host.secret)
  <2>1. /\ at' = <<"class", IF missing THEN "ended" ELSE "decide">> /\ host' = (IF missing THEN host ELSE e)
        /\ mem' = [stale |-> {}, quiet |-> TRUE, verdict |-> IF missing THEN "failed" ELSE None]
    BY <1>1 DEF RenderEnv, ClassTo, Act, Goto
  <2>2. mem' \in ClassRun
    BY <2>1 DEF ClassRun
  <2>3. e \in ClassHost /\ ShimReads(e) /\ e.env = e.secret
    <3>1. host.secret \in Version
      BY <1>0 DEF ClassHost
    <3> QED
      BY <1>0, <3>1, EnvIsWritten
  <2> HIDE DEF e
  <2>4. CASE missing
    <3>1. at' = <<"class", "ended">> /\ host' = host /\ mem'.verdict = "failed"
      BY <2>1, <2>4
    <3>2. ClassAt("ended")'
      BY <2>2, <3>1 DEF ClassAt, Quiet
    <3> QED
      BY <1>0, <3>1, <3>2, ClassMoves DEF ClassStep
  <2>5. CASE ~missing
    <3>1. at' = <<"class", "decide">> /\ host' = e
      BY <2>1, <2>5
    <3>2. ClassAt("decide")'
      BY <2>2, <2>3, <3>1 DEF ClassAt, Quiet
    <3> QED
      BY <2>3, <3>1, <3>2, ClassMoves DEF ClassStep
  <2> QED
    BY <2>4, <2>5
<1>2. CASE DecideClass
  <2>1. at = <<"class", "decide">> /\ host' = host
    BY <1>2 DEF DecideClass, At
  <2>2. mem \in ClassRun /\ (mem.quiet => host.env = host.secret)
    BY <2>1, ClassIs DEF ClassStep, ClassAt, Quiet
  <2>3. CASE ClassReasons /\ Goto("class", "mark") /\ UNCHANGED mem
    <3>1. ClassAt("mark")'
      BY <2>1, <2>2, <2>3 DEF ClassAt, Quiet
    <3> QED
      BY <1>0, <2>1, <2>3, <3>1, ClassMoves DEF ClassStep, Goto
  <2>4. ~ClassReasons => /\ host.compose = host.repo.compose /\ host.caddyfile = host.repo.caddyfile
                         /\ \A s \in Services : Fresh(s) /\ Live(s)
                         /\ host.stamp # None => host.stamp = Lines
    BY DEF ClassReasons, ClassRecorded
  <2>5. CASE ~ClassReasons /\ host.stamp = None /\ Goto("class", "record") /\ UNCHANGED mem
    <3>1. \A s \in Services : Fresh(s)' /\ Live(s)'
      BY <2>1, <2>4, <2>5 DEF Fresh, Live, Input
    <3>2. ClassAt("record")'
      BY <2>1, <2>2, <2>4, <2>5, <3>1 DEF ClassAt, Quiet
    <3> QED
      BY <1>0, <2>1, <2>5, <3>2, ClassMoves DEF ClassStep, Goto
  <2>6. CASE ~ClassReasons /\ host.stamp # None /\ Goto("class", "ended") /\ ClassEnds("unchanged")
    <3>1. mem' \in ClassRun /\ mem'.quiet = mem.quiet
      BY <2>2, <2>6 DEF ClassEnds, ClassRun
    <3>2. ASSUME NEW s \in Services
          PROVE  Live(s) /\ host.box[s].compose = host.compose /\ host.box[s].input = Input(host, s)
      <4>1. Fresh(s) /\ Live(s)
        BY <2>4, <2>6
      <4>2. host.box[s].compose = host.compose
        BY <2>4, <2>6, <4>1 DEF Live
      <4>3. host.box[s].input = Input(host, s)
        BY <1>0, <4>1 DEF Fresh, ShimReads, Input
      <4> QED
        BY <4>1, <4>2, <4>3
    <3>3. host.env = host.secret => Converged
      BY <2>4, <2>6, <3>2 DEF Converged
    <3>4. mem.quiet => Converged'
      BY <2>1, <2>2, <3>3 DEF Converged, Lines, Live, Input
    <3>5. ClassAt("ended")'
      BY <3>1, <3>4 DEF ClassAt, Quiet
    <3> QED
      BY <1>0, <2>1, <2>6, <3>5, ClassMoves DEF ClassStep, Goto
  <2> QED
    BY <1>2, <2>3, <2>5, <2>6 DEF DecideClass
<1>3. CASE MarkClass
  <2>1. at = <<"class", "mark">> /\ at' = <<"class", "compose file">> /\ mem' = mem /\ host' = [host EXCEPT !.stamp = PendingLines]
    BY <1>3 DEF MarkClass, ClassTo, Act, At, Goto
  <2>2. mem \in ClassRun /\ (mem.quiet => host.env = host.secret)
    BY <2>1, ClassIs DEF ClassStep, ClassAt, Quiet
  <2>3. PendingLines \in LineSet
    BY DEF PendingLines, LineSet, Version
  <2>4. host' \in ClassHost /\ host'.env = host.env /\ host'.secret = host.secret /\ host'.box = host.box
    BY <1>0, <2>1, <2>3 DEF ClassHost
  <2>5. ClassAt("compose file")'
    BY <2>1, <2>2, <2>4 DEF ClassAt, Quiet
  <2>6. ShimReads(host')
    BY <1>0, <2>4 DEF ShimReads
  <2> QED
    BY <2>1, <2>4, <2>5, <2>6, ClassMoves DEF ClassStep
<1> QED
  BY <1>1, <1>2, <1>3

LEMMA ClassPlaces == ASSUME ClassInv, PlaceCompose \/ PlaceCaddyfile PROVE ClassInv'
<1>0. host \in ClassHost /\ ShimReads(host)
  BY DEF ClassInv
<1>1. CASE PlaceCompose
  <2>1. /\ at = <<"class", "compose file">> /\ at' = <<"class", "caddyfile">> /\ mem' = mem
        /\ host' = [host EXCEPT !.compose = host.repo.compose]
    BY <1>1 DEF PlaceCompose, ClassTo, Act, At, Goto
  <2>2. mem \in ClassRun /\ (mem.quiet => host.env = host.secret)
    BY <2>1, ClassIs DEF ClassStep, ClassAt, Quiet
  <2>3. host.repo.compose \in Version
    BY <1>0 DEF ClassHost, Version
  <2>4. /\ host' \in ClassHost /\ host'.env = host.env /\ host'.secret = host.secret /\ host'.box = host.box
        /\ host'.repo = host.repo /\ host'.compose = host.repo.compose
    BY <1>0, <2>1, <2>3 DEF ClassHost
  <2>5. ClassAt("caddyfile")'
    BY <2>1, <2>2, <2>4 DEF ClassAt, Quiet
  <2>6. ShimReads(host')
    BY <1>0, <2>4 DEF ShimReads
  <2> QED
    BY <2>1, <2>4, <2>5, <2>6, ClassMoves DEF ClassStep
<1>2. CASE PlaceCaddyfile
  <2> DEFINE e == WithCaddyfile(host, host.repo.caddyfile)
  <2>1. at = <<"class", "caddyfile">> /\ at' = <<"class", "up">> /\ mem' = mem /\ host' = e
    BY <1>2 DEF PlaceCaddyfile, ClassTo, Act, At, Goto
  <2>2. mem \in ClassRun /\ (mem.quiet => host.env = host.secret /\ host.compose = host.repo.compose)
    BY <2>1, ClassIs DEF ClassStep, ClassAt, Quiet
  <2>3. host.repo.caddyfile \in Version
    BY <1>0 DEF ClassHost, Version
  <2>4. /\ e \in ClassHost /\ ShimReads(e) /\ e.env = host.env /\ e.secret = host.secret /\ e.compose = host.compose
        /\ e.repo = host.repo /\ e.caddyfile = host.repo.caddyfile
    BY <1>0, <2>3, CaddyfileIsWritten
  <2> HIDE DEF e
  <2>5. ClassAt("up")'
    BY <2>1, <2>2, <2>4 DEF ClassAt, Quiet
  <2> QED
    BY <2>1, <2>4, <2>5, ClassMoves DEF ClassStep
<1> QED
  BY <1>1, <1>2

LEMMA ClassBringsUp == ASSUME ClassInv, BringUp PROVE ClassInv'
<1>1. host \in ClassHost /\ ShimReads(host) /\ at = <<"class", "up">>
  BY DEF ClassInv, BringUp, ClassTo, Act, At
<1>2. mem \in ClassRun /\ (mem.quiet => Quiet("up"))
  BY <1>1, ClassIs DEF ClassStep, ClassAt
<1>3. PICK well \in [Services -> BOOLEAN] :
        LET box == [s \in Services |->
                      IF host.box[s] = None \/ host.box[s].compose # host.compose THEN Created(host, s, well[s])
                      ELSE IF ~host.box[s].up THEN StartedAgain(host, s) ELSE host.box[s]]
            healthy == \A s \in Services : box[s].healthy
        IN  /\ ClassTo("up", IF healthy THEN "stale" ELSE "ended") /\ host' = [host EXCEPT !.box = box]
            /\ IF healthy THEN UNCHANGED mem ELSE ClassEnds("failed")
  BY DEF BringUp
<1> DEFINE c(s) == IF host.box[s] = None \/ host.box[s].compose # host.compose THEN Created(host, s, well[s])
                   ELSE IF ~host.box[s].up THEN StartedAgain(host, s) ELSE host.box[s]
           box == [s \in Services |-> c(s)]
           healthy == \A s \in Services : box[s].healthy
<1>4. ASSUME NEW s \in Services
      PROVE  c(s) \in Container /\ (s = "shim" /\ "created" \notin c(s).since => c(s).input = host.env)
  <2>1. CASE host.box[s] = None \/ host.box[s].compose # host.compose
    BY <1>1, <2>1, IsCreated
  <2>2. CASE host.box[s] # None /\ host.box[s].compose = host.compose /\ ~host.box[s].up
    BY <1>1, <2>2, StartsAgain
  <2>3. CASE host.box[s] # None /\ host.box[s].compose = host.compose /\ host.box[s].up
    BY <1>1, <2>3 DEF ShimReads, ClassHost
  <2> QED
    BY <2>1, <2>2, <2>3
<1>5. /\ host' = [host EXCEPT !.box = box] /\ at' = <<"class", IF healthy THEN "stale" ELSE "ended">>
      /\ IF healthy THEN UNCHANGED mem ELSE ClassEnds("failed")
  BY <1>3 DEF ClassTo, Act, Goto
<1> HIDE DEF c
<1>6. box \in [Services -> {None} \cup Container] /\ ("created" \notin box["shim"].since => box["shim"].input = host.env)
  BY <1>4 DEF Services
<1> HIDE DEF box
<1>7. /\ host' \in ClassHost /\ host'.box = box /\ host'.env = host.env /\ host'.secret = host.secret
      /\ host'.compose = host.compose /\ host'.caddyfile = host.caddyfile /\ host'.repo = host.repo
  BY <1>1, <1>5, <1>6 DEF ClassHost
<1>8. ShimReads(host')
  BY <1>6, <1>7 DEF ShimReads
<1> HIDE DEF healthy
<1>9. CASE healthy
  <2>1. at' = <<"class", "stale">> /\ mem' = mem
    BY <1>5, <1>9
  <2>2. ClassAt("stale")'
    BY <1>2, <1>7, <2>1 DEF ClassAt, Quiet
  <2> QED
    BY <1>7, <1>8, <2>1, <2>2, ClassMoves DEF ClassStep
<1>10. CASE ~healthy
  <2>1. at' = <<"class", "ended">> /\ ClassEnds("failed")
    BY <1>5, <1>10
  <2> QED
    BY <1>2, <1>7, <1>8, <2>1, ClassFails
<1> QED
  BY <1>9, <1>10

LEMMA ClassRecreates == ASSUME ClassInv, ReadStale \/ Recreate \/ ReadBackClass PROVE ClassInv'
<1>0. host \in ClassHost /\ ShimReads(host)
  BY DEF ClassInv
<1>1. CASE ReadStale
  <2> DEFINE stale == {s \in Services : ~Fresh(s)}
  <2>1. at = <<"class", "stale">> /\ at' = <<"class", "recreate">> /\ host' = host /\ mem' = [mem EXCEPT !.stale = stale]
    BY <1>1 DEF ReadStale, ClassTo, Act, At, Goto
  <2>2. mem \in ClassRun /\ (mem.quiet => Quiet("stale"))
    BY <2>1, ClassIs DEF ClassStep, ClassAt
  <2>3. stale \in SUBSET Services
    OBVIOUS
  <2> HIDE DEF stale
  <2>4. mem' \in ClassRun /\ mem'.quiet = mem.quiet
    BY <2>1, <2>2, <2>3 DEF ClassRun
  <2>5. ClassAt("recreate")'
    BY <2>1, <2>2, <2>4 DEF ClassAt, Quiet
  <2> QED
    BY <1>0, <2>1, <2>5, ClassMoves DEF ClassStep
<1>2. CASE Recreate
  <2>1. at = <<"class", "recreate">>
    BY <1>2 DEF Recreate, At
  <2>2. mem \in ClassRun /\ (mem.quiet => Quiet("recreate"))
    BY <2>1, ClassIs DEF ClassStep, ClassAt
  <2>3. PICK s \in mem.stale, well \in BOOLEAN :
          /\ host' = [host EXCEPT !.box[s] = Created(host, s, well)]
          /\ IF well THEN UNCHANGED at /\ mem' = [mem EXCEPT !.stale = @ \ {s}]
             ELSE Goto("class", "ended") /\ ClassEnds("failed")
    BY <1>2 DEF Recreate
  <2>4. s \in Services
    BY <2>2, <2>3 DEF ClassRun
  <2> DEFINE c == Created(host, s, well)
  <2>5. c \in Container /\ (s = "shim" => c.input = host.env)
    BY <1>0, <2>4, IsCreated
  <2> HIDE DEF c
  <2>6. /\ host' \in ClassHost /\ ShimReads(host') /\ host'.env = host.env /\ host'.secret = host.secret
        /\ host'.compose = host.compose /\ host'.caddyfile = host.caddyfile /\ host'.repo = host.repo
    <3>1. host' = [host EXCEPT !.box[s] = c]
      BY <2>3 DEF c
    <3> QED
      BY <1>0, <2>4, <2>5, <3>1, BoxIsSet
  <2>7. CASE well
    <3> DEFINE rest == mem.stale \ {s}
    <3>1. at' = at /\ mem' = [mem EXCEPT !.stale = rest] /\ rest \in SUBSET Services
      BY <2>2, <2>3, <2>7 DEF ClassRun
    <3> HIDE DEF rest
    <3>2. mem' \in ClassRun /\ mem'.quiet = mem.quiet
      BY <2>2, <3>1 DEF ClassRun
    <3>3. ClassAt("recreate")'
      BY <2>2, <2>6, <3>2 DEF ClassAt, Quiet
    <3> QED
      BY <2>1, <2>6, <3>1, <3>3, ClassMoves DEF ClassStep
  <2>8. CASE ~well
    BY <2>2, <2>3, <2>6, <2>8, ClassFails DEF Goto
  <2> QED
    BY <2>7, <2>8
<1>3. CASE ReadBackClass
  <2>1. at = <<"class", "recreate">> /\ host' = host
    BY <1>3 DEF ReadBackClass, At
  <2>2. mem \in ClassRun /\ (mem.quiet => Quiet("recreate"))
    BY <2>1, ClassIs DEF ClassStep, ClassAt
  <2>3. CASE ~(\A s \in Services : Fresh(s) /\ Live(s))
    BY <1>0, <1>3, <2>1, <2>2, <2>3, ClassFails DEF ReadBackClass, Goto
  <2>4. CASE \A s \in Services : Fresh(s) /\ Live(s)
    <3>1. at' = <<"class", "record">> /\ mem' = mem
      BY <1>3, <2>4 DEF ReadBackClass, Goto
    <3>2. \A s \in Services : Fresh(s)' /\ Live(s)'
      BY <2>1, <2>4 DEF Fresh, Live, Input
    <3>3. ClassAt("record")'
      BY <2>1, <2>2, <3>1, <3>2 DEF ClassAt, Quiet
    <3> QED
      BY <1>0, <2>1, <3>1, <3>3, ClassMoves DEF ClassStep
  <2> QED
    BY <2>3, <2>4
<1> QED
  BY <1>1, <1>2, <1>3

LEMMA ClassRecords == ASSUME ClassInv, RecordClass PROVE ClassInv'
<1>1. /\ at = <<"class", "record">> /\ at' = <<"class", "ended">> /\ mem' = [mem EXCEPT !.verdict = "done"]
      /\ host' = [host EXCEPT !.stamp = Lines]
  BY DEF RecordClass, ClassTo, ClassEnds, Act, At, Goto
<1>2. host \in ClassHost /\ ShimReads(host) /\ mem \in ClassRun /\ (mem.quiet => Quiet("record"))
  BY <1>1, ClassIs DEF ClassStep, ClassAt
<1>3. Lines \in LineSet
  BY <1>2 DEF Lines, LineSet, ClassHost, Version
<1>4. /\ host' \in ClassHost /\ host'.stamp = Lines /\ host'.env = host.env /\ host'.secret = host.secret /\ host'.box = host.box
      /\ host'.compose = host.compose /\ host'.caddyfile = host.caddyfile /\ host'.repo = host.repo
  BY <1>1, <1>2, <1>3 DEF ClassHost
<1>5. mem' \in ClassRun /\ mem'.quiet = mem.quiet
  BY <1>1, <1>2 DEF ClassRun
<1>6. ShimReads(host')
  BY <1>2, <1>4 DEF ShimReads
<1>7. ASSUME mem.quiet, NEW s \in Services
      PROVE  Live(s)' /\ host'.box[s].compose = host'.compose /\ host'.box[s].input = Input(host', s)
  <2>1. Fresh(s) /\ Live(s) /\ host.compose = host.repo.compose
    BY <1>2, <1>7 DEF Quiet
  <2>2. host.box[s].compose = host.compose
    BY <2>1 DEF Live
  <2>3. host.box[s].input = Input(host, s)
    BY <1>2, <2>1 DEF Fresh, ShimReads, Input
  <2> QED
    BY <1>4, <2>1, <2>2, <2>3 DEF Live, Input
<1>8. ASSUME mem.quiet PROVE Converged'
  <2>1. host.env = host.secret /\ host.compose = host.repo.compose /\ host.caddyfile = host.repo.caddyfile
    BY <1>2, <1>8 DEF Quiet
  <2>2. Lines' = Lines
    BY <1>4 DEF Lines
  <2> QED
    BY <1>4, <1>7, <1>8, <2>1, <2>2 DEF Converged
<1>9. ClassAt("ended")'
  BY <1>5, <1>8 DEF ClassAt, Quiet
<1> QED
  BY <1>1, <1>4, <1>6, <1>9, ClassMoves DEF ClassStep

LEMMA ClassWorldKeeps == ASSUME ClassInv, ClassDisturbed PROVE ClassInv'
<1>0. host \in ClassHost /\ ShimReads(host)
  BY DEF ClassInv
<1>1. PICK step \in ClassStep : at = <<"class", step>> /\ ClassAt(step)
  BY DEF ClassInv
<1>2. at' = at /\ mem' = IF step = "idle" THEN None ELSE [mem EXCEPT !.quiet = FALSE]
  BY <1>1 DEF ClassDisturbed, Disturbed
<1>3. ClassAt(step)'
  <2>1. CASE step = "idle"
    BY <2>1 DEF ClassAt
  <2>2. CASE step # "idle"
    <3>1. mem' \in ClassRun /\ ~mem'.quiet
      BY <1>1, <1>2, <2>2 DEF ClassAt, ClassRun
    <3> QED
      BY <3>1 DEF ClassAt
  <2> QED
    BY <2>1, <2>2
<1>4. host' \in ClassHost /\ ShimReads(host')
  <2>1. ASSUME NEW t \in Text, host' \in {WithEnv(host, t), WithCaddyfile(host, t), [host EXCEPT !.secret = t]}
        PROVE  host' \in ClassHost /\ ShimReads(host')
    <3>1. t \in Version
      BY DEF Version
    <3>2. CASE host' = WithEnv(host, t)
      BY <1>0, <3>1, <3>2, EnvIsWritten
    <3>3. CASE host' = WithCaddyfile(host, t)
      BY <1>0, <3>1, <3>3, CaddyfileIsWritten
    <3>4. CASE host' = [host EXCEPT !.secret = t]
      BY <1>0, <3>1, <3>4 DEF ClassHost, ShimReads
    <3> QED
      BY <2>1, <3>2, <3>3, <3>4
  <2>2. CASE host' = [host EXCEPT !.secret = Odd]
    BY <1>0, <2>2 DEF ClassHost, ShimReads, Version
  <2>3. CASE host' = [host EXCEPT !.stamp = None]
    BY <1>0, <2>3 DEF ClassHost, ShimReads
  <2>4. ASSUME NEW s \in Services, host.box[s] # None,
               host' \in {[host EXCEPT !.box[s] = StartedAgain(host, s)], [host EXCEPT !.box[s].up = FALSE],
                          [host EXCEPT !.box[s].healthy = FALSE]}
        PROVE  host' \in ClassHost /\ ShimReads(host')
    <3> DEFINE down == [host.box[s] EXCEPT !.up = FALSE]
               sick == [host.box[s] EXCEPT !.healthy = FALSE]
               again == StartedAgain(host, s)
    <3>1. host.box[s] \in Container
      BY <1>0, <2>4 DEF ClassHost
    <3>2. /\ down \in Container /\ down.since = host.box[s].since /\ down.input = host.box[s].input
          /\ sick \in Container /\ sick.since = host.box[s].since /\ sick.input = host.box[s].input
      BY <3>1 DEF Container
    <3>3. again \in Container /\ (s = "shim" /\ "created" \notin again.since => again.input = host.env)
      BY <1>0, <2>4, StartsAgain
    <3>4. [host EXCEPT !.box[s].up = FALSE] = [host EXCEPT !.box[s] = down]
      BY <1>0 DEF ClassHost
    <3>5. [host EXCEPT !.box[s].healthy = FALSE] = [host EXCEPT !.box[s] = sick]
      BY <1>0 DEF ClassHost
    <3>6. s = "shim" /\ "created" \notin host.box[s].since => host.box[s].input = host.env
      BY <1>0, <2>4 DEF ShimReads
    <3> HIDE DEF down, sick, again
    <3>7. CASE host' = [host EXCEPT !.box[s] = again]
      BY <1>0, <3>3, <3>7, BoxIsSet
    <3>8. CASE host' = [host EXCEPT !.box[s] = down]
      BY <1>0, <3>2, <3>6, <3>8, BoxIsSet
    <3>9. CASE host' = [host EXCEPT !.box[s] = sick]
      BY <1>0, <3>2, <3>6, <3>9, BoxIsSet
    <3> QED
      BY <2>4, <3>4, <3>5, <3>7, <3>8, <3>9 DEF again
  <2>5. ASSUME NEW t \in Text, host' \in {[host EXCEPT !.repo.compose = t], [host EXCEPT !.repo.caddyfile = t]}
        PROVE  host' \in ClassHost /\ ShimReads(host')
    <3> DEFINE c == [host.repo EXCEPT !.compose = t]
               f == [host.repo EXCEPT !.caddyfile = t]
    <3>1. c \in [compose : Text, caddyfile : Text] /\ f \in [compose : Text, caddyfile : Text]
      BY <1>0 DEF ClassHost
    <3>2. host' \in {[host EXCEPT !.repo = c], [host EXCEPT !.repo = f]}
      BY <1>0, <2>5 DEF ClassHost
    <3> HIDE DEF c, f
    <3>3. PICK r \in [compose : Text, caddyfile : Text] : host' = [host EXCEPT !.repo = r]
      BY <3>1, <3>2
    <3> QED
      BY <1>0, <3>3 DEF ClassHost, ShimReads
  <2> QED
    BY <2>1, <2>2, <2>3, <2>4, <2>5 DEF ClassDisturbed
<1> QED
  BY <1>1, <1>2, <1>3, <1>4, ClassMoves

LEMMA ClassIsInductive ==
  (ClassInit => ClassInv) /\ (ClassInv /\ [ClassNext]_programVars => ClassInv')
<1>1. ASSUME ClassInit PROVE ClassInv
  <2>1. PICK repo \in [compose : Text, caddyfile : Text] :
          host = [repo |-> repo, secret |-> 1, compose |-> None, caddyfile |-> None, env |-> None, stamp |-> None,
                  box |-> [s \in Services |-> None]]
    BY <1>1 DEF ClassInit
  <2>2. host \in ClassHost /\ ShimReads(host)
    BY <2>1 DEF ClassHost, ShimReads, Version, Services
  <2> QED
    BY <1>1, <2>2 DEF ClassInit, ClassInv, ClassStep, ClassAt
<1>2. ASSUME ClassInv, ClassForget \/ ClassDies PROVE ClassInv'
  <2>1. at' = <<"class", "idle">> /\ host' = host
    BY <1>2 DEF ClassForget, ClassDies, ClassTo, Act, Goto
  <2> QED
    BY <1>2, <2>1, ClassRests DEF ClassInv
<1>3. ASSUME ClassInv, UNCHANGED programVars PROVE ClassInv'
  <2>1. host' = host /\ mem' = mem /\ at' = at
    BY <1>3 DEF programVars
  <2>2. PICK step \in ClassStep : at = <<"class", step>> /\ ClassAt(step)
    BY <1>3 DEF ClassInv
  <2>3. ClassAt(step)'
    BY <2>1, <2>2 DEF ClassAt, Quiet, Converged, Lines, Live, Fresh, Input
  <2> QED
    BY <1>3, <2>1, <2>2, <2>3, ClassMoves DEF ClassInv
<1> QED
  BY <1>1, <1>2, <1>3, ClassDecides, ClassPlaces, ClassBringsUp, ClassRecreates, ClassRecords, ClassWorldKeeps DEF ClassNext

LEMMA ClassInvGives == ClassInv => ClassRunsItsFiles /\ at[1] = "class"
<1>1. SUFFICES ASSUME ClassInv PROVE ClassRunsItsFiles /\ at[1] = "class"
  OBVIOUS
<1>2. at[1] = "class"
  BY <1>1 DEF ClassInv
<1>3. ASSUME at = <<"class", "ended">> PROVE ClassAt("ended")
  BY <1>1, <1>3, ClassIs DEF ClassStep
<1> QED
  BY <1>2, <1>3 DEF ClassRunsItsFiles, ClassAt, Quiet, Converged, At

---------------------------------------------------------------------------
(* The resolver. Nothing runs that is not installed, and a run knows what  *)
(* it found to be missing; a run nobody disturbs has masked the unit that  *)
(* repoints the host before anything is installed, and keeps the drop-in   *)
(* it replaces until the whole configuration has been accepted.            *)

Dropin == {None, Odd} \cup Text
ResolverHost == [holders : SUBSET {"stub", "foreign"}, wanted : Text, rejected : SUBSET Text, dropin : Dropin, backup : Dropin,
                 installed : BOOLEAN, anchor : BOOLEAN, masked : BOOLEAN, resolv : {"own", "unbound"},
                 stamp : {None} \cup [dropin : Dropin, anchor : BOOLEAN \cup {None}], running : Dropin \cup {0}]
ResolverRun == [due : BOOLEAN, missing : BOOLEAN, ran : BOOLEAN, quiet : BOOLEAN, resolv : {"own", "unbound"}, before : Dropin,
                changed : BOOLEAN, verdict : {None, "unchanged", "failed", "put back", "done"}]
PortRun == [quiet : BOOLEAN, verdict : {None, "port taken"}]
ToInstall == {"mark", "mask", "install"}
ToDeliver == {"anchor", "dropin"}
ToPutBack == {"check", "put back"}
ToRecord == {"restart", "resolv"}
ResolverActs == ToInstall \cup ToDeliver \cup ToPutBack \cup ToRecord \cup {"record"}
ResolverStep == ResolverActs \cup {"idle", "decide", "ended"}

RunsInstalled(h) == ~h.installed => h.running = None
Knows(step) ==
  /\ step \in ToInstall => (mem.missing <=> ~host.installed) /\ (mem.ran => ~mem.missing)
  /\ step \in ToDeliver \cup ToPutBack \cup ToRecord => host.installed
Undisturbed(step) ==
  /\ step \in ResolverActs => host.resolv = mem.resolv
  /\ step \in ResolverActs \ {"mark", "mask"} => host.masked
  /\ step \in ResolverActs \ (ToInstall \cup {"anchor"}) => host.anchor
  /\ step \in ToInstall \cup ToDeliver => host.dropin = mem.before
  /\ step \in ToPutBack => (mem.changed => host.backup = mem.before)
  /\ step \in ToInstall \cup ToDeliver \cup ToPutBack => (mem.ran => host.running # None)
  /\ step \in ToPutBack \cup ToRecord \cup {"record"} => host.dropin = host.wanted
  /\ step \in ToRecord \cup {"record"} => (mem.due => host.dropin \notin host.rejected)
  /\ step = "record" => host.running # None
Serving ==
  /\ mem.verdict = "done" => /\ host.running # None /\ host.masked /\ host.anchor /\ host.stamp = ResolverLines
                             /\ host.dropin = host.wanted /\ (mem.due => host.dropin \notin host.rejected)
  /\ mem.verdict = "put back" /\ mem.changed => host.dropin = mem.before /\ (mem.ran => host.running # None)
  /\ mem.verdict # "port taken" /\ host.masked => host.resolv = mem.resolv
ResolverAt(step) ==
  /\ step = "decide" => mem \in PortRun
  /\ step \in ResolverActs => mem \in ResolverRun /\ Knows(step) /\ (mem.quiet => Undisturbed(step))
  /\ step = "ended" => mem \in ResolverRun \cup PortRun /\ (mem.quiet => Serving)
ResolverInv == /\ at \in {"resolver"} \X ResolverStep /\ host \in ResolverHost /\ RunsInstalled(host)
               /\ \A step \in ResolverStep : at = <<"resolver", step>> => ResolverAt(step)

LEMMA ResolverMoves ==
  ASSUME NEW step \in ResolverStep, at' = <<"resolver", step>>, host' \in ResolverHost, RunsInstalled(host'), ResolverAt(step)'
  PROVE  ResolverInv'
BY DEF ResolverInv

LEMMA ResolverIs ==
  ASSUME ResolverInv, NEW step \in ResolverStep, at = <<"resolver", step>>
  PROVE  host \in ResolverHost /\ RunsInstalled(host) /\ ResolverAt(step)
BY DEF ResolverInv

LEMMA Answering == ASSUME NEW h \in ResolverHost PROVE Loaded(h) \in Dropin \cup {0}
BY DEF Loaded, ResolverHost, Dropin

\* A run that acts fails or puts back: the host's own resolver file is as it was.
LEMMA ResolverStops ==
  ASSUME mem \in ResolverRun, NEW v \in {"failed", "put back"}, ResolverEnds(v), at' = <<"resolver", "ended">>,
         host' \in ResolverHost, RunsInstalled(host'), mem.quiet => host'.resolv = mem.resolv,
         mem.quiet /\ v = "put back" /\ mem.changed => host'.dropin = mem.before /\ (mem.ran => host'.running # None)
  PROVE  ResolverInv'
<1>1. /\ mem' \in ResolverRun /\ mem'.verdict = v /\ mem'.quiet = mem.quiet /\ mem'.changed = mem.changed
      /\ mem'.before = mem.before /\ mem'.ran = mem.ran /\ mem'.resolv = mem.resolv
  BY DEF ResolverEnds, ResolverRun
<1>2. mem.quiet => Serving'
  BY <1>1 DEF Serving
<1>3. ResolverAt("ended")'
  BY <1>1, <1>2 DEF ResolverAt, ResolverActs, ToInstall, ToDeliver, ToPutBack, ToRecord
<1> QED
  BY <1>3, ResolverMoves DEF ResolverStep

LEMMA ResolverDecides == ASSUME ResolverInv, ReadPort53 \/ DecideResolver PROVE ResolverInv'
<1>0. host \in ResolverHost /\ RunsInstalled(host)
  BY DEF ResolverInv
<1>1. CASE ReadPort53
  <2>1. host' = host
    BY <1>1 DEF ReadPort53
  <2>2. CASE at' = <<"resolver", "decide">> /\ mem' = [quiet |-> TRUE, verdict |-> None]
    <3>1. ResolverAt("decide")'
      BY <2>2 DEF ResolverAt, PortRun, ResolverActs, ToInstall, ToDeliver, ToPutBack, ToRecord
    <3> QED
      BY <1>0, <2>1, <2>2, <3>1, ResolverMoves DEF ResolverStep
  <2>3. CASE at' = <<"resolver", "ended">> /\ mem' = [quiet |-> TRUE, verdict |-> "port taken"]
    <3>1. ResolverAt("ended")'
      BY <2>3 DEF ResolverAt, PortRun, Serving, ResolverActs, ToInstall, ToDeliver, ToPutBack, ToRecord
    <3> QED
      BY <1>0, <2>1, <2>3, <3>1, ResolverMoves DEF ResolverStep
  <2> QED
    BY <1>1, <2>2, <2>3 DEF ReadPort53, Goto
<1>2. CASE DecideResolver
  <2> DEFINE next == IF ResolverReasons THEN "mark" ELSE IF host.stamp = None THEN "record" ELSE "ended"
             due == next = "mark"
             ran == host.running # None
             verdict == IF next = "ended" THEN "unchanged" ELSE None
  <2>1. /\ at = <<"resolver", "decide">> /\ host' = host /\ at' = <<"resolver", next>>
        /\ mem' = [due |-> due, missing |-> ~host.installed, ran |-> ran, quiet |-> mem.quiet,
                   resolv |-> host.resolv, before |-> host.dropin, changed |-> FALSE, verdict |-> verdict]
    BY <1>2 DEF DecideResolver, At, Goto
  <2>2. mem \in PortRun
    BY <2>1, ResolverIs DEF ResolverStep, ResolverAt
  <2>3. due \in BOOLEAN /\ ran \in BOOLEAN /\ (ran <=> host.running # None) /\ verdict \in {None, "unchanged"}
    OBVIOUS
  <2>4. next = "mark" \/ (~ResolverReasons /\ next = "record" /\ ~due) \/ (~ResolverReasons /\ next = "ended" /\ verdict = "unchanged")
    OBVIOUS
  <2> HIDE DEF next, ran, due, verdict
  <2>5. /\ mem' \in ResolverRun /\ mem'.due = due /\ mem'.missing = ~host.installed /\ mem'.ran = ran /\ mem'.resolv = host.resolv
        /\ mem'.before = host.dropin /\ mem'.changed = FALSE /\ mem'.verdict = verdict
    BY <1>0, <2>1, <2>2, <2>3 DEF ResolverRun, ResolverHost, PortRun
  <2>6. CASE next = "mark"
    <3>1. ran => host.installed
      BY <1>0, <2>3 DEF RunsInstalled
    <3>2. ResolverAt("mark")'
      BY <2>1, <2>3, <2>5, <3>1 DEF ResolverAt, Knows, Undisturbed, ResolverActs, ToInstall, ToDeliver, ToPutBack, ToRecord
    <3> QED
      BY <1>0, <2>1, <2>6, <3>2, ResolverMoves DEF ResolverStep, ResolverActs, ToInstall
  <2>7. CASE ~ResolverReasons /\ next = "record" /\ ~due
    <3>1. host.running # None /\ host.masked /\ host.anchor /\ host.dropin = host.wanted
      BY <2>7 DEF ResolverReasons
    <3>2. ResolverAt("record")'
      BY <2>1, <2>3, <2>5, <2>7, <3>1 DEF ResolverAt, Knows, Undisturbed, ResolverActs, ToInstall, ToDeliver, ToPutBack, ToRecord
    <3> QED
      BY <1>0, <2>1, <2>7, <3>2, ResolverMoves DEF ResolverStep, ResolverActs
  <2>8. CASE ~ResolverReasons /\ next = "ended" /\ verdict = "unchanged"
    <3>1. Serving'
      BY <2>1, <2>5, <2>8 DEF Serving
    <3>2. ResolverAt("ended")'
      BY <2>5, <3>1 DEF ResolverAt, ResolverActs, ToInstall, ToDeliver, ToPutBack, ToRecord
    <3> QED
      BY <1>0, <2>1, <2>8, <3>2, ResolverMoves DEF ResolverStep
  <2> QED
    BY <2>4, <2>6, <2>7, <2>8
<1> QED
  BY <1>1, <1>2

\* A step of a run that acts, to a step that acts.
LEMMA ResolverGoesOn ==
  ASSUME NEW step \in ResolverActs, at' = <<"resolver", step>>, host' \in ResolverHost, RunsInstalled(host'),
         mem' \in ResolverRun, Knows(step)', mem'.quiet => Undisturbed(step)'
  PROVE  ResolverInv'
<1>1. ResolverAt(step)'
  BY DEF ResolverAt, ResolverActs, ToInstall, ToDeliver, ToPutBack, ToRecord
<1> QED
  BY <1>1, ResolverMoves DEF ResolverStep

LEMMA ResolverActing ==
  ASSUME ResolverInv, NEW step \in ResolverActs, at = <<"resolver", step>>
  PROVE  host \in ResolverHost /\ RunsInstalled(host) /\ mem \in ResolverRun /\ Knows(step) /\ (mem.quiet => Undisturbed(step))
BY ResolverIs DEF ResolverStep, ResolverAt

LEMMA ResolverInstalls == ASSUME ResolverInv, MarkResolver \/ MaskUnit \/ InstallPackages PROVE ResolverInv'
<1> USE DEF ResolverActs, ToInstall, ToDeliver, ToPutBack, ToRecord
<1>1. CASE MarkResolver
  <2>1. at = <<"resolver", "mark">> /\ at' = <<"resolver", "mask">> /\ mem' = mem /\ host' = [host EXCEPT !.stamp = NoLines]
    BY <1>1 DEF MarkResolver, ResolverTo, Act, At, Goto
  <2>2. host \in ResolverHost /\ RunsInstalled(host) /\ mem \in ResolverRun /\ Knows("mark") /\ (mem.quiet => Undisturbed("mark"))
    BY <2>1, ResolverActing
  <2>3. NoLines \in [dropin : Dropin, anchor : BOOLEAN \cup {None}]
    BY DEF NoLines, Dropin
  <2>4. /\ host' \in ResolverHost /\ host'.installed = host.installed /\ host'.running = host.running /\ host'.dropin = host.dropin
        /\ host'.resolv = host.resolv
    BY <2>1, <2>2, <2>3 DEF ResolverHost
  <2>5. RunsInstalled(host') /\ Knows("mask")' /\ (mem.quiet => Undisturbed("mask")')
    BY <2>1, <2>2, <2>4 DEF RunsInstalled, Knows, Undisturbed
  <2> QED
    BY <2>1, <2>2, <2>4, <2>5, ResolverGoesOn
<1>2. CASE MaskUnit
  <2>1. at = <<"resolver", "mask">> /\ at' = <<"resolver", "install">> /\ mem' = mem /\ host' = [host EXCEPT !.masked = TRUE]
    BY <1>2 DEF MaskUnit, ResolverTo, Act, At, Goto
  <2>2. host \in ResolverHost /\ RunsInstalled(host) /\ mem \in ResolverRun /\ Knows("mask") /\ (mem.quiet => Undisturbed("mask"))
    BY <2>1, ResolverActing
  <2>3. /\ host' \in ResolverHost /\ host'.installed = host.installed /\ host'.running = host.running /\ host'.dropin = host.dropin
        /\ host'.resolv = host.resolv /\ host'.masked
    BY <2>1, <2>2 DEF ResolverHost
  <2>4. RunsInstalled(host') /\ Knows("install")' /\ (mem.quiet => Undisturbed("install")')
    BY <2>1, <2>2, <2>3 DEF RunsInstalled, Knows, Undisturbed
  <2> QED
    BY <2>1, <2>2, <2>3, <2>4, ResolverGoesOn
<1>3. CASE InstallPackages
  <2> DEFINE r == Loaded(host)
             v == IF host.masked THEN host.resolv ELSE "unbound"
             h == [host EXCEPT !.installed = TRUE, !.running = r, !.resolv = v]
  <2>1. at = <<"resolver", "install">> /\ at' = <<"resolver", "anchor">> /\ mem' = mem /\ host' = IF ~mem.missing THEN host ELSE h
    BY <1>3 DEF InstallPackages, ResolverTo, Act, At, Goto
  <2>2. host \in ResolverHost /\ RunsInstalled(host) /\ mem \in ResolverRun /\ Knows("install") /\ (mem.quiet => Undisturbed("install"))
    BY <2>1, ResolverActing
  <2>3. r \in Dropin \cup {0} /\ v \in {"own", "unbound"} /\ (host.masked => v = host.resolv)
    BY <2>2, Answering DEF ResolverHost
  <2> HIDE DEF r, v
  <2>4. /\ h \in ResolverHost /\ h.installed /\ h.dropin = host.dropin /\ h.resolv = v /\ h.masked = host.masked
    BY <2>2, <2>3 DEF ResolverHost
  <2> HIDE DEF h
  <2>5. /\ host' \in ResolverHost /\ host'.installed /\ host'.dropin = host.dropin /\ host'.masked = host.masked
        /\ (host.masked => host'.resolv = host.resolv) /\ (~mem.missing => host'.running = host.running)
    BY <2>1, <2>2, <2>3, <2>4 DEF Knows
  <2>6. RunsInstalled(host') /\ Knows("anchor")'
    BY <2>5 DEF RunsInstalled, Knows
  <2>7. mem.quiet => Undisturbed("anchor")'
    BY <2>1, <2>2, <2>5 DEF Knows, Undisturbed
  <2> QED
    BY <2>1, <2>2, <2>5, <2>6, <2>7, ResolverGoesOn
<1> QED
  BY <1>1, <1>2, <1>3

LEMMA ResolverDelivers == ASSUME ResolverInv, BootstrapAnchor \/ DeliverDropin PROVE ResolverInv'
<1> USE DEF ResolverActs, ToInstall, ToDeliver, ToPutBack, ToRecord
<1>1. CASE BootstrapAnchor
  <2>1. PICK works \in BOOLEAN :
          /\ ResolverTo("anchor", IF works THEN "dropin" ELSE "ended")
          /\ host' = [host EXCEPT !.anchor = @ \/ works] /\ (host.anchor => works)
          /\ IF works THEN UNCHANGED mem ELSE ResolverEnds("failed")
    BY <1>1 DEF BootstrapAnchor
  <2>2. at = <<"resolver", "anchor">>
    BY <2>1 DEF ResolverTo, Act, At
  <2>3. host \in ResolverHost /\ RunsInstalled(host) /\ mem \in ResolverRun /\ Knows("anchor") /\ (mem.quiet => Undisturbed("anchor"))
    BY <2>2, ResolverActing
  <2> DEFINE anchor == host.anchor \/ works
  <2>4. anchor \in BOOLEAN /\ (works => anchor)
    OBVIOUS
  <2>5. host' = [host EXCEPT !.anchor = anchor]
    BY <2>1
  <2> HIDE DEF anchor
  <2>6. /\ host' \in ResolverHost /\ host'.installed = host.installed /\ host'.running = host.running /\ host'.dropin = host.dropin
        /\ host'.resolv = host.resolv /\ host'.masked = host.masked /\ host'.anchor = anchor
    BY <2>3, <2>4, <2>5 DEF ResolverHost
  <2>7. RunsInstalled(host')
    BY <2>3, <2>6 DEF RunsInstalled
  <2>8. CASE works
    <3>1. at' = <<"resolver", "dropin">> /\ mem' = mem
      BY <2>1, <2>8 DEF ResolverTo, Act, Goto
    <3>2. Knows("dropin")' /\ (mem.quiet => Undisturbed("dropin")')
      BY <2>3, <2>4, <2>6, <2>8, <3>1 DEF Knows, Undisturbed
    <3> QED
      BY <2>3, <2>6, <2>7, <3>1, <3>2, ResolverGoesOn
  <2>9. CASE ~works
    <3>1. at' = <<"resolver", "ended">> /\ ResolverEnds("failed")
      BY <2>1, <2>9 DEF ResolverTo, Act, Goto
    <3>2. mem.quiet => host'.resolv = mem.resolv
      BY <2>3, <2>6 DEF Undisturbed
    <3> QED
      BY <2>3, <2>6, <2>7, <3>1, <3>2, ResolverStops
  <2> QED
    BY <2>8, <2>9
<1>2. CASE DeliverDropin
  <2> DEFINE changed == host.dropin # host.wanted
             backup == IF changed THEN host.dropin ELSE host.backup
  <2>1. /\ at = <<"resolver", "dropin">> /\ at' = <<"resolver", "check">> /\ mem' = [mem EXCEPT !.changed = changed]
        /\ host' = [host EXCEPT !.dropin = host.wanted, !.backup = backup]
    BY <1>2 DEF DeliverDropin, ResolverTo, Act, At, Goto
  <2>2. host \in ResolverHost /\ RunsInstalled(host) /\ mem \in ResolverRun /\ Knows("dropin") /\ (mem.quiet => Undisturbed("dropin"))
    BY <2>1, ResolverActing
  <2>3. changed \in BOOLEAN /\ backup \in Dropin /\ host.wanted \in Dropin /\ (changed => backup = host.dropin)
    BY <2>2 DEF ResolverHost, Dropin
  <2> HIDE DEF changed, backup
  <2>4. /\ host' \in ResolverHost /\ host'.installed = host.installed /\ host'.running = host.running /\ host'.dropin = host.wanted
        /\ host'.resolv = host.resolv /\ host'.masked = host.masked /\ host'.anchor = host.anchor /\ host'.backup = backup
        /\ host'.wanted = host.wanted
    BY <2>1, <2>2, <2>3 DEF ResolverHost
  <2>5. /\ mem' \in ResolverRun /\ mem'.changed = changed /\ mem'.before = mem.before /\ mem'.ran = mem.ran
        /\ mem'.quiet = mem.quiet /\ mem'.resolv = mem.resolv
    BY <2>1, <2>2, <2>3 DEF ResolverRun
  <2>6. RunsInstalled(host') /\ Knows("check")' /\ (mem.quiet => Undisturbed("check")')
    BY <2>2, <2>3, <2>4, <2>5 DEF RunsInstalled, Knows, Undisturbed
  <2> QED
    BY <2>1, <2>4, <2>5, <2>6, ResolverGoesOn
<1> QED
  BY <1>1, <1>2

LEMMA ResolverChecks == ASSUME ResolverInv, CheckConf \/ PutBack PROVE ResolverInv'
<1> USE DEF ResolverActs, ToInstall, ToDeliver, ToPutBack, ToRecord
<1>1. CASE CheckConf
  <2> DEFINE next == IF host.dropin \in host.rejected THEN "put back" ELSE "restart"
  <2>1. at = <<"resolver", "check">> /\ at' = <<"resolver", next>> /\ mem' = mem /\ host' = host
    BY <1>1 DEF CheckConf, ResolverTo, Act, At, Goto
  <2>2. host \in ResolverHost /\ RunsInstalled(host) /\ mem \in ResolverRun /\ Knows("check") /\ (mem.quiet => Undisturbed("check"))
    BY <2>1, ResolverActing
  <2>3. CASE host.dropin \in host.rejected
    <3>1. Knows("put back")' /\ (mem.quiet => Undisturbed("put back")')
      BY <2>1, <2>2 DEF Knows, Undisturbed
    <3> QED
      BY <2>1, <2>2, <2>3, <3>1, ResolverGoesOn
  <2>4. CASE host.dropin \notin host.rejected
    <3>1. Knows("restart")' /\ (mem.quiet => Undisturbed("restart")')
      BY <2>1, <2>2, <2>4 DEF Knows, Undisturbed
    <3> QED
      BY <2>1, <2>2, <2>4, <3>1, ResolverGoesOn
  <2> QED
    BY <2>3, <2>4
<1>2. CASE PutBack
  <2> DEFINE h == [host EXCEPT !.dropin = host.backup, !.backup = None]
  <2>1. /\ at = <<"resolver", "put back">> /\ at' = <<"resolver", "ended">> /\ ResolverEnds("put back")
        /\ host' = IF mem.changed THEN h ELSE host
    BY <1>2 DEF PutBack, ResolverTo, Act, At, Goto
  <2>2. host \in ResolverHost /\ RunsInstalled(host) /\ mem \in ResolverRun /\ Knows("put back") /\ (mem.quiet => Undisturbed("put back"))
    BY <2>1, ResolverActing
  <2>3. h \in ResolverHost /\ h.installed = host.installed /\ h.running = host.running /\ h.resolv = host.resolv /\ h.dropin = host.backup
    BY <2>2 DEF ResolverHost, Dropin
  <2> HIDE DEF h
  <2>4. host' \in ResolverHost /\ host'.installed = host.installed /\ host'.running = host.running /\ host'.resolv = host.resolv
    BY <2>1, <2>2, <2>3
  <2>5. RunsInstalled(host')
    BY <2>2, <2>4 DEF RunsInstalled
  <2>6. mem.quiet => host'.resolv = mem.resolv
    BY <2>2, <2>4 DEF Undisturbed
  <2>7. mem.quiet /\ mem.changed => host'.dropin = mem.before /\ (mem.ran => host'.running # None)
    BY <2>1, <2>2, <2>3, <2>4 DEF Undisturbed
  <2> QED
    BY <2>1, <2>2, <2>4, <2>5, <2>6, <2>7, ResolverStops
<1> QED
  BY <1>1, <1>2

LEMMA ResolverRestarts == ASSUME ResolverInv, RestartUnbound \/ AskResolver \/ RecordResolver PROVE ResolverInv'
<1> USE DEF ResolverActs, ToInstall, ToDeliver, ToPutBack, ToRecord
<1>1. CASE RestartUnbound
  <2> DEFINE h == IF mem.changed THEN [host EXCEPT !.backup = None] ELSE host
             r == IF mem.changed \/ mem.missing \/ ~mem.ran THEN Loaded(h) ELSE h.running
             e == [h EXCEPT !.running = r]
  <2>1. /\ at = <<"resolver", "restart">> /\ at' = <<"resolver", "resolv">> /\ mem' = mem
        /\ host' = IF mem.changed \/ mem.missing \/ ~mem.ran THEN [h EXCEPT !.running = Loaded(h)] ELSE h
    BY <1>1 DEF RestartUnbound, ResolverTo, Act, At, Goto
  <2>2. host \in ResolverHost /\ mem \in ResolverRun /\ Knows("restart") /\ (mem.quiet => Undisturbed("restart"))
    BY <2>1, ResolverActing
  <2>3. /\ h \in ResolverHost /\ h.installed = host.installed /\ h.dropin = host.dropin /\ h.rejected = host.rejected
        /\ h.wanted = host.wanted /\ h.resolv = host.resolv /\ h.masked = host.masked /\ h.anchor = host.anchor
    BY <2>2 DEF ResolverHost, Dropin
  <2> HIDE DEF h
  <2>4. r \in Dropin \cup {0}
    BY <2>3, Answering DEF ResolverHost
  <2>5. host' = e
    BY <2>1, <2>3 DEF ResolverHost
  <2> HIDE DEF r
  <2>6. /\ host' \in ResolverHost /\ host'.installed = host.installed /\ host'.dropin = host.dropin /\ host'.rejected = host.rejected
        /\ host'.wanted = host.wanted /\ host'.resolv = host.resolv /\ host'.masked = host.masked /\ host'.anchor = host.anchor
    BY <2>3, <2>4, <2>5 DEF ResolverHost
  <2>7. RunsInstalled(host') /\ Knows("resolv")' /\ (mem.quiet => Undisturbed("resolv")')
    BY <2>1, <2>2, <2>6 DEF RunsInstalled, Knows, Undisturbed
  <2> QED
    BY <2>1, <2>2, <2>6, <2>7, ResolverGoesOn
<1>2. CASE AskResolver
  <2>1. at = <<"resolver", "resolv">> /\ host' = host
    BY <1>2 DEF AskResolver, At
  <2>2. host \in ResolverHost /\ RunsInstalled(host) /\ mem \in ResolverRun /\ Knows("resolv") /\ (mem.quiet => Undisturbed("resolv"))
    BY <2>1, ResolverActing
  <2>3. CASE host.running # None /\ Goto("resolver", "record") /\ UNCHANGED mem
    <3>1. Knows("record")' /\ (mem.quiet => Undisturbed("record")')
      BY <2>1, <2>2, <2>3 DEF Knows, Undisturbed
    <3> QED
      BY <2>1, <2>2, <2>3, <3>1, ResolverGoesOn DEF Goto
  <2>4. CASE Goto("resolver", "ended") /\ ResolverEnds("failed")
    BY <2>1, <2>2, <2>4, ResolverStops DEF Goto, Undisturbed
  <2> QED
    BY <1>2, <2>3, <2>4 DEF AskResolver
<1>3. CASE RecordResolver
  <2>1. /\ at = <<"resolver", "record">> /\ at' = <<"resolver", "ended">> /\ mem' = [mem EXCEPT !.verdict = "done"]
        /\ host' = [host EXCEPT !.stamp = ResolverLines]
    BY <1>3 DEF RecordResolver, ResolverTo, ResolverEnds, Act, At, Goto
  <2>2. host \in ResolverHost /\ RunsInstalled(host) /\ mem \in ResolverRun /\ (mem.quiet => Undisturbed("record"))
    BY <2>1, ResolverActing
  <2>3. ResolverLines \in [dropin : Dropin, anchor : BOOLEAN \cup {None}]
    BY <2>2 DEF ResolverLines, ResolverHost
  <2>4. /\ host' \in ResolverHost /\ host'.installed = host.installed /\ host'.dropin = host.dropin /\ host'.rejected = host.rejected
        /\ host'.wanted = host.wanted /\ host'.resolv = host.resolv /\ host'.masked = host.masked /\ host'.anchor = host.anchor
        /\ host'.running = host.running /\ host'.stamp = ResolverLines
    BY <2>1, <2>2, <2>3 DEF ResolverHost
  <2>5. mem' \in ResolverRun /\ mem'.verdict = "done" /\ mem'.quiet = mem.quiet /\ mem'.due = mem.due /\ mem'.resolv = mem.resolv
    BY <2>1, <2>2 DEF ResolverRun
  <2>6. RunsInstalled(host')
    BY <2>2, <2>4 DEF RunsInstalled
  <2>7. ResolverLines' = ResolverLines
    BY <2>4 DEF ResolverLines
  <2>8. mem.quiet => Serving'
    BY <2>2, <2>4, <2>5, <2>7 DEF Serving, Undisturbed
  <2>9. ResolverAt("ended")'
    BY <2>5, <2>8 DEF ResolverAt
  <2> QED
    BY <2>1, <2>4, <2>6, <2>9, ResolverMoves DEF ResolverStep
<1> QED
  BY <1>1, <1>2, <1>3

LEMMA ResolverWorldKeeps == ASSUME ResolverInv, ResolverDisturbed PROVE ResolverInv'
<1>0. host \in ResolverHost /\ RunsInstalled(host)
  BY DEF ResolverInv
<1>1. PICK step \in ResolverStep : at = <<"resolver", step>> /\ ResolverAt(step)
  BY DEF ResolverInv
<1>2. at' = at /\ mem' = IF step = "idle" THEN None ELSE [mem EXCEPT !.quiet = FALSE]
  BY <1>1 DEF ResolverDisturbed, Disturbed
<1>3. host' \in ResolverHost /\ host'.installed = host.installed /\ RunsInstalled(host')
  <2> DEFINE loads == IF host.installed THEN Loaded(host) ELSE None
  <2>1. loads \in Dropin \cup {0} /\ (~host.installed => loads = None)
    BY <1>0, Answering DEF Dropin
  <2> HIDE DEF loads
  <2>2. CASE host' \in {[host EXCEPT !.running = None], [host EXCEPT !.masked = FALSE], [host EXCEPT !.running = loads]}
    <3>1. CASE host' = [host EXCEPT !.masked = FALSE]
      BY <1>0, <3>1 DEF ResolverHost, RunsInstalled
    <3>2. ASSUME NEW r \in {None, loads}, host' = [host EXCEPT !.running = r]
          PROVE  host' \in ResolverHost /\ host'.installed = host.installed /\ RunsInstalled(host')
      <4>1. r \in Dropin \cup {0} /\ (~host.installed => r = None)
        BY <2>1, <3>2 DEF Dropin
      <4> QED
        BY <1>0, <3>2, <4>1 DEF ResolverHost, RunsInstalled
    <3> QED
      BY <2>2, <3>1, <3>2
  <2>3. CASE host' = [host EXCEPT !.dropin = Odd]
    BY <1>0, <2>3 DEF ResolverHost, RunsInstalled, Dropin
  <2>4. CASE host' = [host EXCEPT !.holders = {"foreign"}]
    BY <1>0, <2>4 DEF ResolverHost, RunsInstalled
  <2>5. CASE \E r \in SUBSET Text : host' = [host EXCEPT !.rejected = r]
    BY <1>0, <2>5 DEF ResolverHost, RunsInstalled
  <2>6. CASE \E t \in Text : host' = [host EXCEPT !.wanted = t]
    BY <1>0, <2>6 DEF ResolverHost, RunsInstalled
  <2> QED
    BY <2>2, <2>3, <2>4, <2>5, <2>6 DEF ResolverDisturbed, loads
<1>4. ResolverAt(step)'
  <2>1. CASE step = "idle"
    BY <2>1 DEF ResolverAt, ResolverActs, ToInstall, ToDeliver, ToPutBack, ToRecord
  <2>2. CASE step = "decide"
    <3>1. mem' \in PortRun
      BY <1>1, <1>2, <2>2 DEF ResolverAt, PortRun
    <3> QED
      BY <2>2, <3>1 DEF ResolverAt, ResolverActs, ToInstall, ToDeliver, ToPutBack, ToRecord
  <2>3. CASE step = "ended"
    <3>1. mem' \in ResolverRun \cup PortRun /\ ~mem'.quiet
      <4>1. CASE mem \in PortRun
        BY <1>2, <2>3, <4>1 DEF PortRun
      <4>2. CASE mem \in ResolverRun
        BY <1>2, <2>3, <4>2 DEF ResolverRun
      <4> QED
        BY <1>1, <2>3, <4>1, <4>2 DEF ResolverAt
    <3> QED
      BY <2>3, <3>1 DEF ResolverAt, ResolverActs, ToInstall, ToDeliver, ToPutBack, ToRecord
  <2>4. CASE step \in ResolverActs
    <3>1. step # "idle" /\ mem \in ResolverRun /\ Knows(step)
      BY <1>1, <2>4 DEF ResolverAt, ResolverActs, ToInstall, ToDeliver, ToPutBack, ToRecord
    <3>2. mem' \in ResolverRun /\ ~mem'.quiet /\ mem'.missing = mem.missing /\ mem'.ran = mem.ran
      BY <1>2, <3>1 DEF ResolverRun
    <3>3. Knows(step)'
      BY <1>3, <3>1, <3>2 DEF Knows
    <3> QED
      BY <2>4, <3>2, <3>3 DEF ResolverAt, ResolverActs, ToInstall, ToDeliver, ToPutBack, ToRecord
  <2> QED
    BY <2>1, <2>2, <2>3, <2>4 DEF ResolverStep
<1> QED
  BY <1>1, <1>2, <1>3, <1>4, ResolverMoves

LEMMA ResolverIsInductive ==
  (ResolverInit => ResolverInv) /\ (ResolverInv /\ [ResolverNext]_programVars => ResolverInv')
<1>1. ASSUME ResolverInit PROVE ResolverInv
  <2>1. PICK wanted \in Text, rejected \in SUBSET Text, dropin \in {None} \cup Text, byHand \in BOOLEAN,
             holders \in {{"stub"}, {"stub", "foreign"}} :
          host = [holders |-> holders, wanted |-> wanted, rejected |-> rejected, dropin |-> dropin, backup |-> None,
                  installed |-> byHand, anchor |-> byHand, masked |-> byHand, resolv |-> "own", stamp |-> None,
                  running |-> IF ~byHand \/ dropin \in rejected \/ "foreign" \in holders THEN None
                              ELSE IF dropin = None THEN 0 ELSE dropin]
    BY <1>1 DEF ResolverInit
  <2> DEFINE running == IF ~byHand \/ dropin \in rejected \/ "foreign" \in holders THEN None
                        ELSE IF dropin = None THEN 0 ELSE dropin
  <2>2. running \in Dropin \cup {0} /\ (~byHand => running = None)
    BY DEF Dropin
  <2>3. host = [holders |-> holders, wanted |-> wanted, rejected |-> rejected, dropin |-> dropin, backup |-> None,
                installed |-> byHand, anchor |-> byHand, masked |-> byHand, resolv |-> "own", stamp |-> None,
                running |-> running]
    BY <2>1
  <2> HIDE DEF running
  <2>4. host \in ResolverHost /\ RunsInstalled(host)
    BY <2>2, <2>3 DEF ResolverHost, RunsInstalled, Dropin
  <2> QED
    BY <1>1, <2>4 DEF ResolverInit, ResolverInv, ResolverAt, ResolverStep, ResolverActs, ToInstall, ToDeliver, ToPutBack, ToRecord
<1>2. ASSUME ResolverInv, ResolverForget \/ ResolverDies PROVE ResolverInv'
  <2>1. at' = <<"resolver", "idle">> /\ host' = host
    BY <1>2 DEF ResolverForget, ResolverDies, ResolverTo, Act, Goto
  <2>2. ResolverAt("idle")'
    BY DEF ResolverAt, ResolverActs, ToInstall, ToDeliver, ToPutBack, ToRecord
  <2> QED
    BY <1>2, <2>1, <2>2, ResolverMoves DEF ResolverInv, ResolverStep
<1>3. ASSUME ResolverInv, UNCHANGED programVars PROVE ResolverInv'
  <2>1. host' = host /\ mem' = mem /\ at' = at
    BY <1>3 DEF programVars
  <2>2. PICK step \in ResolverStep : at = <<"resolver", step>> /\ ResolverAt(step)
    BY <1>3 DEF ResolverInv
  <2>3. Knows(step) => Knows(step)'
    BY <2>1 DEF Knows
  <2>4. Undisturbed(step) => Undisturbed(step)'
    BY <2>1 DEF Undisturbed
  <2>5. Serving => Serving'
    BY <2>1 DEF Serving, ResolverLines
  <2>6. ResolverAt(step)'
    BY <2>1, <2>2, <2>3, <2>4, <2>5 DEF ResolverAt
  <2> QED
    BY <1>3, <2>1, <2>2, <2>6, ResolverMoves DEF ResolverInv
<1> QED
  BY <1>1, <1>2, <1>3, ResolverDecides, ResolverInstalls, ResolverDelivers, ResolverChecks, ResolverRestarts, ResolverWorldKeeps
  DEF ResolverNext

LEMMA ResolverInvGives == ResolverInv => ResolverServes /\ at[1] = "resolver"
<1>1. SUFFICES ASSUME ResolverInv PROVE ResolverServes /\ at[1] = "resolver"
  OBVIOUS
<1>2. at[1] = "resolver"
  BY <1>1 DEF ResolverInv
<1>3. ASSUME at = <<"resolver", "ended">> PROVE ResolverAt("ended")
  BY <1>1, <1>3, ResolverIs DEF ResolverStep
<1> QED
  BY <1>2, <1>3 DEF ResolverServes, ResolverAt, Serving, At

---------------------------------------------------------------------------
(* Stalwart's .env, and the three programs of the stack side by side.      *)

MintInv == /\ at \in {"mint"} \X {"idle", "create", "write", "ended"}
           /\ at = <<"mint", "write">> => host.env = Odd

LEMMA MintIsInductive ==
  /\ MintInit => MintInv
  /\ MintInv /\ [MintNext]_programVars => MintInv' /\ (host.env \in Text => host' = host)
<1>1. MintInit => MintInv
  BY DEF MintInit, MintInv
<1>2. None \notin Text /\ Odd \notin Text
  BY TextAssumption
<1>3. ASSUME MintInv, ReadText \/ CreateExclusive \/ WriteSecret
      PROVE  MintInv' /\ (host.env \in Text => host' = host)
  <2>1. CASE ReadText
    BY <2>1 DEF ReadText, MintInv, Goto
  <2>2. CASE CreateExclusive
    <3>1. CASE host.env = None
      BY <1>2, <2>2, <3>1 DEF CreateExclusive, MintInv, Goto
    <3>2. CASE host.env # None
      BY <2>2, <3>2 DEF CreateExclusive, MintInv, Goto
    <3> QED
      BY <3>1, <3>2
  <2>3. CASE WriteSecret
    <3>1. at = <<"mint", "write">> /\ at' = <<"mint", "ended">>
      BY <2>3 DEF WriteSecret, Act, At, Goto
    <3> QED
      BY <1>2, <1>3, <3>1 DEF MintInv
  <2> QED
    BY <1>3, <2>1, <2>2, <2>3
<1>4. ASSUME MintInv, MintForget \/ MintDies
      PROVE  MintInv' /\ (host.env \in Text => host' = host)
  BY <1>4 DEF MintForget, MintDies, MintInv, Act, Goto
<1>5. ASSUME MintInv, OwnerPastes
      PROVE  MintInv' /\ (host.env \in Text => host' = host)
  BY <1>2, <1>5 DEF OwnerPastes, MintInv
<1>6. ASSUME MintInv, UNCHANGED programVars
      PROVE  MintInv' /\ (host.env \in Text => host' = host)
  BY <1>6 DEF MintInv, programVars
<1> QED
  BY <1>1, <1>3, <1>4, <1>5, <1>6 DEF MintNext

\* A step of a program is taken where that program stands.
LEMMA StackTurns ==
  (ClassNext => at[1] = "class") /\ (ResolverNext => at[1] = "resolver") /\ (MintNext => at[1] = "mint")
<1>1. ClassNext => at[1] = "class"
  <2>1. ASSUME NEW from, NEW to, ClassTo(from, to) PROVE at[1] = "class"
    BY <2>1 DEF ClassTo, Act, At
  <2>2. ASSUME NEW step, At("class", step) PROVE at[1] = "class"
    BY <2>2 DEF At
  <2>3. RenderEnv \/ MarkClass \/ PlaceCompose \/ PlaceCaddyfile => at[1] = "class"
    BY <2>1 DEF RenderEnv, MarkClass, PlaceCompose, PlaceCaddyfile
  <2>4. BringUp => at[1] = "class"
    BY <2>1 DEF BringUp
  <2>5. ReadStale \/ RecordClass \/ ClassForget => at[1] = "class"
    BY <2>1 DEF ReadStale, RecordClass, ClassForget
  <2>6. DecideClass \/ Recreate \/ ReadBackClass => at[1] = "class"
    BY <2>2 DEF DecideClass, Recreate, ReadBackClass
  <2>7. ClassDies \/ ClassDisturbed => at[1] = "class"
    BY DEF ClassDies, ClassDisturbed
  <2> QED
    BY <2>3, <2>4, <2>5, <2>6, <2>7 DEF ClassNext
<1>2. ResolverNext => at[1] = "resolver"
  <2>1. ASSUME NEW from, NEW to, ResolverTo(from, to) PROVE at[1] = "resolver"
    BY <2>1 DEF ResolverTo, Act, At
  <2>2. ASSUME NEW step, At("resolver", step) PROVE at[1] = "resolver"
    BY <2>2 DEF At
  <2>3. MarkResolver \/ MaskUnit \/ InstallPackages \/ DeliverDropin \/ CheckConf => at[1] = "resolver"
    BY <2>1 DEF MarkResolver, MaskUnit, InstallPackages, DeliverDropin, CheckConf
  <2>4. BootstrapAnchor => at[1] = "resolver"
    BY <2>1 DEF BootstrapAnchor
  <2>5. PutBack \/ RestartUnbound \/ RecordResolver \/ ResolverForget => at[1] = "resolver"
    BY <2>1 DEF PutBack, RestartUnbound, RecordResolver, ResolverForget
  <2>6. ReadPort53 \/ DecideResolver \/ AskResolver => at[1] = "resolver"
    BY <2>2 DEF ReadPort53, DecideResolver, AskResolver
  <2>7. ResolverDies \/ ResolverDisturbed => at[1] = "resolver"
    BY DEF ResolverDies, ResolverDisturbed
  <2> QED
    BY <2>3, <2>4, <2>5, <2>6, <2>7 DEF ResolverNext
<1>3. MintNext => at[1] = "mint"
  BY DEF MintNext, ReadText, CreateExclusive, WriteSecret, MintForget, MintDies, OwnerPastes, Act, At
<1> QED
  BY <1>1, <1>2, <1>3

StackInv == ClassInv \/ ResolverInv \/ MintInv
StackInit == ClassInit \/ ResolverInit \/ MintInit
StackNext == ClassNext \/ ResolverNext \/ MintNext
StackSpec == StackInit /\ [][StackNext]_programVars

LEMMA StackIsInductive ==
  /\ StackInit => StackInv
  /\ StackInv /\ [StackNext]_programVars =>
       StackInv' /\ (at[1] = "mint" /\ host.env \in Text => host' = host)
<1>1. StackInit => StackInv
  BY ClassIsInductive, ResolverIsInductive, MintIsInductive DEF StackInit, StackInv
<1>2. CASE UNCHANGED programVars
  <2>1. host' = host
    BY <1>2 DEF programVars
  <2> QED
    BY <1>1, <1>2, <2>1, ClassIsInductive, ResolverIsInductive, MintIsInductive DEF StackInv
<1>3. CASE ClassInv /\ StackNext
  <2>1. ClassNext /\ at[1] = "class"
    BY <1>3, StackTurns, ClassInvGives DEF StackNext
  <2> QED
    BY <1>1, <1>3, <2>1, ClassIsInductive DEF StackInv
<1>4. CASE ResolverInv /\ StackNext
  <2>1. ResolverNext /\ at[1] = "resolver"
    BY <1>4, StackTurns, ResolverInvGives DEF StackNext
  <2> QED
    BY <1>1, <1>4, <2>1, ResolverIsInductive DEF StackInv
<1>5. CASE MintInv /\ StackNext
  <2>1. at[1] = "mint"
    BY <1>5 DEF MintInv
  <2>2. MintNext
    BY <1>5, <2>1, StackTurns DEF StackNext
  <2> QED
    BY <1>1, <1>5, <2>2, MintIsInductive DEF StackInv
<1> QED
  BY <1>1, <1>2, <1>3, <1>4, <1>5 DEF StackInv

LEMMA StackInvGives == StackInv => StackHolds
<1>1. ClassInv => StackHolds
  <2>1. at[1] = "class" => ~At("resolver", "ended")
    BY DEF At
  <2> QED
    BY <2>1, ClassInvGives DEF StackHolds, ResolverServes
<1>2. ResolverInv => StackHolds
  <2>1. at[1] = "resolver" => ClassRunsItsFiles
    BY DEF ClassRunsItsFiles, At
  <2> QED
    BY <2>1, ResolverInvGives DEF StackHolds
<1>3. MintInv => StackHolds
  <2>1. MintInv => at[1] = "mint"
    BY DEF MintInv
  <2>2. at[1] = "mint" => ~At("class", "ended") /\ ~At("resolver", "ended")
    BY DEF At
  <2> QED
    BY <2>1, <2>2 DEF StackHolds, ClassRunsItsFiles, ResolverServes
<1> QED
  BY <1>1, <1>2, <1>3 DEF StackInv

\* The stack's classes, for any versions of their texts: a run that nothing disturbed and that
\* calls a class converged leaves what it says, whatever earlier runs died half way.
THEOREM ConvergedIsConverged == StackSpec => []StackHolds
<1>1. StackInv /\ [StackNext]_programVars => StackInv'
  BY StackIsInductive
<1> QED
  BY <1>1, StackIsInductive, StackInvGives, PTL DEF StackSpec

\* Stalwart's secret, once it is there, is never replaced, by whichever run or hand.
THEOREM SecretIsKept == StackSpec => SecretIsMadeOnce
<1>1. StackInv /\ [StackNext]_programVars => StackInv'
  BY StackIsInductive
<1>2. StackInv /\ [StackNext]_programVars => [KeepsSecret]_programVars
  BY StackIsInductive DEF KeepsSecret
<1> QED
  BY <1>1, <1>2, StackIsInductive, PTL DEF StackSpec, SecretIsMadeOnce
=============================================================================
