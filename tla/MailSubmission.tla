--------------------------- MODULE MailSubmission ---------------------------
(***************************************************************************)
(* The submission credentials on the mail host: an app password that the   *)
(* server shows once, a file of label:secret lines that is only appended   *)
(* to, and, for the mail collector, the two expressions that hold it to    *)
(* its domains. One behaviour is of one script, of the website, of Zitadel *)
(* or of the collector, under its own label.                               *)
(*                                                                         *)
(* Program "shim" renders the mail shim's environment from the same file.  *)
(***************************************************************************)
EXTENDS Program

CONSTANTS Passwords,  \* secrets that may be issued, a number
          Labels      \* labels of the shim's contracts: one is minted here, the others elsewhere

ASSUME PasswordsAssumption == Passwords \in Nat \ {0} /\ {None, Odd} \cap Labels = {}

\* scope: the sender-domain rule ("domains") and the exemption from the exact-address rule
\* ("exempt"), as the server has them stored, and as it had them at its last restart.
Rules == {"domains", "exempt"}
Submission == [script : {"website", "zitadel", "collector"}, account : BOOLEAN,
               live : {None} \cup Nat, issued : Nat,           \* the app password the server takes, and how many it has shown
               lines : Seq(Nat),                               \* the secrets under the label
               stored : SUBSET Rules, loaded : SUBSET Rules,
               foreign : BOOLEAN]                              \* an expression no script of these wrote
SubmissionInit ==
  /\ at = <<"submit", "idle">> /\ mem = None /\ faults = 0
  /\ \E account, foreign \in BOOLEAN, script \in {"website", "zitadel", "collector"} :
       host = [script |-> script, account |-> account, live |-> None, issued |-> 0, lines |-> <<>>, stored |-> {},
               loaded |-> {}, foreign |-> foreign]

\* The first line under the label is the one that is read.
Recorded == IF host.lines = <<>> THEN None ELSE host.lines[1]
SubmitEnds(from, verdict) == Act("submit", from, "ended") /\ mem' = [mem EXCEPT !.verdict = verdict]
SubmitFails(from) == /\ At("submit", from) /\ Fault /\ Goto("submit", "ended")
                     /\ mem' = [mem EXCEPT !.verdict = "failed"]

StartSubmission ==
  /\ Act("submit", "idle", "plan") /\ UNCHANGED host
  /\ mem' = [changed |-> FALSE, secret |-> None, verdict |-> None]

MutStaleRecord == FALSE
\* A record whose credential is gone from the server.
StaleRecord == Recorded # None /\ host.live = None
\* What each script refuses before its first write. The website's has no account of its own, and
\* would append a new secret behind a stale record.
WebsiteRefuses == ~host.account
ZitadelRefuses == host.foreign \/ StaleRecord
CollectorRefuses == host.foreign \/ StaleRecord
SubmissionRefused == CASE host.script = "website" -> WebsiteRefuses
                       [] host.script = "zitadel" -> ZitadelRefuses
                       [] host.script = "collector" -> CollectorRefuses
\* Every read and every refusal comes before the first write.
PlanSubmission ==
  /\ At("submit", "plan") /\ UNCHANGED host
  /\ IF SubmissionRefused THEN SubmitEnds("plan", "refused")
     ELSE IF host.live # None /\ Recorded = None THEN SubmitEnds("plan", "orphaned")
     ELSE /\ Act("submit", "plan", IF host.script = "collector" THEN "domains" ELSE "account")
          /\ UNCHANGED mem

StoreRule(rule, from, to) ==
  /\ At("submit", from)
  /\ \/ rule \in host.stored /\ Act("submit", from, to) /\ UNCHANGED <<mem, host>>
     \/ /\ rule \notin host.stored
        /\ \/ /\ Act("submit", from, to) /\ mem' = [mem EXCEPT !.changed = TRUE]
              /\ host' = [host EXCEPT !.stored = @ \cup {rule}]
           \/ /\ SubmitFails(from) /\ host' \in {host, [host EXCEPT !.stored = @ \cup {rule}]}
MutSetSenderDomains == StoreRule("exempt", "domains", "exempt")
\* The domain rule first, so the collector is never exempt without being held to its domains.
SetSenderDomains == StoreRule("domains", "domains", "exempt")
SetMustMatch == StoreRule("exempt", "exempt", "restart")
RestartToLoad ==
  /\ At("submit", "restart")
  /\ \/ ~mem.changed /\ Act("submit", "restart", "account") /\ UNCHANGED <<mem, host>>
     \/ /\ mem.changed
        /\ \/ Act("submit", "restart", "account") /\ UNCHANGED mem /\ host' = [host EXCEPT !.loaded = host.stored]
           \/ SubmitFails("restart") /\ host' \in {host, [host EXCEPT !.loaded = host.stored]}

CreateAccount ==
  /\ At("submit", "account")
  /\ \/ Act("submit", "account", "password") /\ UNCHANGED mem /\ host' = [host EXCEPT !.account = TRUE]
     \/ SubmitFails("account") /\ host' \in {host, [host EXCEPT !.account = TRUE]}
CreatePassword ==
  /\ At("submit", "password")
  /\ \/ host.live # None /\ Act("submit", "password", "check") /\ UNCHANGED <<mem, host>>
     \/ /\ host.live = None /\ host.issued < Passwords
        /\ host' = [host EXCEPT !.issued = @ + 1, !.live = host.issued + 1]
        /\ \/ Act("submit", "password", "record") /\ mem' = [mem EXCEPT !.secret = host.issued + 1]
           \/ SubmitFails("password")
RecordSecret ==
  /\ Act("submit", "record", "check") /\ UNCHANGED mem
  /\ host' = [host EXCEPT !.lines = Append(@, mem.secret)]
CheckStored ==
  /\ At("submit", "check") /\ UNCHANGED host
  /\ SubmitEnds("check", IF host.script = "collector" /\ host.stored # Rules THEN "failed" ELSE "provisioned")
SubmitForget == Act("submit", "ended", "idle") /\ mem' = None /\ UNCHANGED host

\* --revoke: the server's credential first, its record after.
StartRevoke == /\ Act("submit", "idle", "destroy") /\ host.script # "website" /\ UNCHANGED host
               /\ mem' = [changed |-> FALSE, secret |-> None, verdict |-> None]
DestroyPassword ==
  /\ At("submit", "destroy")
  /\ \/ Act("submit", "destroy", "unrecord") /\ UNCHANGED mem /\ host' = [host EXCEPT !.live = None]
     \/ SubmitFails("destroy") /\ host' \in {host, [host EXCEPT !.live = None]}
RemoveRecord == SubmitEnds("unrecord", "revoked") /\ host' = [host EXCEPT !.lines = <<>>]

SubmitDies ==
  /\ at[1] = "submit" /\ at[2] \notin {"idle", "ended"} /\ Fault /\ Goto("submit", "idle")
  /\ mem' = None /\ UNCHANGED host
\* The runbook's way out of an orphaned credential.
DestroyByHand ==
  /\ At("submit", "idle") /\ Fault /\ UNCHANGED <<at, mem>>
  /\ host.live # None /\ host' = [host EXCEPT !.live = None]

SubmitNext == \/ StartSubmission \/ PlanSubmission \/ SetSenderDomains \/ SetMustMatch \/ RestartToLoad
              \/ CreateAccount \/ CreatePassword \/ RecordSecret \/ CheckStored \/ SubmitForget
              \/ StartRevoke \/ DestroyPassword \/ RemoveRecord \/ SubmitDies
              \/ DestroyByHand
SubmissionSpec == SubmissionInit /\ [][SubmitNext]_programVars

---------------------------------------------------------------------------
\* The collector is never let off the exact-address rule without being held to its domains, in
\* what the server has stored and in what it runs, whatever failed in between.
NeverUnscoped ==
  at[1] = "submit" => \A rules \in {host.stored, host.loaded} : "exempt" \in rules => "domains" \in rules

\* After a provisioning run that says so, the secret a reader of the file gets is the one the
\* server takes: a stale line under the label "would otherwise shadow the new secret". The
\* website's script does not look for one, and is left out.
RecordedIsLive ==
  at[1] = "submit" /\ at[2] = "ended" /\ mem.verdict = "provisioned" /\ host.script # "website" =>
    host.live # None /\ Recorded = host.live

---------------------------------------------------------------------------
(* render_shim_env.py: the pinned image's digest names a contract, the contract a label. *)
ShimLine == (Labels \X (0..Passwords)) \cup {Odd}  \* 0: an empty secret; Odd: no label at all
ShimInit ==
  /\ at = <<"shim", "idle">> /\ mem = None /\ faults = 0
  /\ \E lines \in {<<>>} \cup {<<l>> : l \in ShimLine}, minted \in Labels :
       host = [lines |-> lines, minted |-> minted, digest |-> None, env |-> None, issued |-> Passwords - 1]
PinImage == /\ Act("shim", "idle", "read") /\ mem' = [token |-> None, verdict |-> None]
            /\ \E l \in Labels \cup {Odd} : host' = [host EXCEPT !.digest = l]  \* Odd: in no table
ShimEnds(from, verdict) == Act("shim", from, "ended") /\ mem' = [mem EXCEPT !.verdict = verdict]
\* The places of the lines up to the one that is read: a malformed one in front of it is met first.
Holding(lines, label) == {i \in DOMAIN lines : lines[i] = Odd \/ lines[i][1] = label}
FirstLine(lines, label) == lines[First(Holding(lines, label))]
MutFound == IF host.digest = host.minted THEN {} ELSE Holding(host.lines, host.digest)  \* minted anew
Found == Holding(host.lines, host.digest)
ReadSecret ==
  /\ At("shim", "read")
  /\ IF host.digest = Odd \/ (Found # {} /\ FirstLine(host.lines, host.digest) = Odd) THEN ShimEnds("read", "refused") /\ UNCHANGED host
     ELSE IF Found # {} /\ FirstLine(host.lines, host.digest)[2] # 0
     THEN Act("shim", "read", "write") /\ mem' = [mem EXCEPT !.token = FirstLine(host.lines, host.digest)[2]] /\ UNCHANGED host
     ELSE IF Found = {} /\ host.digest = host.minted /\ host.issued < Passwords
     THEN /\ Act("shim", "read", "write") /\ mem' = [mem EXCEPT !.token = host.issued + 1]
          /\ host' = [host EXCEPT !.issued = @ + 1, !.lines = Append(@, <<host.digest, host.issued + 1>>)]
     ELSE ShimEnds("read", "refused") /\ UNCHANGED host
WriteEnv == ShimEnds("write", "wrote") /\ host' = [host EXCEPT !.env = <<host.digest, mem.token>>]
ShimForget == Act("shim", "ended", "idle") /\ mem' = None /\ UNCHANGED host
ShimDies == at[1] = "shim" /\ at[2] \in {"read", "write"} /\ Fault /\ Goto("shim", "idle") /\ mem' = None
            /\ UNCHANGED host
ShimNext == PinImage \/ ReadSecret \/ WriteEnv \/ ShimForget \/ ShimDies

\* The shim is started with the secret the file records under its own image's label, never an
\* empty one, and a token that was minted is kept through failures and images.
ShimEnvIsRecorded ==
  at[1] = "shim" /\ host.env # None =>
    /\ host.env[2] # 0 /\ Holding(host.lines, host.env[1]) # {}
    /\ FirstLine(host.lines, host.env[1]) = host.env

---------------------------------------------------------------------------
(* check_collector_sender_scope.py: one session, one sender to accept and one to refuse. *)
Answers == {"ok", "deferred", "refused"}
ScopeInit == /\ at = <<"scope", "accept">> /\ mem = [accept |-> "refused", rest |-> "refused", refuse |-> "ok"]
             /\ faults = 0 /\ host \in [rules : SUBSET Rules]
\* The server defers whomever it likes; else its rules decide, for a sender that is not the
\* account's own address: of the collector's domains, or of the main one.
Taken(domain) == "exempt" \in host.rules /\ ("domains" \in host.rules => domain = "collector")
Reply(domain) == {"deferred", IF Taken(domain) THEN "ok" ELSE "refused"}
OfferInScope == /\ Act("scope", "accept", "deliver") /\ UNCHANGED host
                /\ \E a \in Reply("collector") : mem' = [mem EXCEPT !.accept = a]
DeliverInScope == /\ Act("scope", "deliver", "refuse") /\ UNCHANGED host
                  /\ \E a \in Answers : mem' = [mem EXCEPT !.rest = IF mem.accept = "ok" THEN a ELSE @]
OfferMainDomain == /\ Act("scope", "refuse", "ended") /\ UNCHANGED host
                   /\ \E a \in Reply("main") : mem' = [mem EXCEPT !.refuse = a]
ScopeNext == OfferInScope \/ DeliverInScope \/ OfferMainDomain
MutScopePasses == mem.accept = "ok" /\ mem.rest = "ok" /\ mem.refuse # "ok"  \* a deferral for a refusal
ScopePasses == mem.accept = "ok" /\ mem.rest = "ok" /\ mem.refuse = "refused"

\* A pass proves both rules loaded: the accepted sender can only have got in through the domain
\* rule, and a refusal with neither rule in force "proves nothing".
PassProvesScope == at = <<"scope", "ended">> /\ ScopePasses => host.rules = Rules

\* The submission credentials: held to their domains, recorded as they are, checked as they are used.
SubmissionHolds == NeverUnscoped /\ RecordedIsLive /\ ShimEnvIsRecorded /\ PassProvesScope
=============================================================================
