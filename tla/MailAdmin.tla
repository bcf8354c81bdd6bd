----------------------------- MODULE MailAdmin -----------------------------
(***************************************************************************)
(* The mail server's administrator credential and its settings: what       *)
(* configure_stalwart.py and rotate_admin_credential.py do through the     *)
(* server's management API, any call of which may be refused or lose its   *)
(* answer, beside the one file that holds the credential.                  *)
(*                                                                         *)
(* Program "unblock" is the choice list_and_clear_blocked_ips.py makes.    *)
(***************************************************************************)
EXTENDS Program

CONSTANTS Settings,     \* the settings a run reconciles, in their order: a sequence of names
          Masked,       \* the setting that is not read back as it was written
          Secrets,      \* administrator secrets that may be issued, a number
          Addresses, Reasons

ASSUME SettingsAssumption == Secrets \in Nat /\ Settings \in Seq({Settings[i] : i \in DOMAIN Settings})

\* wizard: the server is not set up yet, or not restarted since. secret: what opens it.
\* lost: a secret was issued and its run cut off before it could save it.
MailServer == [wizard : BOOLEAN, secret : 0..Secrets, file : {None} \cup 1..Secrets,
               lost : BOOLEAN, stored : [{Settings[i] : i \in DOMAIN Settings} -> {"drift", "set"}],
               loaded : [{Settings[i] : i \in DOMAIN Settings} -> {"drift", "set"}]]
MailInit ==
  /\ at = <<"mail", "idle">> /\ mem = None /\ faults = 0
  /\ LET drift == [s \in {Settings[i] : i \in DOMAIN Settings} |-> "drift"]
     IN  host = [wizard |-> TRUE, secret |-> 0, file |-> None, lost |-> FALSE,
                 stored |-> drift, loaded |-> drift]

MailEnds(from, verdict) == Act("mail", from, "ended") /\ mem' = [mem EXCEPT !.verdict = verdict]
MailGoes(from, to) == Act("mail", from, to) /\ UNCHANGED mem
\* A call that fails ends the run; whether the server did what it was asked is not known.
MailCallFails(from) == /\ At("mail", from) /\ Fault /\ Goto("mail", "ended")
                       /\ mem' = [mem EXCEPT !.verdict = "failed"]
Issue == IF host.secret < Secrets THEN host.secret + 1 ELSE host.secret
Loads(h) == [h EXCEPT !.wizard = @ /\ h.secret = 0, !.loaded = h.stored]

StartConfigure ==
  /\ Act("mail", "idle", IF host.file = None THEN "wizard" ELSE "probe") /\ UNCHANGED host
  /\ mem' = [secret |-> 0, next |-> 1, changed |-> FALSE, verdict |-> None, settled |-> FALSE]
ProbeWizard ==
  /\ At("mail", "probe") /\ UNCHANGED host
  /\ IF host.wizard THEN MailGoes("probe", "wizard")
     ELSE IF host.file # host.secret THEN MailEnds("probe", "failed")
     ELSE MailGoes("probe", "settings")

\* The wizard answers with the permanent credential, once; the server takes it at its restart.
CompleteWizard ==
  /\ At("mail", "wizard")
  /\ \/ ~host.wizard /\ MailEnds("wizard", "failed") /\ UNCHANGED host
     \/ /\ host.wizard /\ host.secret < Secrets /\ host' = [host EXCEPT !.secret = Issue]
        /\ \/ Act("mail", "wizard", "save") /\ mem' = [mem EXCEPT !.secret = Issue]
           \/ MailCallFails("wizard")
MutSaveCredential ==  \* saved once the server has been restarted with it
  \/ MailGoes("save", "restart") /\ host' = [Loads(host) EXCEPT !.file = mem.secret]
  \/ MailCallFails("save") /\ host' \in {host, Loads(host)}
\* The secret is shown only once, so it is saved before anything else can fail.
SaveCredential ==
  MailGoes("save", "restart") /\ host' = [host EXCEPT !.file = mem.secret]
RestartFromWizard ==
  /\ At("mail", "restart")
  /\ \/ MailGoes("restart", "settings") /\ host' = Loads(host)
     \/ MailCallFails("restart") /\ host' \in {host, Loads(host)}

\* What is read back of a setting: the server masks or reshapes what it stores.
ReadBack(s) == IF s = Masked /\ host.stored[s] = "set" THEN "masked" ELSE host.stored[s]
MutReconciled(s) == ReadBack(s) = "set"  \* compared field by field
Reconciled(s) == ReadBack(s) \in {"set", "masked"}
ReconcileSetting ==
  /\ At("mail", "settings") /\ mem.next \in DOMAIN Settings
  /\ LET s == Settings[mem.next]
     IN  IF Reconciled(s)
         THEN Act("mail", "settings", "settings") /\ mem' = [mem EXCEPT !.next = @ + 1] /\ UNCHANGED host
         ELSE \/ /\ Act("mail", "settings", "settings") /\ host' = [host EXCEPT !.stored[s] = "set"]
                 /\ mem' = [mem EXCEPT !.next = @ + 1, !.changed = TRUE]
              \/ MailCallFails("settings") /\ host' \in {host, [host EXCEPT !.stored[s] = "set"]}
RestartIfChanged ==
  /\ At("mail", "settings") /\ mem.next \notin DOMAIN Settings
  /\ \/ ~mem.changed /\ MailEnds("settings", "settled") /\ UNCHANGED host
     \/ mem.changed /\ MailEnds("settings", "settled") /\ host' = Loads(host)
     \/ mem.changed /\ MailCallFails("settings") /\ host' \in {host, Loads(host)}

\* A second run straight after one that settled everything.
RunAgain ==
  /\ Act("mail", "ended", "probe") /\ mem.verdict = "settled" /\ ~mem.settled /\ UNCHANGED host
  /\ mem' = [mem EXCEPT !.verdict = None, !.next = 1, !.changed = FALSE, !.settled = TRUE]
MailForget == Act("mail", "ended", "idle") /\ mem' = None /\ UNCHANGED host

(* rotate_admin_credential.py *)
StartRotation ==
  /\ At("mail", "idle") /\ host.file # None /\ UNCHANGED host
  /\ Act("mail", "idle", IF ~host.wizard /\ host.file = host.secret THEN "rotate" ELSE "ended")
  /\ mem' = [secret |-> Issue, next |-> 0, changed |-> FALSE, settled |-> FALSE,
             verdict |-> IF ~host.wizard /\ host.file = host.secret THEN None ELSE "failed"]
\* The call may also answer that it changed the secret and not have.
ChangeSecret ==
  /\ At("mail", "rotate")
  /\ \/ MailGoes("rotate", "verify") /\ host' = [host EXCEPT !.secret = mem.secret]
     \/ At("mail", "rotate") /\ Fault /\ Goto("mail", "verify") /\ UNCHANGED <<mem, host>>
     \/ MailCallFails("rotate") /\ host' \in {host, [host EXCEPT !.secret = mem.secret, !.lost = TRUE]}
VerifyRotation ==
  /\ At("mail", "verify")
  /\ \/ /\ host.secret = mem.secret /\ mem.secret # host.file
        /\ MailEnds("verify", "rotated") /\ host' = [host EXCEPT !.file = mem.secret]
     \/ /\ host.secret # mem.secret \/ mem.secret = host.file
        /\ MailEnds("verify", "failed") /\ UNCHANGED host
     \/ MailCallFails("verify") /\ host' = [host EXCEPT !.lost = @ \/ host.secret = mem.secret]

\* The run dies; the host with it, perhaps, and then the server restarts too.
MailDies ==
  /\ at[1] = "mail" /\ at[2] \notin {"idle", "ended"} /\ Fault /\ Goto("mail", "idle") /\ mem' = None
  /\ LET cut == [host EXCEPT !.lost = @ \/ (At("mail", "verify") /\ host.secret = mem.secret)]
     IN  host' \in {cut, [Loads(cut) EXCEPT !.lost = @ \/ (host.wizard /\ host.secret # 0
                                                          /\ host.file # host.secret)]}
MailDrifts ==
  /\ At("mail", "idle") /\ Fault /\ UNCHANGED <<at, mem>>
  /\ \E s \in DOMAIN host.stored : host' = [host EXCEPT !.stored[s] = "drift"]

MailNext == \/ StartConfigure \/ ProbeWizard \/ CompleteWizard \/ SaveCredential \/ RestartFromWizard
            \/ ReconcileSetting \/ RestartIfChanged \/ RunAgain \/ MailForget
            \/ StartRotation \/ ChangeSecret \/ VerifyRotation \/ MailDies \/ MailDrifts

---------------------------------------------------------------------------
\* The file opens the server, whatever call failed: the one way to lose the administrator is a
\* death, or a lost answer, after the server changed its secret and before the file was saved.
FileOpensServer ==
  at[1] = "mail" /\ ~host.wizard /\ ~host.lost /\ ~At("mail", "verify") => host.file = host.secret

\* A run straight after one that settled everything changes nothing, so a sequence "documented
\* as safe to re-run" does not restart production mail.
SecondRunIsIdle == at[1] = "mail" /\ mem # None => ~(mem.settled /\ mem.changed)

---------------------------------------------------------------------------
(* Which blocked entries a request clears: entries are of an address, for a reason. *)
UnblockInit ==
  /\ at = <<"unblock", "list">> /\ mem = None /\ faults = 0
  /\ host \in [blocked : SUBSET (Addresses \X Reasons), ips : SUBSET Addresses,
               reasons : SUBSET Reasons, all : BOOLEAN]
  /\ host.blocked # {} /\ \A d, e \in host.blocked : d[1] = e[1] => d = e
ByIp == {e \in host.blocked : e[1] \in host.ips}
ByReason == {e \in host.blocked : e[2] \in host.reasons}
MutSelectIds ==  \* a selector that matches hides one that does not
  IF host.all THEN host.blocked ELSE ByIp \cup ByReason
SelectIds ==
  CASE host.all -> IF host.ips \cup host.reasons = {} THEN host.blocked ELSE {}
    [] ~host.all /\ host.ips # {e[1] : e \in ByIp} -> {}
    [] ~host.all /\ host.reasons # {} /\ ByReason = {} -> {}
    [] OTHER -> ByIp \cup ByReason
ClearBlocked == /\ Act("unblock", "list", "ended") /\ mem' = SelectIds /\ UNCHANGED host

\* A request that clears anything clears what each of its selectors names, and nothing else:
\* no address asked for is passed over, no reason that matches nothing is masked.
ClearsWhatWasAsked ==
  at = <<"unblock", "ended">> /\ mem # {} =>
    \/ host.all /\ host.ips = {} /\ host.reasons = {} /\ mem = host.blocked
    \/ /\ ~host.all /\ mem = {e \in host.blocked : e[1] \in host.ips \/ e[2] \in host.reasons}
       /\ \A a \in host.ips : \E e \in mem : e[1] = a
       /\ host.reasons # {} => \E e \in mem : e[2] \in host.reasons

\* The administrator's account, the settings and the blocklist, over runs and rotations.
AdminHolds == FileOpensServer /\ SecondRunIsIdle /\ ClearsWhatWasAsked
=============================================================================
