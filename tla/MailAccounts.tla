---------------------------- MODULE MailAccounts ----------------------------
(***************************************************************************)
(* The mailboxes and their copies (provision_mailboxes.py), and a sending  *)
(* domain with its DKIM key (provision_sending_domain.py): what is missing *)
(* is created through calls that may be refused, half done, or done with   *)
(* their answer lost, and a later run takes up what an earlier one left.   *)
(***************************************************************************)
EXTENDS Program

CONSTANTS Mailboxes,   \* the mailboxes a run creates, in their order: a sequence
          BoxSecrets   \* passwords that may be generated, a number

Boxes == {Mailboxes[i] : i \in DOMAIN Mailboxes}
\* A mailbox is listed once.
ASSUME MailboxesAssumption ==
  Mailboxes \in Seq(Boxes) /\ \A i, j \in DOMAIN Mailboxes : Mailboxes[i] = Mailboxes[j] => i = j
\* A mailbox's forwarding script: none, as wanted, edited; active or not.
Script == {"none", "wanted", "edited", "idle"}
BoxInit ==
  /\ at = <<"boxes", "idle">> /\ mem = None /\ faults = 0
  /\ \E there \in SUBSET Boxes, s \in {"none", "edited", "idle"} :
       host = [accounts |-> [b \in Boxes |-> IF b \in there THEN Odd ELSE None],  \* Odd: made by hand
               recorded |-> [b \in Boxes |-> None], used |-> 0, script |-> [b \in Boxes |-> s]]

BoxFails(from) == At("boxes", from) /\ Fault /\ Goto("boxes", "idle") /\ mem' = None
Box == Mailboxes[mem.next]
StartBoxes == /\ Act("boxes", "idle", "account") /\ UNCHANGED host
              /\ mem' = [next |-> 1, secret |-> None,
                         missing |-> {b \in Boxes : host.accounts[b] = None}, recorded |-> host.recorded]

MutResolveSecret == host.used + 1  \* a fresh one every time
\* A secret already on disk is the one an earlier create may have used.
ResolveSecret == IF mem.recorded[Box] # None THEN mem.recorded[Box] ELSE host.used + 1
SkipAccount ==
  /\ At("boxes", "account") /\ mem.next \in DOMAIN Mailboxes /\ Box \notin mem.missing
  /\ Act("boxes", "account", "account") /\ mem' = [mem EXCEPT !.next = @ + 1] /\ UNCHANGED host
\* The secret is on disk before the call that uses it.
RecordBoxSecret ==
  /\ At("boxes", "account") /\ mem.next \in DOMAIN Mailboxes /\ Box \in mem.missing
  /\ ResolveSecret <= BoxSecrets
  /\ Act("boxes", "account", "create") /\ mem' = [mem EXCEPT !.secret = ResolveSecret]
  /\ host' = [host EXCEPT !.recorded[Box] = IF mem.recorded[Box] = None THEN ResolveSecret ELSE @,
                          !.used = IF ResolveSecret = @ + 1 THEN @ + 1 ELSE @]
CreateBox ==
  /\ At("boxes", "create")
  /\ LET made == [host EXCEPT !.accounts[Box] = mem.secret, !.script[Box] = "none"]
     IN  \/ Act("boxes", "create", "account") /\ mem' = [mem EXCEPT !.next = @ + 1] /\ host' = made
         \/ BoxFails("create") /\ host' \in {host, made}
BoxesCreated == /\ At("boxes", "account") /\ mem.next \notin DOMAIN Mailboxes
                /\ Act("boxes", "account", "forward") /\ mem' = [mem EXCEPT !.next = 1] /\ UNCHANGED host

MutPlanScript(script) == script \in {"none", "idle"}  \* presence, not content
\* Created, corrected or activated: whatever is not the wanted script, active, is made so.
PlanScript(script) == script # "wanted"
ReconcileScript ==
  /\ At("boxes", "forward") /\ mem.next \in DOMAIN Mailboxes
  /\ LET forwarded == IF PlanScript(host.script[Box]) THEN [host EXCEPT !.script[Box] = "wanted"] ELSE host
     IN  \/ Act("boxes", "forward", "forward") /\ mem' = [mem EXCEPT !.next = @ + 1] /\ host' = forwarded
         \/ BoxFails("forward") /\ host' \in {host, forwarded}
BoxesDone == /\ At("boxes", "forward") /\ mem.next \notin DOMAIN Mailboxes
             /\ Act("boxes", "forward", "ended") /\ UNCHANGED <<mem, host>>
BoxesForget == Act("boxes", "ended", "idle") /\ mem' = None /\ UNCHANGED host
BoxesDie == at[1] = "boxes" /\ \E from \in {"account", "create", "forward"} : BoxFails(from) /\ UNCHANGED host
ScriptEdited == /\ At("boxes", "idle") /\ Fault /\ UNCHANGED <<at, mem>>
                /\ \E b \in Boxes, s \in Script : host' = [host EXCEPT !.script[b] = s]

BoxNext == \/ StartBoxes \/ SkipAccount \/ RecordBoxSecret \/ CreateBox \/ BoxesCreated \/ ReconcileScript
           \/ BoxesDone \/ BoxesForget \/ BoxesDie \/ ScriptEdited

---------------------------------------------------------------------------
\* No mailbox has a password that never reached the disk: whichever call failed, and whether or
\* not it was applied, the recorded secret is the one the server took.
RecordedOpensBox ==
  at[1] = "boxes" => \A b \in Boxes : host.accounts[b] \notin {None, Odd} => host.recorded[b] = host.accounts[b]

\* After a whole run every mailbox is there and copies on, whatever earlier runs left half done.
BoxesForward ==
  at = <<"boxes", "ended">> => \A b \in Boxes : host.accounts[b] # None /\ host.script[b] = "wanted"

---------------------------------------------------------------------------
(* A sending domain: how the server manages its keys, and the stage of each selector's key. *)
Selectors == {"ours", "other"}
Stages == {"none", "pending", "active"}
SendingInit ==
  /\ at = <<"sending", "idle">> /\ mem = None /\ faults = 0
  /\ host \in [domain : {"none", "Manual", "Automatic"}, key : [Selectors -> Stages], made : {FALSE}]
  /\ host.domain = "none" => host.key = [s \in Selectors |-> "none"]

SendingEnds(from, verdict) == Act("sending", from, "ended") /\ mem' = verdict
\* A run of its own first: an absent domain is created with its key in one request.
MutPlanKey == host.key["ours"] = "none"  \* a key under our selector is all that is looked for
PlanKey == /\ host.key = [s \in Selectors |-> "none"] /\ host.domain = "Manual"
PlanSending ==
  /\ At("sending", "idle") /\ UNCHANGED host
  /\ CASE host.domain = "none" -> Act("sending", "idle", "set") /\ mem' = "both"
       [] host.domain # "none" /\ host.key["ours"] = "active" -> Act("sending", "idle", "read") /\ mem' = "noop"
       [] host.domain # "none" /\ host.key["ours"] # "active" /\ PlanKey -> Act("sending", "idle", "set") /\ mem' = "key"
       [] OTHER -> SendingEnds("idle", "refused")
\* The server may apply the first creation and refuse the second.
SetDomain ==
  /\ At("sending", "set")
  /\ LET domain == [host EXCEPT !.domain = IF mem = "both" THEN "Manual" ELSE @, !.made = TRUE]
         whole == [domain EXCEPT !.key["ours"] = "active"]
     IN  \/ Act("sending", "set", "read") /\ UNCHANGED mem /\ host' = whole
         \/ /\ Fault /\ Goto("sending", "ended") /\ mem' = "failed" /\ host' \in {host, domain, whole}
         \/ /\ Fault /\ Goto("sending", "read") /\ UNCHANGED mem
            /\ host' = [domain EXCEPT !.key["ours"] = "pending"]
MutReadBackKey == SendingEnds("read", "records") /\ UNCHANGED host  \* printed unread
ReadBackKey ==
  /\ At("sending", "read") /\ UNCHANGED host
  /\ SendingEnds("read", IF host.key["ours"] = "active" THEN "records" ELSE "failed")
SendingForget == Act("sending", "ended", "idle") /\ mem' = None /\ UNCHANGED host
SendingNext == PlanSending \/ SetDomain \/ ReadBackKey \/ SendingForget

\* The program only ever creates: a domain whose keys the server rotates by itself, or that
\* signs under another selector, is given no key of ours.
OnlyCreates ==
  at[1] = "sending" /\ host.made => host.domain = "Manual" /\ host.key["other"] = "none"

\* Records are printed for a domain that signs with the published key, and a domain that a
\* failed run created without one is finished by the next.
PrintedIsSigned ==
  at = <<"sending", "ended">> =>
    /\ mem = "records" => host.domain # "none" /\ host.key["ours"] = "active"
    /\ mem = "refused" /\ host.made => host.key["ours"] = "pending"

\* The mailboxes and the sending domain, over partial runs.
AccountsHold == RecordedOpensBox /\ BoxesForward /\ OnlyCreates /\ PrintedIsSigned
=============================================================================
