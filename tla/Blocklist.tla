----------------------------- MODULE Blocklist -----------------------------
(***************************************************************************)
(* check_dnsbl_blocklist.py: the hourly check of the mail host's address   *)
(* against the DNS blocklists, what it logs, and what it tells the         *)
(* Healthchecks check, whose silence or failure is what reaches a person.  *)
(* The zones change while a run asks them. Program "answer" is the reading *)
(* of one DNS response.                                                    *)
(***************************************************************************)
EXTENDS Program

CONSTANTS Zones    \* the blocklists, a sequence, asked in this order

ZoneSet == {Zones[i] : i \in DOMAIN Zones}
ASSUME ZonesAssumption == Zones \in Seq(ZoneSet)
ASSUME SignalAssumption == None \notin {"stale", "up", "down"}
\* listing: the zone lists our address. mood: how it answers a query.
ZoneState == [listing : BOOLEAN, mood : {"answers", "dead", "blocked", "silent"}]
Nobody == [z \in ZoneSet |-> "not listed"]
BlocklistInit ==
  /\ at = <<"dnsbl", "idle">> /\ mem = None /\ faults = 0
  /\ \E z \in [ZoneSet -> ZoneState], url \in {"set", "unset", "refused"}, addresses \in {1, 2} :
       host = [zone |-> z, url |-> url, addresses |-> addresses, state |-> Nobody, check |-> None]

\* What a lookup comes back with: the sentinel is in every list that works.
Lookup(z, listed) == CASE host.zone[z].mood = "answers" -> IF listed THEN "listed" ELSE "not listed"
                       [] host.zone[z].mood = "dead" -> "not listed"
                       [] host.zone[z].mood = "blocked" -> "query error"
                       [] host.zone[z].mood = "silent" -> "failed"
MutEvaluate(sentinel, target) == target  \* the self-test left out
Evaluate(sentinel, target) == IF sentinel # "listed" THEN "unresponsive" ELSE target

\* A run that cannot tell one address to check, or read its state, is a crash; one without a
\* readable state file starts afresh.
StartCheck ==
  /\ Act("dnsbl", "idle", IF host.addresses = 1 THEN "sentinel" ELSE "report")
  /\ host' = [host EXCEPT !.check = IF @ = None THEN None ELSE "stale"]
  /\ mem' = [next |-> 1, sentinel |-> None, previous |-> IF host.state = Odd THEN Nobody ELSE host.state,
             verdict |-> Nobody, truth |-> [z \in ZoneSet |-> "unasked"], crashed |-> host.addresses # 1, errors |-> {}, exit |-> None]
Asked == Zones[mem.next]
AskSentinel ==
  /\ At("dnsbl", "sentinel") /\ mem.next \in DOMAIN Zones
  /\ Act("dnsbl", "sentinel", "target") /\ mem' = [mem EXCEPT !.sentinel = Lookup(Asked, TRUE)]
  /\ UNCHANGED host
AskTarget ==
  /\ At("dnsbl", "target")
  /\ LET answer == Lookup(Asked, host.zone[Asked].listing)
     IN  /\ Act("dnsbl", "target", "sentinel") /\ UNCHANGED host
         /\ mem' = [mem EXCEPT !.next = @ + 1, !.verdict[Asked] = Evaluate(mem.sentinel, answer),
                               !.truth[Asked] = IF mem.sentinel # "listed" THEN "untested"
                                                ELSE IF host.zone[Asked].mood # "answers" THEN "turned"
                                                ELSE answer]
SaveState ==
  /\ At("dnsbl", "sentinel") /\ mem.next \notin DOMAIN Zones
  /\ \/ Act("dnsbl", "sentinel", "report") /\ host' = [host EXCEPT !.state = mem.verdict] /\ UNCHANGED mem
     \/ /\ At("dnsbl", "sentinel") /\ Fault /\ Goto("dnsbl", "report") /\ UNCHANGED host
        /\ mem' = [mem EXCEPT !.crashed = TRUE]

\* An alert is a zone with its marker: a listing, new or not, or an inconclusive answer.
MutAlerts == {<<z, "new">> : z \in {y \in ZoneSet : mem.verdict[y] = "listed" /\ mem.previous[y] # "listed"}}
Alerts == {<<z, CASE mem.verdict[z] # "listed" -> "inconclusive"
                  [] mem.previous[z] = "listed" -> "still"
                  [] OTHER -> "new">> : z \in {y \in ZoneSet : mem.verdict[y] # "not listed"}}
\* A 2xx that is not plainly OK is a ping that was not recorded, as is one with no answer.
Forward(failed) ==
  \/ /\ host.url = "set" /\ UNCHANGED faults
     /\ host' = [host EXCEPT !.check = IF failed THEN "down" ELSE "up"]
  \/ (host.url # "set" /\ UNCHANGED <<faults, host>>) \/ (host.url = "set" /\ Fault /\ UNCHANGED host)
ReportRun ==
  /\ At("dnsbl", "report") /\ Goto("dnsbl", "ended")
  /\ LET found == IF mem.crashed THEN {"crash"} ELSE Alerts
     IN  /\ Forward(found # {})
         /\ mem' = [mem EXCEPT !.errors = found, !.exit = IF found = {} THEN 0 ELSE 1]
CheckForget == Act("dnsbl", "ended", "idle") /\ mem' = None /\ UNCHANGED host
CheckDies == /\ at[1] = "dnsbl" /\ at[2] \in {"sentinel", "target", "report"} /\ Fault /\ Goto("dnsbl", "idle")
             /\ mem' = None /\ UNCHANGED host
\* A zone turns, also while it is being asked; the state file is spoilt.
ZoneTurns ==
  /\ at[1] = "dnsbl" /\ Fault /\ UNCHANGED <<at, mem>>
  /\ \/ \E z \in ZoneSet, s \in ZoneState : host' = [host EXCEPT !.zone[z] = s]
     \/ host' = [host EXCEPT !.state = Odd]
BlocklistNext == StartCheck \/ AskSentinel \/ AskTarget \/ SaveState \/ ReportRun \/ CheckForget \/ CheckDies \/ ZoneTurns

---------------------------------------------------------------------------
\* A run that calls the address clean, and pings so, asked every zone and was told so by each
\* that works; only a zone that turned between its self-test and the question can deceive it.
CleanIsClean ==
  at = <<"dnsbl", "ended">> /\ mem.exit = 0 => \A z \in ZoneSet : mem.truth[z] \in {"not listed", "turned"}

\* Whatever a run finds is in the journal and fails the run, each list by its own line, and the
\* check never shows green for it: it fails, or keeps what an earlier run said, which goes stale.
FindingIsHeard ==
  at = <<"dnsbl", "ended">> =>
    /\ ~mem.crashed => \A z \in ZoneSet : mem.verdict[z] # "not listed" => \E m \in {"new", "still", "inconclusive"} : <<z, m>> \in mem.errors
    /\ (mem.exit = 1) = (mem.errors # {}) /\ (mem.exit = 1 => host.check # "up")

---------------------------------------------------------------------------
(* The reading of a response: whose it is, its code, and its records one after the other. *)
Responses ==
  [ours : BOOLEAN, question : {"ours", "other", "none"}, code : {"ok", "nxdomain", "servfail"},
   truncated : BOOLEAN, records : UNION {[1..n -> {"A", "error A", "other", "cut"}] : n \in 0..2}]
AnswerInit == at = <<"answer", "read">> /\ mem = None /\ faults = 0 /\ host \in Responses
Has(kind) == \E i \in DOMAIN host.records : host.records[i] = kind
MutParseResponse ==  \* an answer that did not fit read as it stands
  IF ~host.ours \/ host.question = "other" \/ host.code = "servfail" \/ Has("cut") THEN "failed"
  ELSE IF host.code # "nxdomain" /\ Has("A") THEN "listed" ELSE "not listed"
ParseResponse ==
  IF ~host.ours \/ host.question = "other" THEN "failed"
  ELSE IF host.code = "nxdomain" THEN "not listed"
  ELSE IF host.code # "ok" \/ Has("cut") THEN "failed"
  ELSE IF Has("A") THEN "listed"
  ELSE IF Has("error A") THEN "query error"
  ELSE IF host.truncated THEN "failed" ELSE "not listed"
ReadResponse == Act("answer", "read", "ended") /\ mem' = ParseResponse /\ UNCHANGED host

BlocklistSpec == (BlocklistInit \/ AnswerInit) /\ [][BlocklistNext \/ ReadResponse]_programVars

\* "A lookup that proves nothing must never be mistaken for a clean one": not listed is only
\* what the server's own word for our question says, whole and without an address in it.
UnprovenIsNotClean ==
  at = <<"answer", "ended">> /\ mem = "not listed" =>
    /\ host.ours /\ host.question # "other"
    /\ \/ host.code = "nxdomain"
       \/ host.code = "ok" /\ ~host.truncated /\ \A i \in DOMAIN host.records : host.records[i] = "other"

\* No answer that proves nothing is taken for a clean one, and no finding goes unheard.
BlocklistHolds == CleanIsClean /\ FindingIsHeard /\ UnprovenIsNotClean
=============================================================================
