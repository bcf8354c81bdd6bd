----------------------------- MODULE Reputation -----------------------------
(***************************************************************************)
(* collect_snds_metrics.py: a timer's run fetches the sender reputation     *)
(* feed and leaves two textfiles for the metrics scrape, the reputation     *)
(* (kept through a failure) and the collector's health (rewritten by it),  *)
(* and a state file with the age of the access link. Runs are numbered,    *)
(* which is the time here. A row of the feed is abstracted to what the     *)
(* parser tells apart: its first field reads as a name, is no address, or  *)
(* is an address, with or without a status or a rate.                      *)
(***************************************************************************)
EXTENDS Program

CONSTANTS Ticks,   \* how many runs
          Links    \* access links the owner may put in place

Rows == {"named", "no address", "bare", "read"}
Feed == UNION {[1..n -> Rows] : n \in 0..2}
StateFile == [link : Links \cup {None}, seen : (1..Ticks) \cup {None}, last : (1..Ticks) \cup {None}]

\* A link is one, and None is no feed, no state file and no answer.
ASSUME LinkAssumption ==
  Ticks \in Nat /\ {None, Odd} \cap Links = {} /\ {None, Odd} \cap StateFile = {} /\ None \notin Feed /\ None # TRUE

Replies == {"nothing", "rejected", "markup", "error"}
NoHealth == [success |-> None, link |-> None, data |-> None, last |-> None]

ReputationInit ==
  /\ at = <<"snds", "idle">> /\ mem = None /\ faults = 0
  /\ \E l \in Links : host = [link |-> l, url |-> TRUE, now |-> 0, reputation |-> None, health |-> NoHealth,
                              state |-> None, writable |-> TRUE, first |-> [k \in Links |-> 0]]  \* first run that used a link

StateHas(link) == host.state # None /\ host.state # Odd /\ host.state.link = link
LastSuccess == IF host.state \in {None, Odd} THEN None ELSE host.state.last

\* The link's age is what the state file has for this very link; else it begins now, if that
\* can be written down.
MutLinkState == [seen |-> IF StateHas(host.link) THEN host.state.seen ELSE host.now + 1, kept |-> TRUE]
LinkState == IF StateHas(host.link) THEN [seen |-> host.state.seen, kept |-> TRUE]
             ELSE [seen |-> IF host.writable THEN host.now + 1 ELSE None, kept |-> FALSE]
StartCollect ==
  /\ At("snds", "idle") /\ host.now < Ticks /\ Act("snds", "idle", IF host.url THEN "fetch" ELSE "publish")
  /\ mem' = [seen |-> IF host.url THEN LinkState.seen ELSE None, last |-> IF host.url THEN LastSuccess ELSE None,
             exit |-> 1, data |-> None, feed |-> None]
  /\ host' = [host EXCEPT !.now = @ + 1,
       !.state = IF host.url /\ ~LinkState.kept /\ host.writable
                 THEN [link |-> host.link, seen |-> host.now + 1, last |-> LastSuccess] ELSE @,
       !.first[host.link] = IF host.url /\ @ = 0 THEN host.now + 1 ELSE @]

\* A 404 is the answer that there is nothing, not a failure; all else but a feed is one.
RecordSuccess(h) == [h EXCEPT !.state = IF ~host.writable THEN @
                                        ELSE IF @ \in {None, Odd} THEN [link |-> None, seen |-> None, last |-> h.now]
                                        ELSE [@ EXCEPT !.last = h.now]]
CollectEnds(exit, data, last) == mem' = [mem EXCEPT !.exit = exit, !.data = data, !.last = last]
FetchFeed ==
  /\ At("snds", "fetch")
  /\ \/ /\ Act("snds", "fetch", "parse") /\ UNCHANGED host /\ \E f \in Feed : mem' = [mem EXCEPT !.feed = f]
     \/ \E reply \in Replies :
          /\ Act("snds", "fetch", "publish")
          /\ IF reply = "nothing" THEN CollectEnds(0, FALSE, host.now) /\ host' = RecordSuccess(host)
             ELSE UNCHANGED <<mem, host>>

\* A name in front of the first row that is not one is a header's.
Header(f) == {i \in DOMAIN f : \A j \in 1..i : f[j] = "named"}
DataLines(f) == DOMAIN f \ Header(f)
Records(f) == {i \in DataLines(f) : f[i] \in {"bare", "read"}}
EveryLineSkipped(f) == DataLines(f) # {} /\ Records(f) = {}
NothingReadable(f) == Records(f) # {} /\ \A i \in Records(f) : f[i] = "bare"
MutParseFeed ==  \* whatever could be parsed is published
  /\ Act("snds", "parse", "publish")
  /\ CollectEnds(0, Records(mem.feed) # {}, host.now) /\ host' = RecordSuccess([host EXCEPT !.reputation = mem.feed])
ParseFeed ==
  /\ Act("snds", "parse", "publish")
  /\ IF EveryLineSkipped(mem.feed) \/ NothingReadable(mem.feed) THEN UNCHANGED <<mem, host>>
     ELSE IF host.writable THEN /\ CollectEnds(0, Records(mem.feed) # {}, host.now)
                                /\ host' = RecordSuccess([host EXCEPT !.reputation = mem.feed])
     ELSE mem' = [mem EXCEPT !.exit = 1, !.seen = None, !.last = None] /\ UNCHANGED host
\* Health is written however the run ended, unless it cannot be.
PublishHealth ==
  /\ Act("snds", "publish", "ended") /\ UNCHANGED mem
  /\ host' = IF host.writable
             THEN [host EXCEPT !.health = [success |-> mem.exit = 0, link |-> mem.seen, data |-> mem.data, last |-> mem.last]]
             ELSE host
CollectForget == Act("snds", "ended", "idle") /\ mem' = None /\ UNCHANGED host
CollectDies == /\ at[1] = "snds" /\ at[2] \in {"fetch", "parse", "publish"} /\ Fault /\ Goto("snds", "idle")
               /\ mem' = None /\ UNCHANGED host
\* The owner rotates or drops the link; the state file or the directory is spoilt.
SndsChanges ==
  /\ At("snds", "idle") /\ Fault /\ UNCHANGED <<at, mem>>
  /\ \/ \E l \in Links : host' = [host EXCEPT !.link = l, !.url = TRUE]
     \/ host' \in {[host EXCEPT !.url = FALSE], [host EXCEPT !.writable = ~@], [host EXCEPT !.state = Odd]}
ReputationNext == StartCollect \/ FetchFeed \/ ParseFeed \/ PublishHealth \/ CollectForget \/ CollectDies \/ SndsChanges
ReputationSpec == ReputationInit /\ [][ReputationNext]_programVars

---------------------------------------------------------------------------
\* A failing run keeps the last real reading and says so: what is published is a snapshot some
\* alert can read, or an empty one; success is claimed only for the run that earned it, and the
\* rows are there when they are said to be.
ReadingIsKept ==
  at[1] = "snds" =>
    /\ host.reputation # None => ~EveryLineSkipped(host.reputation) /\ ~NothingReadable(host.reputation)
    /\ At("snds", "ended") /\ host.writable =>
         /\ host.health.success = (mem.exit = 0) /\ (mem.exit = 0 => host.health.last = host.now)
         /\ host.health.data = TRUE => host.reputation = mem.feed /\ Records(mem.feed) # {}

\* The expiry alert is never early and never falsely quiet: a published age is not from before
\* the link was first used, is kept from run to run through failures, and is not published when
\* it cannot be kept.
LinkAgeIsTrue ==
  At("snds", "ended") /\ host.writable /\ host.health.link # None =>
    /\ host.health.link >= host.first[host.link]
    /\ StateHas(host.link) /\ host.health.link = host.state.seen

\* "A response whose every row failed validation is not a quiet day, and writing it out would
\* replace real reputation values with an empty file": a feed whose rows no longer begin with an
\* address, reordered, is a failed run and leaves the reading that was there.
ReorderIsNoQuietDay ==
  At("snds", "ended") /\ mem.feed # None /\ Len(mem.feed) > 1 /\ (\A i \in DOMAIN mem.feed : mem.feed[i] \in {"named", "no address"}) =>
    mem.exit = 1

\* The reading and the age of the link survive days on which there is no feed.
ReputationHolds == ReadingIsKept /\ LinkAgeIsTrue
=============================================================================
