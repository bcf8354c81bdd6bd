----------------------------- MODULE DemoSlots -----------------------------
(***************************************************************************)
(* branchleft-slot, the broker's one door to root on the demo host: start, *)
(* stop and reset of a slot (program "demo", two calls may overlap), load  *)
(* of an image archive ("load") and the count of unsent mail ("batches").  *)
(* A slot is leased to one tenant after the other; the tenant's data is in *)
(* the slot's data volume and in a content volume that only the slot's     *)
(* compose.yml names. Data is abstracted to the leases that wrote it.      *)
(***************************************************************************)
EXTENDS Program

CONSTANTS SlotCall,     \* calls that may be under way at once
          Slug,         \* the names of content volumes
          Leases        \* how many leases one behaviour sees

\* None is no call, no name of a volume and no step.
ASSUME CallAssumption == None \notin SlotCall \cup Slug \cup {"two volumes", "stop b", "name"}

Colour == {"a", "b"}
Bytes == 0..2           \* sizes of an archive; 2 is over the limit

SlotHost == [lease : {1}, compose : Slug \cup {"two volumes"}, env : {Colour}, up : SUBSET Colour,
             data : {{1}}, content : [Slug -> {{}, {1}}], lock : {None}]
DemoInit ==
  \/ /\ at = <<"demo", "run">> /\ faults = 0 /\ mem = [c \in SlotCall |-> None]
     /\ host \in SlotHost
     /\ \A s \in Slug : host.content[s] # {} => host.compose \in {s, "two volumes"}
  \/ /\ at = <<"load", "open">> /\ faults = 0 /\ mem = None
     /\ host \in [size : Bytes, kind : {"regular", "other"}, owner : {"broker", "other"},
                  read : {0}, image : {None}]
  \/ /\ at = <<"batches", "pick">> /\ faults = 0 /\ mem = None
     /\ host \in [names : 0..2, file : {"slot's", "other's", "link", "pipe", "broken"}]

---------------------------------------------------------------------------
\* start, stop and reset, each under the slot's lock for the whole of its call.

Call(c, from) == At("demo", "run") /\ UNCHANGED <<at, faults>> /\ mem[c] # None /\ mem[c].step = from
CallGoes(c, to) == mem' = [mem EXCEPT ![c].step = to]
CallEnds(c, verdict) == mem' = [mem EXCEPT ![c].step = "unlock", ![c].verdict = verdict]

\* The invocations that are legal: exactly these words, one per argument.
Invocation == [verb : {"start", "stop"}, colour : Colour] \cup [verb : {"reset"}, colour : {None}]

MutAcquire(c, verb, colour) ==  \* no lock is taken
  /\ At("demo", "run") /\ UNCHANGED <<at, faults, host>> /\ mem[c] = None
  /\ mem' = [mem EXCEPT ![c] = [verb |-> verb, step |-> IF verb = "reset" THEN "stop a" ELSE verb,
               colour |-> colour, volume |-> None, verdict |-> None]]
Acquire(c, verb, colour) ==
  /\ At("demo", "run") /\ UNCHANGED <<at, faults>> /\ mem[c] = None /\ host.lock = None
  /\ host' = [host EXCEPT !.lock = c]
  /\ mem' = [mem EXCEPT ![c] = [verb |-> verb, step |-> IF verb = "reset" THEN "stop a" ELSE verb,
               colour |-> colour, volume |-> None, verdict |-> None]]

\* A started colour serves the lease whose files are in the slot, and writes its volumes.
Served(h, colours) == [h EXCEPT !.up = colours, !.data = @ \cup {h.lease},
                                !.content[h.compose] = @ \cup {h.lease}]
StartColour(c) ==
  /\ Call(c, "start")
  /\ LET colour == mem[c].colour
     IN  IF host.compose \in Slug /\ colour \in host.env
         THEN CallEnds(c, "done") /\ host' = Served(host, host.up \cup {colour})
         ELSE CallEnds(c, "failed") /\ UNCHANGED host

StopColour(c, step, colour, next) ==
  /\ Call(c, step) /\ host' = [host EXCEPT !.up = @ \ {colour}]
  /\ IF next = None THEN CallEnds(c, "done") ELSE CallGoes(c, next)
StopOne(c) == StopColour(c, "stop", mem[c].colour, None)
StopBoth(c) == StopColour(c, "stop a", "a", "stop b") \/ StopColour(c, "stop b", "b", "name")

\* The name is read before anything is wiped: two candidates are refused, none is skipped.
ReadContentVolumeName(c) ==
  /\ Call(c, "name") /\ UNCHANGED host
  /\ IF host.compose = "two volumes" THEN CallEnds(c, "failed")
     ELSE mem' = [mem EXCEPT ![c].step = "data", ![c].volume = host.compose]

\* A volume is emptied entry by entry; a link, a mount or too deep a nest stops it halfway.
EmptyData(c) == Call(c, "data") /\ CallGoes(c, "content") /\ host' = [host EXCEPT !.data = {}]
MutEmptyContent(c) ==  \* the content volume is forgotten
  Call(c, "content") /\ CallGoes(c, "directory") /\ UNCHANGED host
EmptyContent(c) ==
  /\ Call(c, "content") /\ CallGoes(c, "directory")
  /\ host' = IF mem[c].volume = None THEN host ELSE [host EXCEPT !.content[mem[c].volume] = {}]

RemoveSlotDirectory(c) ==
  Call(c, "directory") /\ CallGoes(c, "env a") /\ host' = [host EXCEPT !.compose = None]
RemoveEnv(c) ==
  \/ Call(c, "env a") /\ CallGoes(c, "env b") /\ host' = [host EXCEPT !.env = @ \ {"a"}]
  \/ Call(c, "env b") /\ CallEnds(c, "done") /\ host' = [host EXCEPT !.env = @ \ {"b"}]

Release(c) ==
  /\ At("demo", "run") /\ UNCHANGED <<at, faults>> /\ mem[c] # None /\ mem[c].step = "unlock"
  /\ mem' = [mem EXCEPT ![c] = None] /\ host' = [host EXCEPT !.lock = None]

\* A call fails at a step, or dies there and its lock with it.
CallFails(c) ==
  /\ Fault /\ At("demo", "run") /\ UNCHANGED <<at, host>>
  /\ mem[c] # None /\ mem[c].step # "unlock" /\ CallEnds(c, "failed")

\* The broker leases the slot again once a reset has succeeded, and writes the files of
\* the new lease; systemd may restart a colour that was up by itself.
BrokerLeases(c) ==
  /\ At("demo", "run") /\ UNCHANGED <<at, faults>>
  /\ mem[c] # None /\ mem[c].step = "unlock" /\ mem[c].verb = "reset" /\ mem[c].verdict = "done"
  /\ host.lease < Leases /\ mem' = [mem EXCEPT ![c].verb = "leased"]
  /\ \E s \in Slug : host' = [host EXCEPT !.lease = @ + 1, !.compose = s, !.env = Colour]

---------------------------------------------------------------------------
\* load: the file is checked at one moment and copied afterwards.

OpenImage ==
  /\ At("load", "open") /\ UNCHANGED <<faults, host>>
  /\ IF host.kind = "regular" /\ host.size < 2 /\ host.owner = "broker"
     THEN Goto("load", "copy") /\ mem' = [size |-> host.size, verdict |-> None]
     ELSE Goto("load", "ended") /\ mem' = [size |-> host.size, verdict |-> "refused"]

\* docker gets the bytes up to the checked size; a file that ends early kills docker's group.
MutCopyBytes ==  \* a short read is taken for the end of the archive
  /\ At("load", "copy") /\ UNCHANGED faults
  /\ IF host.read < mem.size /\ host.read < host.size
     THEN host' = [host EXCEPT !.read = @ + 1] /\ UNCHANGED <<at, mem>>
     ELSE Goto("load", "docker") /\ UNCHANGED <<mem, host>>
CopyBytes ==
  /\ At("load", "copy") /\ UNCHANGED faults
  /\ IF host.read = mem.size THEN Goto("load", "docker") /\ UNCHANGED <<mem, host>>
     ELSE IF host.read < host.size
          THEN host' = [host EXCEPT !.read = @ + 1] /\ UNCHANGED <<at, mem>>
          ELSE Goto("load", "ended") /\ mem' = [mem EXCEPT !.verdict = "failed"] /\ UNCHANGED host
\* docker closes the pipe early: an exit of 0 is no success then.
PipeBreaks ==
  /\ At("load", "copy") /\ Fault /\ UNCHANGED host
  /\ Goto("load", "ended") /\ mem' = [mem EXCEPT !.verdict = "failed"]
DockerExits(code) ==
  /\ At("load", "docker") /\ Goto("load", "ended") /\ UNCHANGED faults
  /\ mem' = [mem EXCEPT !.verdict = IF code = 0 THEN "done" ELSE "failed"]
  /\ host' = [host EXCEPT !.image = IF code = 0 THEN host.read ELSE None]
BrokerRewrites ==
  /\ at[1] = "load" /\ at[2] \in {"open", "copy", "docker"} /\ Fault /\ UNCHANGED <<at, mem>>
  /\ \E n \in Bytes : host' = [host EXCEPT !.size = n]

---------------------------------------------------------------------------
\* email-batches: the count is read by a child that runs as the slot's uid, in bounded time.

MutChildUid == "root"
ChildUid == "slot"

PickDatabase ==
  /\ At("batches", "pick") /\ UNCHANGED <<faults, host>>
  /\ IF host.names = 1
     THEN Goto("batches", "open") /\ mem' = [uid |-> ChildUid, from |-> None, verdict |-> None]
     ELSE Goto("batches", "ended") /\ mem' = [uid |-> None, from |-> None, verdict |-> "refused"]
OpenDatabase ==
  /\ At("batches", "open") /\ UNCHANGED <<faults, host>>
  /\ IF host.file \in {"slot's", "broken"} THEN Goto("batches", "count") /\ UNCHANGED mem
     ELSE Goto("batches", "ended") /\ mem' = [mem EXCEPT !.verdict = "refused"]
\* sqlite opens the name again: a file put there since is read if the child's uid may read it,
\* and a pipe is waited on until the parent kills the child.
Permitted(uid, file) == file = "slot's" \/ uid = "root"
CountRows ==
  /\ Act("batches", "count", "ended") /\ UNCHANGED host
  /\ mem' = IF Permitted(mem.uid, host.file) /\ host.file \notin {"pipe", "broken"}
            THEN [mem EXCEPT !.from = host.file, !.verdict = "count"]
            ELSE [mem EXCEPT !.verdict = "refused"]
TenantSwaps ==
  /\ \E step \in {"pick", "open", "count"} : At("batches", step)
  /\ Fault /\ UNCHANGED <<at, mem>>
  /\ \E f \in {"slot's", "other's", "link", "pipe", "broken"} : host' = [host EXCEPT !.file = f]

DemoNext ==
  \/ \E c \in SlotCall :
       \/ \E i \in Invocation : Acquire(c, i.verb, i.colour)
       \/ StartColour(c) \/ StopOne(c) \/ StopBoth(c) \/ ReadContentVolumeName(c)
       \/ EmptyData(c) \/ EmptyContent(c) \/ RemoveSlotDirectory(c) \/ RemoveEnv(c)
       \/ Release(c) \/ CallFails(c) \/ BrokerLeases(c)
  \/ OpenImage \/ CopyBytes \/ PipeBreaks \/ (\E code \in 0..1 : DockerExits(code)) \/ BrokerRewrites
  \/ PickDatabase \/ OpenDatabase \/ CountRows \/ TenantSwaps
DemoSpec == DemoInit /\ [][DemoNext]_programVars

---------------------------------------------------------------------------
\* Nobody's data outlives the lease: what is in the slot's volumes belongs to the tenant
\* who has the slot, whatever resets failed, died and were repeated before the last one
\* succeeded. compose.yml, the only place that names the content volume, goes after it.
LeaseIsFresh ==
  at[1] = "demo" => /\ host.data \subseteq {host.lease}
                    /\ \A s \in Slug : host.content[s] \subseteq {host.lease}

\* No colour runs while a reset wipes ("so two reconciles cannot interleave"), and none
\* is left for the next lease.
ResetIsAlone ==
  at[1] = "demo" => \A c \in SlotCall :
    mem[c] # None /\ mem[c].verb = "reset" =>
      /\ mem[c].step \in {"name", "data", "content", "directory", "env a", "env b"} => host.up = {}
      /\ mem[c].step = "unlock" /\ mem[c].verdict = "done" => host.up = {} /\ host.env = {}

\* docker has loaded exactly the bytes that were checked, or the load is no success,
\* however the broker's file grows or shrinks meanwhile.
LoadIsWhole ==
  At("load", "ended") /\ mem.verdict = "done" => host.image = mem.size /\ mem.size < 2

\* A count that is printed comes from a database the slot's own uid may read, though the
\* tenant can swap the file between the check and the query.
CountIsOwn ==
  At("batches", "ended") /\ mem.verdict = "count" => mem.from = "slot's"

\* What the broker, the lease unit and the loader promise one another, over a slot's lifetime.
SlotsHold == LeaseIsFresh /\ ResetIsAlone /\ LoadIsWhole /\ CountIsOwn
=============================================================================
