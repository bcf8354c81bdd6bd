---------------------------- MODULE DemoProofs ----------------------------
(***************************************************************************)
(* What the demo host's programs promise, for every set of calls, slugs,   *)
(* leases and uids.                                                        *)
(***************************************************************************)
EXTENDS DemoSlots, DemoColour, DemoUids, FiniteSetTheorems, WellFoundedInduction, TLAPS

---------------------------------------------------------------------------
(* The slots. A call under way has the lock, so that at most one is: what  *)
(* it has done so far can be told from its step. A content volume that     *)
(* holds anything is the one compose.yml names.                            *)

ResetSteps == {"stop a", "stop b", "name", "data", "content", "directory", "env a", "env b"}
DemoRun == [verb : {"start", "stop", "reset", "leased"}, step : ResetSteps \cup {"start", "stop", "unlock"},
            colour : Colour \cup {None}, volume : Slug \cup {None, "two volumes"}, verdict : {None, "done", "failed"}]
SlotState == [lease : Nat, compose : Slug \cup {None, "two volumes"}, env : SUBSET Colour, up : SUBSET Colour,
              data : SUBSET Nat, content : [Slug -> SUBSET Nat], lock : SlotCall \cup {None}]

DataOwned(h) == /\ h.data \subseteq {h.lease}
                /\ \A s \in Slug : h.content[s] \subseteq {h.lease}
                /\ \A s \in Slug : h.content[s] # {} => h.compose \in {s, "two volumes"}
Emptied(h) == \A s \in Slug : h.content[s] = {}

Steps(m, h) ==
  /\ m.step = "start" => m.verb = "start"
  /\ m.step = "stop" => m.verb = "stop"
  /\ m.step \in ResetSteps => m.verb = "reset"
  /\ m.step \in {"start", "stop"} => m.colour \in Colour
  /\ m.step = "stop b" => "a" \notin h.up
  /\ m.step \in {"name", "data", "content", "directory", "env a", "env b"} => h.up = {}
  /\ m.step \in {"data", "content", "directory"} => m.volume = h.compose /\ h.compose # "two volumes"
  /\ m.step \in {"content", "directory", "env a", "env b"} => h.data = {}
  /\ m.step \in {"directory", "env a", "env b"} => Emptied(h)
  /\ m.step = "env b" => "a" \notin h.env
  /\ m.step = "unlock" /\ m.verb = "reset" /\ m.verdict = "done" => h.up = {} /\ h.env = {} /\ h.data = {} /\ Emptied(h)

DemoInv == /\ mem \in [SlotCall -> DemoRun \cup {None}] /\ host \in SlotState
           /\ \A c \in SlotCall : mem[c] # None => host.lock = c
           /\ DataOwned(host)
           /\ \A c \in SlotCall : mem[c] # None => Steps(mem[c], host)

LEMMA CallMoves ==
  ASSUME DemoInv, NEW c \in SlotCall, mem[c] # None \/ host.lock = None,
         NEW m \in DemoRun \cup {None}, NEW h \in SlotState, mem' = [mem EXCEPT ![c] = m], host' = h,
         DataOwned(h), m # None => h.lock = c /\ Steps(m, h)
  PROVE  DemoInv'
<1>1. \A d \in SlotCall \ {c} : mem[d] = None
  BY CallAssumption DEF DemoInv
<1>2. \A d \in SlotCall : mem'[d] = IF d = c THEN m ELSE None
  BY <1>1 DEF DemoInv
<1>3. mem' \in [SlotCall -> DemoRun \cup {None}]
  BY DEF DemoInv
<1> QED
  BY <1>2, <1>3 DEF DemoInv

LEMMA CallKeeps ==
  ASSUME DemoInv, NEW c \in SlotCall, at[1] = "demo",
         \/ \E i \in Invocation : Acquire(c, i.verb, i.colour)
         \/ StartColour(c) \/ StopOne(c) \/ StopBoth(c) \/ ReadContentVolumeName(c)
         \/ EmptyData(c) \/ EmptyContent(c) \/ RemoveSlotDirectory(c) \/ RemoveEnv(c)
         \/ Release(c) \/ CallFails(c) \/ BrokerLeases(c)
  PROVE  DemoInv' /\ UNCHANGED at
<1>0. /\ host \in SlotState /\ DataOwned(host)
      /\ mem[c] # None => mem[c] \in DemoRun /\ Steps(mem[c], host) /\ host.lock = c
  BY DEF DemoInv
<1>1. CASE \E i \in Invocation : Acquire(c, i.verb, i.colour)
  <2>1. PICK i \in Invocation : Acquire(c, i.verb, i.colour)
    BY <1>1
  <2> DEFINE m == [verb |-> i.verb, step |-> IF i.verb = "reset" THEN "stop a" ELSE i.verb,
                   colour |-> i.colour, volume |-> None, verdict |-> None]
             h == [host EXCEPT !.lock = c]
  <2>2. mem' = [mem EXCEPT ![c] = m] /\ host' = h /\ host.lock = None
    BY <2>1 DEF Acquire
  <2>3. m \in DemoRun /\ h \in SlotState /\ h.lock = c
    BY <1>0 DEF Invocation, DemoRun, SlotState, ResetSteps
  <2>4. DataOwned(h)
    BY <1>0 DEF DataOwned, SlotState
  <2>5. Steps(m, h)
    BY DEF Steps, Invocation, ResetSteps
  <2> QED
    BY <2>1, <2>2, <2>3, <2>4, <2>5, CallMoves DEF Acquire
<1>2. CASE StartColour(c)
  <2>1. mem[c] # None /\ mem[c].step = "start" /\ UNCHANGED at
    BY <1>2 DEF StartColour, Call
  <2> DEFINE m(v) == [mem[c] EXCEPT !.step = "unlock", !.verdict = v]
  <2>2. \A v \in {"done", "failed"} : m(v) \in DemoRun /\ m(v).step = "unlock" /\ m(v).verb = "start"
    BY <1>0, <2>1 DEF DemoRun, Steps
  <2>3. CASE host.compose \in Slug /\ mem[c].colour \in host.env
    <3> DEFINE h == Served(host, host.up \cup {mem[c].colour})
    <3>1. mem' = [mem EXCEPT ![c] = m("done")] /\ host' = h
      BY <1>2, <2>3 DEF StartColour, CallEnds
    <3>2. h \in SlotState /\ h.lock = c
      BY <1>0, <2>1, <2>3 DEF Served, SlotState, Steps
    <3>3. DataOwned(h)
      BY <1>0, <2>3 DEF DataOwned, Served, SlotState
    <3>4. Steps(m("done"), h)
      BY <2>2 DEF Steps, ResetSteps
    <3> QED
      BY <2>1, <2>2, <3>1, <3>2, <3>3, <3>4, CallMoves
  <2>4. CASE ~(host.compose \in Slug /\ mem[c].colour \in host.env)
    <3>1. mem' = [mem EXCEPT ![c] = m("failed")] /\ host' = host
      BY <1>2, <2>4 DEF StartColour, CallEnds
    <3>2. Steps(m("failed"), host)
      BY <2>2 DEF Steps, ResetSteps
    <3> QED
      BY <1>0, <2>1, <2>2, <3>1, <3>2, CallMoves
  <2> QED
    BY <2>3, <2>4
<1>3. CASE StopOne(c)
  <2> DEFINE m == [mem[c] EXCEPT !.step = "unlock", !.verdict = "done"]
             h == [host EXCEPT !.up = @ \ {mem[c].colour}]
  <2>1. mem[c] # None /\ mem[c].step = "stop" /\ UNCHANGED at /\ mem' = [mem EXCEPT ![c] = m] /\ host' = h
    BY <1>3 DEF StopOne, StopColour, Call, CallEnds
  <2>2. m \in DemoRun /\ h \in SlotState /\ DataOwned(h) /\ h.lock = c
    BY <1>0, <2>1 DEF DemoRun, SlotState, DataOwned
  <2>3. Steps(m, h)
    BY <1>0, <2>1 DEF Steps, ResetSteps, DemoRun
  <2> QED
    BY <2>1, <2>2, <2>3, CallMoves
<1>4. CASE StopBoth(c)
  <2>1. ASSUME NEW step \in {"stop a", "stop b"}, NEW colour \in Colour, NEW next \in {"stop b", "name"},
               StopColour(c, step, colour, next), step = "stop a" => colour = "a" /\ next = "stop b",
               step = "stop b" => colour = "b" /\ next = "name"
        PROVE  DemoInv' /\ UNCHANGED at
    <3> DEFINE m == [mem[c] EXCEPT !.step = next]
               h == [host EXCEPT !.up = @ \ {colour}]
    <3>0. next # None
      BY CallAssumption
    <3>1. mem[c] # None /\ mem[c].step = step /\ UNCHANGED at /\ mem' = [mem EXCEPT ![c] = m] /\ host' = h
      BY <2>1, <3>0 DEF StopColour, Call, CallGoes
    <3>2. m \in DemoRun /\ h \in SlotState /\ DataOwned(h) /\ h.lock = c
      BY <1>0, <3>1 DEF DemoRun, SlotState, DataOwned, ResetSteps
    <3>3. mem[c].verb = "reset" /\ m.verb = mem[c].verb /\ m.step = next
      BY <1>0, <2>1, <3>1 DEF Steps, ResetSteps, DemoRun
    <3>4. next = "stop b" => "a" \notin h.up
      BY <1>0, <2>1 DEF SlotState
    <3>5. next = "name" => h.up = {}
      <4>1. next = "name" => "a" \notin host.up /\ host.up \subseteq {"a", "b"}
        BY <1>0, <2>1, <3>1 DEF Steps, SlotState, Colour
      <4> QED
        BY <1>0, <2>1, <4>1 DEF SlotState
    <3>6. Steps(m, h)
      BY <3>3, <3>4, <3>5 DEF Steps, ResetSteps
    <3> QED
      BY <3>1, <3>2, <3>6, CallMoves
  <2> QED
    BY <1>4, <2>1 DEF StopBoth, Colour
<1>5. CASE ReadContentVolumeName(c)
  <2>1. mem[c] # None /\ mem[c].step = "name" /\ UNCHANGED <<at, host>>
    BY <1>5 DEF ReadContentVolumeName, Call
  <2>2. CASE host.compose = "two volumes"
    <3> DEFINE m == [mem[c] EXCEPT !.step = "unlock", !.verdict = "failed"]
    <3>1. mem' = [mem EXCEPT ![c] = m] /\ m \in DemoRun
      BY <1>0, <1>5, <2>1, <2>2 DEF ReadContentVolumeName, CallEnds, DemoRun
    <3>2. Steps(m, host)
      BY <1>0, <2>1 DEF Steps, ResetSteps, DemoRun
    <3> QED
      BY <1>0, <2>1, <3>1, <3>2, CallMoves
  <2>3. CASE host.compose # "two volumes"
    <3> DEFINE m == [mem[c] EXCEPT !.step = "data", !.volume = host.compose]
    <3>1. mem' = [mem EXCEPT ![c] = m] /\ m \in DemoRun
      BY <1>0, <1>5, <2>1, <2>3 DEF ReadContentVolumeName, DemoRun, SlotState, ResetSteps
    <3>2. Steps(m, host)
      BY <1>0, <2>1, <2>3 DEF Steps, ResetSteps, DemoRun
    <3> QED
      BY <1>0, <2>1, <3>1, <3>2, CallMoves
  <2> QED
    BY <2>2, <2>3
<1>6. CASE EmptyData(c)
  <2> DEFINE m == [mem[c] EXCEPT !.step = "content"]
             h == [host EXCEPT !.data = {}]
  <2>1. mem[c] # None /\ mem[c].step = "data" /\ UNCHANGED at /\ mem' = [mem EXCEPT ![c] = m] /\ host' = h
    BY <1>6 DEF EmptyData, Call, CallGoes
  <2>2. m \in DemoRun /\ h \in SlotState /\ DataOwned(h) /\ h.lock = c
    BY <1>0, <2>1 DEF DemoRun, SlotState, DataOwned, ResetSteps
  <2>3. Steps(m, h)
    BY <1>0, <2>1 DEF Steps, ResetSteps, DemoRun, SlotState
  <2> QED
    BY <2>1, <2>2, <2>3, CallMoves
\* Where compose.yml is gone no volume holds anything.
<1>7. CASE EmptyContent(c)
  <2> DEFINE m == [mem[c] EXCEPT !.step = "directory"]
             h == IF mem[c].volume = None THEN host ELSE [host EXCEPT !.content[mem[c].volume] = {}]
  <2>1. mem[c] # None /\ mem[c].step = "content" /\ UNCHANGED at /\ mem' = [mem EXCEPT ![c] = m] /\ host' = h
    BY <1>7 DEF EmptyContent, Call, CallGoes
  <2>2. mem[c].volume = host.compose /\ host.compose \in Slug \cup {None}
    BY <1>0, <2>1 DEF Steps, SlotState
  <2>3. h \in SlotState /\ Emptied(h)
    <3>1. CASE host.compose = None
      <4>1. Emptied(host)
        BY <1>0, <3>1, CallAssumption DEF Emptied, DataOwned
      <4> QED
        BY <1>0, <2>2, <3>1, <4>1
    <3>2. CASE host.compose # None
      <4>1. h = [host EXCEPT !.content[host.compose] = {}] /\ host.compose \in Slug
        BY <2>2, <3>2
      <4>2. h \in SlotState
        BY <1>0, <4>1 DEF SlotState
      <4>3. \A s \in Slug : s # host.compose => host.content[s] = {}
        BY <1>0, <2>1 DEF DataOwned, Steps
      <4> QED
        <5>1. \A s \in Slug : h.content[s] = IF s = host.compose THEN {} ELSE host.content[s]
          BY <1>0, <4>1 DEF SlotState
        <5> QED
          BY <4>2, <4>3, <5>1 DEF Emptied
    <3> QED
      BY <3>1, <3>2
  <2>4. m \in DemoRun
    BY <1>0, <2>1 DEF DemoRun, ResetSteps
  <2>5. /\ h.lock = c /\ h.up = host.up /\ h.data = host.data /\ h.compose = host.compose
        /\ h.lease = host.lease /\ h.env = host.env
    BY <1>0, <2>1, <2>3 DEF SlotState
  <2> HIDE DEF h
  <2>6. DataOwned(h)
    BY <1>0, <2>3, <2>5 DEF DataOwned, Emptied
  <2>7. Steps(m, h)
    BY <1>0, <2>1, <2>3, <2>5 DEF Steps, ResetSteps, DemoRun
  <2> QED
    BY <2>1, <2>3, <2>4, <2>5, <2>6, <2>7, CallMoves
<1>8. CASE RemoveSlotDirectory(c)
  <2> DEFINE m == [mem[c] EXCEPT !.step = "env a"]
             h == [host EXCEPT !.compose = None]
  <2>1. mem[c] # None /\ mem[c].step = "directory" /\ UNCHANGED at /\ mem' = [mem EXCEPT ![c] = m] /\ host' = h
    BY <1>8 DEF RemoveSlotDirectory, Call, CallGoes
  <2>2. m \in DemoRun /\ h \in SlotState /\ h.lock = c
    BY <1>0, <2>1 DEF DemoRun, SlotState, ResetSteps
  <2>3. Emptied(host)
    BY <1>0, <2>1 DEF Steps
  <2>4. DataOwned(h)
    BY <1>0, <2>3 DEF DataOwned, SlotState, Emptied
  <2>5. Steps(m, h)
    BY <1>0, <2>1 DEF Steps, ResetSteps, DemoRun, SlotState, Emptied
  <2> QED
    BY <2>1, <2>2, <2>4, <2>5, CallMoves
<1>9. CASE RemoveEnv(c)
  <2>1. CASE Call(c, "env a") /\ CallGoes(c, "env b") /\ host' = [host EXCEPT !.env = @ \ {"a"}]
    <3> DEFINE m == [mem[c] EXCEPT !.step = "env b"]
               h == [host EXCEPT !.env = @ \ {"a"}]
    <3>1. mem[c] # None /\ mem[c].step = "env a" /\ UNCHANGED at /\ mem' = [mem EXCEPT ![c] = m] /\ host' = h
      BY <2>1 DEF Call, CallGoes
    <3>2. m \in DemoRun /\ h \in SlotState /\ DataOwned(h) /\ h.lock = c
      BY <1>0, <3>1 DEF DemoRun, SlotState, DataOwned, ResetSteps
    <3>3. Steps(m, h)
      BY <1>0, <3>1 DEF Steps, ResetSteps, DemoRun, SlotState, Emptied
    <3> QED
      BY <3>1, <3>2, <3>3, CallMoves
  <2>2. CASE Call(c, "env b") /\ CallEnds(c, "done") /\ host' = [host EXCEPT !.env = @ \ {"b"}]
    <3> DEFINE m == [mem[c] EXCEPT !.step = "unlock", !.verdict = "done"]
               h == [host EXCEPT !.env = @ \ {"b"}]
    <3>1. mem[c] # None /\ mem[c].step = "env b" /\ UNCHANGED at /\ mem' = [mem EXCEPT ![c] = m] /\ host' = h
      BY <2>2 DEF Call, CallEnds
    <3>2. m \in DemoRun /\ h \in SlotState /\ DataOwned(h) /\ h.lock = c
      BY <1>0, <3>1 DEF DemoRun, SlotState, DataOwned, ResetSteps
    <3>3. h.env = {} /\ host.up = {} /\ host.data = {} /\ Emptied(host)
      <4>1. "a" \notin host.env /\ host.env \subseteq {"a", "b"}
        BY <1>0, <3>1 DEF Steps, SlotState, Colour
      <4> QED
        <5>1. h.env = host.env \ {"b"}
          BY <1>0 DEF SlotState
        <5>2. host.up = {} /\ host.data = {} /\ Emptied(host)
          BY <1>0, <3>1 DEF Steps
        <5> QED
          BY <4>1, <5>1, <5>2
    <3>4. Steps(m, h)
      BY <1>0, <3>1, <3>3 DEF Steps, ResetSteps, DemoRun, SlotState, Emptied
    <3> QED
      BY <3>1, <3>2, <3>4, CallMoves
  <2> QED
    BY <1>9, <2>1, <2>2 DEF RemoveEnv
<1>10. CASE Release(c)
  <2> DEFINE h == [host EXCEPT !.lock = None]
  <2>1. mem[c] # None /\ UNCHANGED at /\ mem' = [mem EXCEPT ![c] = None] /\ host' = h
    BY <1>10 DEF Release
  <2>2. h \in SlotState /\ DataOwned(h)
    BY <1>0 DEF SlotState, DataOwned
  <2> QED
    BY <2>1, <2>2, CallMoves
<1>11. CASE CallFails(c)
  <2> DEFINE m == [mem[c] EXCEPT !.step = "unlock", !.verdict = "failed"]
  <2>1. mem[c] # None /\ UNCHANGED <<at, host>> /\ mem' = [mem EXCEPT ![c] = m]
    BY <1>11 DEF CallFails, CallEnds
  <2>2. m \in DemoRun /\ Steps(m, host)
    BY <1>0, <2>1 DEF DemoRun, Steps, ResetSteps
  <2> QED
    BY <1>0, <2>1, <2>2, CallMoves
\* The slot is leased again only after a reset that was whole: nothing of the last lease is there.
<1>12. CASE BrokerLeases(c)
  <2>1. PICK s \in Slug : host' = [host EXCEPT !.lease = @ + 1, !.compose = s, !.env = Colour]
    BY <1>12 DEF BrokerLeases
  <2> DEFINE m == [mem[c] EXCEPT !.verb = "leased"]
             h == [host EXCEPT !.lease = @ + 1, !.compose = s, !.env = Colour]
  <2>2. /\ mem[c] # None /\ mem[c].step = "unlock" /\ mem[c].verb = "reset" /\ mem[c].verdict = "done"
        /\ UNCHANGED at /\ mem' = [mem EXCEPT ![c] = m]
    BY <1>12 DEF BrokerLeases
  <2>3. m \in DemoRun /\ h \in SlotState /\ h.lock = c
    <3>1. m \in DemoRun
      BY <1>0, <2>2 DEF DemoRun
    <3>2. host.lease \in Nat
      BY <1>0 DEF SlotState
    <3>3. host.lease + 1 \in Nat
      BY <3>2
    <3>4. h.lease = host.lease + 1 /\ h.compose = s /\ h.env = Colour /\ h.lock = host.lock
      BY <1>0 DEF SlotState
    <3>5. h = [host EXCEPT !.lease = host.lease + 1, !.compose = s, !.env = Colour]
      BY DEF SlotState
    <3>6. h \in SlotState
      <4> DEFINE n == host.lease + 1
      <4>1. n \in Nat
        BY <3>3
      <4> HIDE DEF n
      <4>2. [host EXCEPT !.lease = n, !.compose = s, !.env = Colour] \in SlotState
        BY <1>0, <4>1 DEF SlotState
      <4> QED
        BY <3>5, <4>2 DEF n
    <3> QED
      BY <1>0, <2>2, <3>1, <3>4, <3>6
  <2>4. host.data = {} /\ Emptied(host)
    BY <1>0, <2>2 DEF Steps
  <2>5. DataOwned(h)
    BY <1>0, <2>4 DEF DataOwned, Emptied, SlotState
  <2>6. Steps(m, h)
    BY <1>0, <2>2 DEF Steps, ResetSteps, DemoRun
  <2> QED
    BY <2>1, <2>2, <2>3, <2>5, <2>6, CallMoves
<1> QED
  BY <1>1, <1>2, <1>3, <1>4, <1>5, <1>6, <1>7, <1>8, <1>9, <1>10, <1>11, <1>12

---------------------------------------------------------------------------
(* The load and the count. docker has been given as many bytes as were     *)
(* read, and goes on to its verdict only when that is the size that was    *)
(* checked; the child that counts is never anybody but the slot's uid.     *)

LoadHost == [size : Bytes, kind : {"regular", "other"}, owner : {"broker", "other"},
             read : Nat, image : Nat \cup {None}]
LoadRun == [size : Bytes, verdict : {None, "refused", "failed", "done"}]
LoadInv == /\ at \in {"load"} \X {"open", "copy", "docker", "ended"} /\ host \in LoadHost
           /\ at[2] # "open" => mem \in LoadRun
           /\ at[2] \in {"copy", "docker"} => mem.size < 2
           /\ at[2] = "docker" => host.read = mem.size
           /\ LoadIsWhole
BatchInv == /\ at \in {"batches"} \X {"pick", "open", "count", "ended"}
            /\ at[2] \in {"open", "count"} => mem = [uid |-> ChildUid, from |-> None, verdict |-> None]
            /\ CountIsOwn

LEMMA LoadKeeps ==
  ASSUME LoadInv, OpenImage \/ CopyBytes \/ PipeBreaks \/ (\E code \in 0..1 : DockerExits(code)) \/ BrokerRewrites
  PROVE  LoadInv'
<1>0. host \in LoadHost
  BY DEF LoadInv
<1>1. CASE OpenImage
  <2>1. host' = host /\ host.size \in Bytes /\ at[2] = "open"
    BY <1>0, <1>1 DEF OpenImage, LoadHost, At
  <2>2. CASE host.kind = "regular" /\ host.size < 2 /\ host.owner = "broker"
    <3>1. at' = <<"load", "copy">> /\ mem' = [size |-> host.size, verdict |-> None]
      BY <1>1, <2>2 DEF OpenImage, Goto
    <3> QED
      BY <1>0, <2>1, <2>2, <3>1 DEF LoadInv, LoadRun, LoadIsWhole, At
  <2>3. CASE ~(host.kind = "regular" /\ host.size < 2 /\ host.owner = "broker")
    <3>1. at' = <<"load", "ended">> /\ mem' = [size |-> host.size, verdict |-> "refused"]
      BY <1>1, <2>3 DEF OpenImage, Goto
    <3> QED
      BY <1>0, <2>1, <3>1 DEF LoadInv, LoadRun, LoadIsWhole, At
  <2> QED
    BY <2>2, <2>3
<1>2. CASE CopyBytes
  <2>1. at[2] = "copy" /\ mem \in LoadRun /\ mem.size < 2 /\ host.read \in Nat
    BY <1>0, <1>2 DEF CopyBytes, LoadInv, LoadHost, At
  <2>2. CASE host.read = mem.size
    <3>1. at' = <<"load", "docker">> /\ UNCHANGED <<mem, host>>
      BY <1>2, <2>2 DEF CopyBytes, Goto
    <3> QED
      BY <1>0, <2>1, <2>2, <3>1 DEF LoadInv, LoadIsWhole, At
  <2>3. CASE host.read # mem.size /\ host.read < host.size
    <3>1. UNCHANGED <<at, mem>> /\ host' = [host EXCEPT !.read = @ + 1]
      BY <1>2, <2>3 DEF CopyBytes
    <3>2. host' \in LoadHost
      <4> DEFINE n == host.read + 1
      <4>1. n \in Nat
        BY <2>1
      <4>2. host' = [host EXCEPT !.read = n]
        BY <3>1
      <4> HIDE DEF n
      <4> QED
        BY <1>0, <4>1, <4>2 DEF LoadHost
    <3> QED
      BY <2>1, <3>1, <3>2 DEF LoadInv, LoadIsWhole, At
  <2>4. CASE host.read # mem.size /\ ~(host.read < host.size)
    <3>1. at' = <<"load", "ended">> /\ mem' = [mem EXCEPT !.verdict = "failed"] /\ UNCHANGED host
      BY <1>2, <2>4 DEF CopyBytes, Goto
    <3> QED
      BY <1>0, <2>1, <3>1 DEF LoadInv, LoadRun, LoadIsWhole, At
  <2> QED
    BY <2>2, <2>3, <2>4
<1>3. CASE PipeBreaks
  <2>1. /\ at[2] = "copy" /\ at' = <<"load", "ended">> /\ mem' = [mem EXCEPT !.verdict = "failed"] /\ UNCHANGED host
    BY <1>3 DEF PipeBreaks, Goto, At
  <2> QED
    BY <1>0, <2>1 DEF LoadInv, LoadRun, LoadIsWhole, At
<1>4. CASE \E code \in 0..1 : DockerExits(code)
  <2>1. PICK code \in 0..1 : DockerExits(code)
    BY <1>4
  <2>2. /\ at[2] = "docker" /\ at' = <<"load", "ended">>
        /\ mem' = [mem EXCEPT !.verdict = IF code = 0 THEN "done" ELSE "failed"]
        /\ host' = [host EXCEPT !.image = IF code = 0 THEN host.read ELSE None]
    BY <2>1 DEF DockerExits, Goto, At
  <2>3. mem \in LoadRun /\ mem.size < 2 /\ host.read = mem.size
    BY <2>2 DEF LoadInv
  <2>4. mem' \in LoadRun /\ mem'.size = mem.size /\ (mem'.verdict = "done" => code = 0)
    BY <2>2, <2>3 DEF LoadRun
  <2>5. host' \in LoadHost /\ (code = 0 => host'.image = host.read)
    BY <1>0, <2>2 DEF LoadHost
  <2> QED
    BY <2>2, <2>3, <2>4, <2>5 DEF LoadInv, LoadIsWhole, At
<1>5. CASE BrokerRewrites
  <2>1. PICK n \in Bytes : host' = [host EXCEPT !.size = n]
    BY <1>5 DEF BrokerRewrites
  <2>2. at[2] # "ended" /\ UNCHANGED <<at, mem>>
    BY <1>5 DEF BrokerRewrites
  <2>3. host' \in LoadHost /\ host'.read = host.read
    BY <1>0, <2>1 DEF LoadHost
  <2> QED
    BY <2>2, <2>3 DEF LoadInv, LoadIsWhole, At
<1> QED
  BY <1>1, <1>2, <1>3, <1>4, <1>5

LEMMA CountKeeps ==
  ASSUME BatchInv, PickDatabase \/ OpenDatabase \/ CountRows \/ TenantSwaps
  PROVE  BatchInv'
<1>1. CASE PickDatabase
  BY <1>1 DEF BatchInv, PickDatabase, CountIsOwn, At, Goto
<1>2. CASE OpenDatabase
  BY <1>2 DEF BatchInv, OpenDatabase, CountIsOwn, At, Goto
<1>3. CASE CountRows
  BY <1>3 DEF BatchInv, CountRows, CountIsOwn, Act, At, Goto, Permitted, ChildUid
<1>4. CASE TenantSwaps
  BY <1>4 DEF BatchInv, TenantSwaps, CountIsOwn, At
<1> QED
  BY <1>1, <1>2, <1>3, <1>4

---------------------------------------------------------------------------
SlotsInv == \/ at = <<"demo", "run">> /\ DemoInv
            \/ LoadInv
            \/ BatchInv

\* A step belongs to the program that is running.
LEMMA WhoseStep ==
  /\ (\E c \in SlotCall :
       \/ \E i \in Invocation : Acquire(c, i.verb, i.colour)
       \/ StartColour(c) \/ StopOne(c) \/ StopBoth(c) \/ ReadContentVolumeName(c)
       \/ EmptyData(c) \/ EmptyContent(c) \/ RemoveSlotDirectory(c) \/ RemoveEnv(c)
       \/ Release(c) \/ CallFails(c) \/ BrokerLeases(c)) => at[1] = "demo"
  /\ OpenImage \/ CopyBytes \/ PipeBreaks \/ (\E code \in 0..1 : DockerExits(code)) \/ BrokerRewrites
       => at[1] = "load"
  /\ PickDatabase \/ OpenDatabase \/ CountRows \/ TenantSwaps => at[1] = "batches"
<1>1. ASSUME NEW c \in SlotCall,
             \/ \E i \in Invocation : Acquire(c, i.verb, i.colour)
             \/ StartColour(c) \/ StopOne(c) \/ StopBoth(c) \/ ReadContentVolumeName(c)
             \/ EmptyData(c) \/ EmptyContent(c) \/ RemoveSlotDirectory(c) \/ RemoveEnv(c)
             \/ Release(c) \/ CallFails(c) \/ BrokerLeases(c)
      PROVE  at[1] = "demo"
  <2>1. (\E i \in Invocation : Acquire(c, i.verb, i.colour)) => At("demo", "run")
    BY DEF Acquire
  <2>2. StartColour(c) \/ StopOne(c) \/ StopBoth(c) \/ ReadContentVolumeName(c) => At("demo", "run")
    BY DEF StartColour, StopOne, StopBoth, StopColour, ReadContentVolumeName, Call
  <2>3. EmptyData(c) \/ EmptyContent(c) \/ RemoveSlotDirectory(c) \/ RemoveEnv(c) => At("demo", "run")
    BY DEF EmptyData, EmptyContent, RemoveSlotDirectory, RemoveEnv, Call
  <2>4. Release(c) \/ CallFails(c) \/ BrokerLeases(c) => At("demo", "run")
    BY DEF Release, CallFails, BrokerLeases
  <2> QED
    BY <1>1, <2>1, <2>2, <2>3, <2>4 DEF At
<1>2. OpenImage \/ CopyBytes \/ PipeBreaks \/ (\E code \in 0..1 : DockerExits(code)) \/ BrokerRewrites
        => at[1] = "load"
  BY DEF OpenImage, CopyBytes, PipeBreaks, DockerExits, BrokerRewrites, At
<1>3. PickDatabase \/ OpenDatabase \/ CountRows \/ TenantSwaps => at[1] = "batches"
  BY DEF PickDatabase, OpenDatabase, CountRows, TenantSwaps, At, Act
<1> QED
  BY <1>1, <1>2, <1>3

LEMMA DemoIsInductive ==
  (DemoInit => SlotsInv) /\ (SlotsInv /\ [DemoNext]_programVars => SlotsInv')
<1>1. DemoInit => SlotsInv
  <2>1. CASE /\ at = <<"demo", "run">> /\ faults = 0 /\ mem = [c \in SlotCall |-> None]
             /\ host \in SlotHost
             /\ \A s \in Slug : host.content[s] # {} => host.compose \in {s, "two volumes"}
    <3>1. host \in SlotState
      <4>1. {1} \in SUBSET Nat /\ {} \in SUBSET Nat /\ 1 \in Nat
        OBVIOUS
      <4>2. host.data \in SUBSET Nat /\ host.content \in [Slug -> SUBSET Nat] /\ host.lease \in Nat
        BY <2>1, <4>1 DEF SlotHost
      <4> QED
        BY <2>1, <4>2 DEF SlotHost, SlotState
    <3>2. DataOwned(host)
      BY <2>1 DEF SlotHost, DataOwned
    <3> QED
      BY <2>1, <3>1, <3>2 DEF DemoInv, SlotsInv
  <2>2. CASE /\ at = <<"load", "open">> /\ faults = 0 /\ mem = None
             /\ host \in [size : Bytes, kind : {"regular", "other"}, owner : {"broker", "other"},
                          read : {0}, image : {None}]
    BY <2>2 DEF SlotsInv, LoadInv, LoadHost, LoadIsWhole, At
  <2>3. CASE at = <<"batches", "pick">>
    BY <2>3 DEF SlotsInv, BatchInv, CountIsOwn, At
  <2> QED
    BY <2>1, <2>2, <2>3 DEF DemoInit
<1>2. SlotsInv /\ [DemoNext]_programVars => SlotsInv'
  <2> SUFFICES ASSUME SlotsInv, [DemoNext]_programVars PROVE SlotsInv'
    OBVIOUS
  <2>1. CASE at = <<"demo", "run">> /\ DemoInv
    <3>1. ASSUME NEW c \in SlotCall,
                 \/ \E i \in Invocation : Acquire(c, i.verb, i.colour)
                 \/ StartColour(c) \/ StopOne(c) \/ StopBoth(c) \/ ReadContentVolumeName(c)
                 \/ EmptyData(c) \/ EmptyContent(c) \/ RemoveSlotDirectory(c) \/ RemoveEnv(c)
                 \/ Release(c) \/ CallFails(c) \/ BrokerLeases(c)
          PROVE  SlotsInv'
      BY <2>1, <3>1, CallKeeps DEF SlotsInv
    <3>2. CASE UNCHANGED programVars
      BY <2>1, <3>2 DEF SlotsInv, DemoInv, programVars
    <3> QED
      BY <2>1, <3>1, <3>2, WhoseStep DEF DemoNext
  <2>2. CASE LoadInv
    <3>1. at[1] = "load"
      BY <2>2 DEF LoadInv
    <3>2. CASE OpenImage \/ CopyBytes \/ PipeBreaks \/ (\E code \in 0..1 : DockerExits(code)) \/ BrokerRewrites
      BY <2>2, <3>2, LoadKeeps DEF SlotsInv
    <3>3. CASE UNCHANGED programVars
      BY <2>2, <3>3 DEF SlotsInv, LoadInv, LoadIsWhole, At, programVars
    <3> QED
      BY <3>1, <3>2, <3>3, WhoseStep DEF DemoNext
  <2>3. CASE BatchInv
    <3>1. at[1] = "batches"
      BY <2>3 DEF BatchInv
    <3>2. CASE PickDatabase \/ OpenDatabase \/ CountRows \/ TenantSwaps
      BY <2>3, <3>2, CountKeeps DEF SlotsInv
    <3>3. CASE UNCHANGED programVars
      BY <2>3, <3>3 DEF SlotsInv, BatchInv, CountIsOwn, At, programVars
    <3> QED
      BY <3>1, <3>2, <3>3, WhoseStep DEF DemoNext
  <2> QED
    BY <2>1, <2>2, <2>3 DEF SlotsInv
<1> QED
  BY <1>1, <1>2

LEMMA SlotsInvGives == SlotsInv => SlotsHold
<1>1. CASE at = <<"demo", "run">> /\ DemoInv
  <2>1. LeaseIsFresh
    BY <1>1 DEF DemoInv, LeaseIsFresh, DataOwned
  <2>2. ResetIsAlone
    BY <1>1 DEF DemoInv, ResetIsAlone, Steps
  <2> QED
    BY <1>1, <2>1, <2>2 DEF SlotsHold, LoadIsWhole, CountIsOwn, At
<1>2. CASE LoadInv
  <2>1. at[1] = "load" /\ LoadIsWhole
    BY <1>2 DEF LoadInv
  <2> QED
    BY <2>1 DEF SlotsHold, LeaseIsFresh, ResetIsAlone, CountIsOwn, At
<1>3. CASE BatchInv
  <2>1. at[1] = "batches" /\ CountIsOwn
    BY <1>3 DEF BatchInv
  <2> QED
    BY <2>1 DEF SlotsHold, LeaseIsFresh, ResetIsAlone, LoadIsWhole, At
<1> QED
  BY <1>1, <1>2, <1>3 DEF SlotsInv

\* Nobody's data outlives a lease, no colour runs while a reset wipes, docker has exactly the
\* bytes that were checked and a count comes from the slot's own file: for any number of calls,
\* leases and content volumes, and after any number of failed and repeated resets.
THEOREM SlotsAreKept == DemoSpec => []SlotsHold
BY DemoIsInductive, SlotsInvGives, PTL DEF DemoSpec

---------------------------------------------------------------------------
(* The uid register. A run that has not ended holds the lock; once it has  *)
(* judged the register, what it has left to claim is claimed by nobody and *)
(* is no account's, and the only temporary file is the one it has written. *)

LEMMA Least == IsWellFoundedOn({ss \in Nat \X Nat : ss[1] < ss[2]}, Nat)
BY NatLessThanWellFounded DEF OpToRel

LEMMA FirstIsIn == \A S \in SUBSET Nat : S # {} => First(S) \in S
<1> SUFFICES ASSUME NEW S \in SUBSET Nat, S # {} PROVE First(S) \in S
  OBVIOUS
<1> DEFINE R == {ss \in Nat \X Nat : ss[1] < ss[2]}
<1>1. IsWellFoundedOn(R, Nat)
  BY Least
<1> HIDE DEF R
<1>2. PICK x \in S : \A y \in S : ~(<<y, x>> \in R)
  BY <1>1, WFMin
<1>3. ASSUME NEW y \in S PROVE x <= y
  <2>1. x \in Nat /\ y \in Nat /\ <<y, x>> \notin R
    BY <1>2
  <2>2. ~(y < x)
    BY <2>1 DEF R
  <2> QED
    BY <2>1, <2>2
<1> QED
  BY <1>3 DEF First

UidRun == [step : {"temps", "judge", "write", "rename", "ended"}, left : SUBSET Uid, made : SUBSET Uid,
           verdict : {None, "refused", "broken", "done"}]
UidState == [claim : [Uid \cup Tenant -> Uid \cup {None, Odd}], temp : SUBSET Uid, oddTemp : BOOLEAN,
             accounts : SUBSET Uid, dir : {"none", "ours", "other"}, lock : Claimers \cup {None}]

Unshared(h) == \A s, t \in Uid \cup Tenant : s # t /\ h.claim[s] \in Uid => h.claim[s] # h.claim[t]

UidSteps(m, h) ==
  /\ m.verdict # "broken"
  /\ m.step # "ended" => m.made \cap h.accounts = {} /\ m.verdict = None
  /\ m.step \in {"judge", "write"} => h.temp = {}
  /\ m.step \in {"write", "rename"} => /\ m.left \cap h.accounts = {}
                                       /\ \A u \in m.left, s \in Uid \cup Tenant : h.claim[s] # u
  /\ m.step = "rename" => m.left # {} /\ h.temp = {First(m.left)}

UidInv == /\ at = <<"uids", "run">>
          /\ mem \in [Claimers -> UidRun \cup {None}] /\ host \in UidState
          /\ \A c \in Claimers : mem[c] # None /\ mem[c].step # "ended" => host.lock = c
          /\ Unshared(host)
          /\ \A c \in Claimers : mem[c] # None => UidSteps(mem[c], host)

\* A step of one run: no other run is under way, and ended ones do not look at the register.
LEMMA ClaimMoves ==
  ASSUME UidInv, UNCHANGED at, NEW c \in Claimers, host.lock \in {None, c},
         NEW m \in UidRun \cup {None}, NEW h \in UidState, mem' = [mem EXCEPT ![c] = m], host' = h,
         Unshared(h), m # None => (m.step # "ended" => h.lock = c) /\ UidSteps(m, h)
  PROVE  UidInv'
<1>1. ASSUME NEW d \in Claimers, d # c, mem[d] # None
      PROVE  mem[d] \in UidRun /\ mem[d].step = "ended" /\ mem[d].verdict # "broken"
  BY <1>1, UidAssumption DEF UidInv, UidSteps
<1>2. \A d \in Claimers : mem'[d] = IF d = c THEN m ELSE mem[d]
  BY DEF UidInv
<1>3. ASSUME NEW d \in Claimers, d # c, mem[d] # None
      PROVE  UidSteps(mem[d], h)
  BY <1>1, <1>3 DEF UidSteps
<1>4. mem' \in [Claimers -> UidRun \cup {None}]
  BY DEF UidInv
<1> QED
  BY <1>1, <1>2, <1>3, <1>4 DEF UidInv

\* A run that finds the register locked, or is over, disturbs nobody.
LEMMA ClaimStandsAside ==
  ASSUME UidInv, UNCHANGED at, NEW c \in Claimers, NEW d \in {"none", "ours", "other"},
         NEW m \in UidRun \cup {None}, mem' = [mem EXCEPT ![c] = m], host' = [host EXCEPT !.dir = d],
         m # None => m.step = "ended" /\ m.verdict # "broken"
  PROVE  UidInv'
<1>1. \A e \in Claimers : mem'[e] = IF e = c THEN m ELSE mem[e]
  BY DEF UidInv
<1>2. /\ host' \in UidState /\ host'.claim = host.claim /\ host'.temp = host.temp
      /\ host'.accounts = host.accounts /\ host'.lock = host.lock
  BY DEF UidInv, UidState
<1>3. ASSUME NEW r, UidSteps(r, host) PROVE UidSteps(r, host')
  BY <1>2, <1>3 DEF UidSteps
<1>4. mem' \in [Claimers -> UidRun \cup {None}]
  BY DEF UidInv
<1>5. Unshared(host')
  BY <1>2 DEF UidInv, Unshared
<1>6. ASSUME NEW e \in Claimers, mem'[e] # None
      PROVE  (mem'[e].step # "ended" => host'.lock = e) /\ UidSteps(mem'[e], host')
  <2>1. CASE e = c
    BY <1>1, <1>6, <2>1 DEF UidSteps
  <2>2. CASE e # c
    BY <1>1, <1>2, <1>3, <1>6, <2>2 DEF UidInv
  <2> QED
    BY <2>1, <2>2
<1> QED
  BY <1>2, <1>4, <1>5, <1>6 DEF UidInv

LEMMA ClaimKeeps ==
  ASSUME UidInv, NEW c \in Claimers,
         \/ LockRegister(c) \/ ClearStaleTemps(c) \/ JudgeClaims(c) \/ WriteTemp(c) \/ RenameClaim(c)
         \/ ClaimsDone(c) \/ ClaimsForget(c) \/ ClaimsDie(c)
  PROVE  UidInv'
<1>0. /\ host \in UidState /\ Unshared(host)
      /\ mem[c] # None => mem[c] \in UidRun /\ UidSteps(mem[c], host)
      /\ mem[c] # None /\ mem[c].step # "ended" => host.lock = c
  BY DEF UidInv
<1>1. CASE LockRegister(c)
  <2> DEFINE fits == host.dir # "other" /\ host.lock = None
             m == [step |-> IF fits THEN "temps" ELSE "ended", left |-> {}, made |-> {},
                   verdict |-> IF fits THEN None ELSE "refused"]
             d == IF host.dir = "none" THEN "ours" ELSE host.dir
  <2>1. /\ UNCHANGED at /\ mem' = [mem EXCEPT ![c] = m]
        /\ host' = [host EXCEPT !.dir = d, !.lock = IF fits THEN c ELSE host.lock]
    BY <1>1 DEF LockRegister
  <2>2. m \in UidRun /\ d \in {"none", "ours", "other"}
    BY <1>0 DEF UidRun, UidState
  <2>3. CASE fits
    <3> DEFINE h == [host EXCEPT !.dir = d, !.lock = c]
    <3>1. h \in UidState /\ Unshared(h) /\ h.lock = c
      BY <1>0, <2>2 DEF UidState, Unshared
    <3>2. UidSteps(m, h)
      BY <2>3, UidAssumption DEF UidSteps
    <3> QED
      BY <2>1, <2>2, <2>3, <3>1, <3>2, ClaimMoves
  <2>4. CASE ~fits
    <3>1. host' = [host EXCEPT !.dir = d]
      BY <1>0, <2>1, <2>4 DEF UidState
    <3> QED
      BY <2>1, <2>2, <2>4, <3>1, ClaimStandsAside
  <2> QED
    BY <2>3, <2>4
\* A run under way that gives up.
<1>2. ASSUME mem[c] # None, mem[c].step # "ended", UNCHANGED at, NEW v \in {"refused", "done"},
             mem' = [mem EXCEPT ![c].step = "ended", ![c].verdict = v], host' = [host EXCEPT !.lock = None]
      PROVE  UidInv'
  <2> DEFINE m == [mem[c] EXCEPT !.step = "ended", !.verdict = v]
             h == [host EXCEPT !.lock = None]
  <2>1. m \in UidRun /\ UidSteps(m, h)
    BY <1>0, <1>2 DEF UidRun, UidSteps
  <2>2. h \in UidState /\ Unshared(h)
    BY <1>0 DEF UidState, Unshared
  <2>3. mem' = [mem EXCEPT ![c] = m] /\ m.step = "ended"
    BY <1>0, <1>2 DEF UidRun
  <2> QED
    BY <1>0, <1>2, <2>1, <2>2, <2>3, ClaimMoves
<1>3. CASE ClearStaleTemps(c)
  <2>1. mem[c] # None /\ mem[c].step = "temps" /\ UNCHANGED at
    BY <1>3 DEF ClearStaleTemps, Claims
  <2>2. CASE host.oddTemp
    BY <1>2, <1>3, <2>1, <2>2 DEF ClearStaleTemps, ClaimsEnd
  <2>3. CASE ~host.oddTemp
    <3> DEFINE m == [mem[c] EXCEPT !.step = "judge"]
               h == [host EXCEPT !.temp = {}]
    <3>1. mem' = [mem EXCEPT ![c] = m] /\ host' = h
      BY <1>3, <2>3 DEF ClearStaleTemps, ClaimsGo
    <3>2. m \in UidRun /\ h \in UidState /\ Unshared(h) /\ h.lock = c
      BY <1>0, <2>1 DEF UidRun, UidState, Unshared
    <3>3. UidSteps(m, h)
      BY <1>0, <2>1 DEF UidSteps, UidRun, UidState
    <3> QED
      BY <1>0, <2>1, <3>1, <3>2, <3>3, ClaimMoves
  <2> QED
    BY <2>2, <2>3
<1>4. CASE JudgeClaims(c)
  <2>1. mem[c] # None /\ mem[c].step = "judge" /\ UNCHANGED at
    BY <1>4 DEF JudgeClaims, Claims
  <2>2. CASE Claimable
    <3> DEFINE m == [mem[c] EXCEPT !.step = "write", !.left = Unclaimed]
    <3>1. mem' = [mem EXCEPT ![c] = m] /\ host' = host
      BY <1>4, <2>2 DEF JudgeClaims
    <3>2. m \in UidRun
      BY <1>0, <2>1 DEF UidRun, Unclaimed
    <3>3. m.left \cap host.accounts = {}
      BY <1>0, <2>1, <2>2 DEF Claimable, UidRun
    <3>4. \A u \in m.left, s \in Uid \cup Tenant : host.claim[s] # u
      <4>1. m.left = Unclaimed
        BY <1>0, <2>1 DEF UidRun
      <4>2. \A u \in Unclaimed : u \in Uid /\ host.claim[u] = None /\ u # None
        BY UidAssumption, ValueAssumption DEF Unclaimed
      <4> QED
        BY <2>2, <4>1, <4>2 DEF Claimable
    <3>5. UidSteps(m, host)
      BY <1>0, <2>1, <3>3, <3>4 DEF UidSteps, UidRun
    <3> QED
      BY <1>0, <2>1, <3>1, <3>2, <3>5, ClaimMoves
  <2>3. CASE ~Claimable
    BY <1>2, <1>4, <2>1, <2>3 DEF JudgeClaims, ClaimsEnd
  <2> QED
    BY <2>2, <2>3
<1>5. CASE WriteTemp(c)
  <2> DEFINE u == First(mem[c].left)
             m == [mem[c] EXCEPT !.step = "rename"]
             h == [host EXCEPT !.temp = @ \cup {u}]
  <2>1. mem[c] # None /\ mem[c].step = "write" /\ mem[c].left # {} /\ UNCHANGED at
    BY <1>5 DEF WriteTemp, Claims
  <2>2. u \in mem[c].left /\ u \in Uid /\ host.temp = {}
    BY <1>0, <2>1, FirstIsIn, UidAssumption DEF UidSteps, UidRun
  <2>3. mem' = [mem EXCEPT ![c] = m] /\ host' = h
    BY <1>5, <2>2 DEF WriteTemp, ClaimsGo
  <2>4. m \in UidRun /\ h \in UidState /\ Unshared(h) /\ h.lock = c
    BY <1>0, <2>1, <2>2 DEF UidRun, UidState, Unshared
  <2>5. h.temp = {u} /\ m.left = mem[c].left /\ h.claim = host.claim /\ h.accounts = host.accounts
    BY <1>0, <2>1, <2>2 DEF UidRun, UidState
  <2>6. m.step = "rename" /\ m.made = mem[c].made /\ m.verdict = mem[c].verdict
    BY <1>0, <2>1 DEF UidRun
  <2> HIDE DEF h, m
  <2>7. UidSteps(m, h)
    BY <1>0, <2>1, <2>5, <2>6 DEF UidSteps
  <2> QED
    BY <1>0, <2>1, <2>3, <2>4, <2>7, ClaimMoves
<1>6. CASE RenameClaim(c)
  <2> DEFINE u == First(mem[c].left)
             m == [mem[c] EXCEPT !.step = "write", !.left = @ \ {u}, !.made = @ \cup {u}]
             h == [host EXCEPT !.temp = @ \ {u}, !.claim[u] = u]
  <2>1. mem[c] # None /\ mem[c].step = "rename" /\ UNCHANGED at
    BY <1>6 DEF RenameClaim, Claims
  <2>2. u \in mem[c].left /\ u \in Uid /\ host.temp = {u}
    BY <1>0, <2>1, FirstIsIn, UidAssumption DEF UidSteps, UidRun
  <2>3. mem' = [mem EXCEPT ![c] = m] /\ host' = h
    BY <1>0, <1>6, <2>1, <2>2 DEF RenameClaim, UidRun
  <2>4. /\ \A s \in Uid \cup Tenant : h.claim[s] = IF s = u THEN u ELSE host.claim[s]
        /\ h.temp = {} /\ h.accounts = host.accounts /\ h.lock = c /\ h \in UidState
    BY <1>0, <2>1, <2>2 DEF UidState
  <2>5. /\ m.left = mem[c].left \ {u} /\ m.made = mem[c].made \cup {u} /\ m.step = "write"
        /\ m.verdict = mem[c].verdict /\ m \in UidRun
    BY <1>0, <2>1, <2>2 DEF UidRun
  <2> HIDE DEF h, m
  <2>6. Unshared(h)
    BY <1>0, <2>1, <2>2, <2>4 DEF Unshared, UidSteps
  <2>7. UidSteps(m, h)
    BY <1>0, <2>1, <2>2, <2>4, <2>5 DEF UidSteps
  <2> QED
    BY <1>0, <2>1, <2>3, <2>4, <2>5, <2>6, <2>7, ClaimMoves
<1>7. CASE ClaimsDone(c)
  BY <1>2, <1>7 DEF ClaimsDone, Claims, ClaimsEnd
<1>8. CASE ClaimsForget(c)
  <2>1. UNCHANGED <<at, host>> /\ mem' = [mem EXCEPT ![c] = None]
    BY <1>8 DEF ClaimsForget, Claims
  <2>2. host' = [host EXCEPT !.dir = host.dir] /\ host.dir \in {"none", "ours", "other"}
    BY <1>0, <2>1 DEF UidState
  <2> QED
    BY <2>1, <2>2, ClaimStandsAside
<1>9. CASE ClaimsDie(c)
  <2> DEFINE h == [host EXCEPT !.lock = None]
  <2>1. mem[c] # None /\ mem[c].step # "ended" /\ UNCHANGED at /\ mem' = [mem EXCEPT ![c] = None]
    BY <1>9 DEF ClaimsDie
  <2>2. host' = h
    BY <1>0, <1>9, <2>1 DEF ClaimsDie
  <2>3. h \in UidState /\ Unshared(h)
    BY <1>0 DEF UidState, Unshared
  <2> QED
    BY <1>0, <2>1, <2>2, <2>3, ClaimMoves
<1> QED
  BY <1>1, <1>3, <1>4, <1>5, <1>6, <1>7, <1>8, <1>9

LEMMA UidIsInductive ==
  (UidInit => UidInv) /\ (UidInv /\ [UidNext]_programVars => UidInv')
<1>1. UidInit => UidInv
  <2> SUFFICES ASSUME UidInit PROVE UidInv
    OBVIOUS
  <2>1. host \in UidState /\ \A s \in Uid \cup Tenant : host.claim[s] = None
    BY DEF UidInit, UidHost, UidState
  <2>2. None \notin Uid
    BY UidAssumption, ValueAssumption
  <2> QED
    BY <2>1, <2>2 DEF UidInit, UidInv, Unshared
<1>2. UidInv /\ [UidNext]_programVars => UidInv'
  <2> SUFFICES ASSUME UidInv, [UidNext]_programVars PROVE UidInv'
    OBVIOUS
  <2>1. ASSUME NEW c \in Claimers,
               \/ LockRegister(c) \/ ClearStaleTemps(c) \/ JudgeClaims(c) \/ WriteTemp(c) \/ RenameClaim(c)
               \/ ClaimsDone(c) \/ ClaimsForget(c) \/ ClaimsDie(c)
        PROVE  UidInv'
    BY <2>1, ClaimKeeps
  <2>2. CASE OthersClaim
    <3>0. /\ host.lock = None /\ UNCHANGED <<at, mem>> /\ host \in UidState /\ Unshared(host)
          /\ mem \in [Claimers -> UidRun \cup {None}]
      BY <2>2 DEF OthersClaim, UidInv
    <3>1. \A c \in Claimers : mem[c] # None => mem[c].step = "ended" /\ mem[c].verdict # "broken"
      BY <3>0, UidAssumption DEF UidInv, UidSteps
    <3>2. host' \in UidState /\ Unshared(host') /\ host'.lock = None
      <4>1. CASE \E t \in Tenant, u \in Uid : (\A s \in Uid \cup Tenant : host.claim[s] # u)
                                              /\ host' = [host EXCEPT !.claim[t] = u]
        BY <3>0, <4>1 DEF UidState, Unshared
      <4>2. CASE \E u \in Uid : host' = [host EXCEPT !.claim[u] = Odd]
        <5>1. Odd \notin Uid
          BY UidAssumption, ValueAssumption
        <5> QED
          BY <3>0, <4>2, <5>1 DEF UidState, Unshared
      <4>3. CASE \E u \in Uid : host' = [host EXCEPT !.accounts = @ \cup {u}]
        BY <3>0, <4>3 DEF UidState, Unshared
      <4> QED
        BY <2>2, <4>1, <4>2, <4>3 DEF OthersClaim
    <3> QED
      BY <3>0, <3>1, <3>2 DEF UidInv, UidSteps
  <2>3. CASE UNCHANGED programVars
    BY <2>3 DEF UidInv, programVars
  <2> QED
    BY <2>1, <2>2, <2>3 DEF UidNext
<1> QED
  BY <1>1, <1>2

LEMMA UidInvGives == UidInv => UidsHold
BY DEF UidInv, UidSteps, Unshared, UidsHold, ClaimsAreAlone, RunsDoNotCollide

\* No uid is claimed twice, none a run makes is an account's, and no run trips over another's
\* files, however many runs overlap or die and whatever others claim in between.
THEOREM UidsAreAlone == UidSpec => []UidsHold
BY UidIsInductive, UidInvGives, PTL DEF UidSpec

LEMMA UidResumes == UidInv /\ [UidNext]_programVars => [Resumes]_programVars
<1> DEFINE Alone(c) == /\ mem[c] # None /\ mem[c].step \in {"temps", "judge"} /\ host.accounts = {}
                       /\ \A u \in Uid : host.claim[u] \in {None, u}
                       /\ \A t \in Tenant : host.claim[t] = None
                       /\ ~host.oddTemp
<1>1. ASSUME UidInv, [UidNext]_programVars, NEW c \in Claimers, Alone(c), mem'[c] # None
      PROVE  mem'[c].verdict = None
  <2>0. mem[c] \in UidRun /\ mem[c].verdict = None /\ mem \in [Claimers -> UidRun \cup {None}]
    BY <1>1 DEF UidInv, UidSteps
  <2>1. Claimable
    <3>1. \A u \in Uid : u # None /\ u # Odd
      BY UidAssumption, ValueAssumption
    <3>2. None # Odd
      BY ValueAssumption
    <3>3. \A s \in Uid \cup Tenant : host.claim[s] \in {None, s}
      BY <1>1
    <3>4. \A s \in Uid \cup Tenant : host.claim[s] # None => s \in Uid /\ host.claim[s] = s
      BY <1>1, <3>3
    <3>5. \A u \in Uid : \A s \in (Uid \cup Tenant) \ {u} : host.claim[s] # u
      BY <3>1, <3>4
    <3>6. \A s \in Uid \cup Tenant : host.claim[s] # Odd
      BY <3>1, <3>2, <3>4
    <3> QED
      BY <1>1, <3>5, <3>6 DEF Claimable
  <2>2. CASE ClearStaleTemps(c) \/ JudgeClaims(c)
    BY <1>1, <2>0, <2>1, <2>2 DEF ClearStaleTemps, JudgeClaims, Claims, ClaimsGo, UidRun
  <2>3. CASE LockRegister(c) \/ WriteTemp(c) \/ RenameClaim(c) \/ ClaimsDone(c) \/ ClaimsForget(c) \/ ClaimsDie(c)
    BY <1>1, <2>0, <2>3 DEF LockRegister, WriteTemp, RenameClaim, ClaimsDone, ClaimsForget, ClaimsDie, Claims
  <2>4. ASSUME NEW d \in Claimers, d # c,
               \/ LockRegister(d) \/ ClearStaleTemps(d) \/ JudgeClaims(d) \/ WriteTemp(d) \/ RenameClaim(d)
               \/ ClaimsDone(d) \/ ClaimsForget(d) \/ ClaimsDie(d)
        PROVE  mem'[c] = mem[c]
    BY <2>0, <2>4 DEF LockRegister, ClearStaleTemps, JudgeClaims, WriteTemp, RenameClaim, ClaimsDone,
         ClaimsForget, ClaimsDie, Claims, ClaimsGo, ClaimsEnd
  <2>5. CASE OthersClaim \/ UNCHANGED programVars
    BY <2>0, <2>5 DEF OthersClaim, programVars
  <2> QED
    BY <1>1, <2>0, <2>2, <2>3, <2>4, <2>5 DEF UidNext
<1> QED
  BY <1>1 DEF Resumes, programVars

\* What a dead run left stops no later one: where only the demo's own claims are in the register
\* and there are no accounts, a run is not refused at the temporaries nor by its judgement.
THEOREM DeadClaimsAreResumed == UidSpec => DeadRunIsResumed
BY UidIsInductive, UidResumes, PTL DEF UidSpec, DeadRunIsResumed

---------------------------------------------------------------------------
(* One colour's unit. A unit that is down, or on its way there with no     *)
(* failure so far, has nothing running that ExecStopPost would have to     *)
(* remove; ExecStopPost itself may fail only as a second failure then.     *)

Refusal == IF host.approved THEN 0 ELSE 1
Used == faults + Refusal
UnitSteps == {"down", "up", "refuse", "replace", "run", "active", "stop sidecar", "stop ghost",
              "post sidecar", "post ghost"}
UnitState == [made : Nat, ghost : Nat \cup {None}, sidecar : Nat \cup {None}, approved : BOOLEAN]
UnitInv ==
  /\ at \in {"colour"} \X UnitSteps /\ host \in UnitState /\ faults \in Nat
  /\ at[2] \in {"down", "up"} /\ Used <= 1 => host.ghost = None /\ host.sidecar = None
  /\ at[2] \in {"refuse", "replace", "run", "active"} => host.ghost # None
  /\ at[2] = "active" => host.sidecar = host.ghost
  /\ at[2] \in {"stop ghost", "post ghost"} => host.sidecar = None
  /\ at[2] = "post sidecar" /\ Used = 0 => host.ghost = None /\ host.sidecar = None
  /\ at[2] = "post ghost" /\ Used = 0 => host.ghost = None

\* What counts as a failure is a natural number, and grows with the faults.
LEMMA RefusalIs == /\ Refusal \in {0, 1}
                   /\ ~host.approved => Refusal = 1
<1>1. CASE host.approved
  <2>1. Refusal = 0
    BY <1>1 DEF Refusal
  <2> QED
    BY <1>1, <2>1
<1>2. CASE ~host.approved
  <2>1. Refusal = 1
    BY <1>2 DEF Refusal
  <2> QED
    BY <2>1
<1> QED
  BY <1>1, <1>2

LEMMA UsedIs ==
  ASSUME faults \in Nat
  PROVE  Used \in Nat /\ (~host.approved => Used # 0)
BY RefusalIs DEF Used

LEMMA UsedGrows ==
  ASSUME faults \in Nat, host'.approved = host.approved
  PROVE  /\ faults' = faults => Used' = Used
         /\ faults' = faults + 1 => Used' = Used + 1 /\ Used' # 0
<1>1. Refusal' = Refusal
  BY DEF Refusal
<1>2. Used' = faults' + Refusal
  BY <1>1 DEF Used
<1> QED
  BY <1>2, RefusalIs DEF Used

\* A command that does its work, and one that fails.
LEMMA CommandSteps ==
  ASSUME NEW from, NEW to, NEW fails, NEW h, Command(from, to, fails, h)
  PROVE  /\ at = <<"colour", from>>
         /\ \/ at' = <<"colour", to>> /\ host' = h /\ faults' = faults
            \/ at' = <<"colour", fails>> /\ host' = host /\ faults' = faults + 1
BY DEF Command, Act, At, Goto, Fault

LEMMA UnitKeeps == UnitInv /\ ColourNext => UnitInv'
<1> SUFFICES ASSUME UnitInv, ColourNext PROVE UnitInv'
  OBVIOUS
<1>0. host \in UnitState /\ faults \in Nat /\ faults + 1 \in Nat /\ Used \in Nat
  <2>1. host \in UnitState /\ faults \in Nat
    BY DEF UnitInv
  <2> QED
    BY <2>1, UsedIs
<1>1. CASE UnitStarts
  <2>1. at = <<"colour", "down">> /\ at' = <<"colour", "up">> /\ UNCHANGED <<host, faults>>
    BY <1>1 DEF UnitStarts, Act, At, Goto
  <2> QED
    BY <1>0, <2>1, UsedGrows DEF UnitInv, UnitSteps
<1>2. CASE ComposeUp
  <2> DEFINE n == host.made + 1
             h == [host EXCEPT !.made = n, !.ghost = n]
  <2>1. n \in Nat /\ n # None
    <3>1. host.made \in Nat
      BY <1>0 DEF UnitState
    <3> QED
      BY <3>1, ValueAssumption
  <2>2. /\ at = <<"colour", "up">>
        /\ \/ at' = <<"colour", "refuse">> /\ host' = h /\ faults' = faults
           \/ at' = <<"colour", "post sidecar">> /\ host' = host /\ faults' = faults + 1
           \/ at' = <<"colour", "post sidecar">> /\ host' = h /\ faults' = faults + 1
    BY <1>2 DEF ComposeUp, Command, Act, At, Goto, Fault
  <2> HIDE DEF n
  <2>3. h \in UnitState /\ h.ghost = n /\ h.approved = host.approved
    BY <1>0, <2>1 DEF UnitState
  <2> HIDE DEF h
  <2>4. CASE at' = <<"colour", "refuse">> /\ host' = h /\ faults' = faults
    BY <1>0, <2>1, <2>3, <2>4 DEF UnitInv, UnitSteps
  <2>5. CASE at' = <<"colour", "post sidecar">> /\ faults' = faults + 1 /\ host' \in {host, h}
    <3>1. Used' # 0 /\ host' \in UnitState
      BY <1>0, <2>3, <2>5, UsedGrows DEF UnitState
    <3> QED
      BY <1>0, <2>5, <3>1 DEF UnitInv, UnitSteps
  <2> QED
    BY <2>2, <2>4, <2>5
<1>3. CASE SidecarRefuses
  <2>1. /\ at = <<"colour", "refuse">> /\ UNCHANGED <<host, faults>>
        /\ at' = <<"colour", IF SidecarMayStart THEN "replace" ELSE "post sidecar">>
    BY <1>3 DEF SidecarRefuses, Act, At, Goto
  <2>2. ~SidecarMayStart => Used # 0
    BY <1>0, <2>1, UsedIs DEF UnitInv, SidecarMayStart
  <2> QED
    BY <1>0, <2>1, <2>2, UsedGrows DEF UnitInv, UnitSteps
<1>4. CASE SidecarReplaced
  <2> DEFINE h == [host EXCEPT !.sidecar = None]
  <2>1. /\ at = <<"colour", "replace">>
        /\ \/ at' = <<"colour", "run">> /\ host' = h /\ faults' = faults
           \/ at' = <<"colour", "post sidecar">> /\ host' = host /\ faults' = faults + 1
    BY <1>4, CommandSteps DEF SidecarReplaced
  <2>2. host' \in UnitState /\ host'.approved = host.approved
    BY <1>0, <2>1 DEF UnitState
  <2>3. (faults' = faults => Used' = Used) /\ (faults' = faults + 1 => Used' = Used + 1 /\ Used' # 0)
    BY <1>0, <2>2, UsedGrows
  <2> QED
    <3>1. CASE at' = <<"colour", "run">> /\ host' = h /\ faults' = faults
      <4>1. host'.sidecar = None /\ host'.ghost = host.ghost
        BY <1>0, <3>1 DEF UnitState
      <4> QED
        BY <1>0, <2>1, <2>2, <2>3, <3>1, <4>1 DEF UnitInv, UnitSteps
    <3>2. CASE at' = <<"colour", "post sidecar">> /\ host' = host /\ faults' = faults + 1
      BY <1>0, <2>1, <2>2, <2>3, <3>2 DEF UnitInv, UnitSteps
    <3> QED
      BY <2>1, <3>1, <3>2
<1>5. CASE SidecarRun
  <2>1. /\ at = <<"colour", "run">>
        /\ \/ at' = <<"colour", "active">> /\ host' = Joined(host.ghost) /\ faults' = faults
           \/ /\ at' = <<"colour", "post sidecar">> /\ faults' = faults + 1
              /\ \E left \in {None, host.ghost} : host' = Joined(left)
    BY <1>5 DEF SidecarRun, Act, At, Goto, Fault
  <2>2. host' \in UnitState /\ host'.approved = host.approved
    BY <1>0, <2>1 DEF UnitState, Joined
  <2>3. (faults' = faults => Used' = Used) /\ (faults' = faults + 1 => Used' = Used + 1 /\ Used' # 0)
    BY <1>0, <2>2, UsedGrows
  <2> QED
    <3>1. CASE at' = <<"colour", "active">> /\ host' = Joined(host.ghost) /\ faults' = faults
      <4>1. host'.sidecar = host.ghost /\ host'.ghost = host.ghost
        BY <1>0, <3>1 DEF UnitState, Joined
      <4> QED
        BY <1>0, <2>1, <2>2, <2>3, <3>1, <4>1 DEF UnitInv, UnitSteps
    <3>2. CASE at' = <<"colour", "post sidecar">> /\ faults' = faults + 1 /\ \E left \in {None, host.ghost} : host' = Joined(left)
      BY <1>0, <2>1, <2>2, <2>3, <3>2 DEF UnitInv, UnitSteps
    <3> QED
      BY <2>1, <3>1, <3>2
<1>6. CASE UnitStops
  <2>1. at = <<"colour", "active">> /\ at' = <<"colour", "stop sidecar">> /\ UNCHANGED <<host, faults>>
    BY <1>6 DEF UnitStops, Act, At, Goto
  <2> QED
    BY <1>0, <2>1, UsedGrows DEF UnitInv, UnitSteps
<1>7. CASE StopSidecar
  <2>1. /\ at = <<"colour", "stop sidecar">>
        /\ \/ at' = <<"colour", "stop ghost">> /\ host' = [host EXCEPT !.sidecar = None] /\ faults' = faults
           \/ at' = <<"colour", "post sidecar">> /\ host' = host /\ faults' = faults + 1
    BY <1>7, CommandSteps DEF StopSidecar
  <2>2. host' \in UnitState /\ host'.approved = host.approved
    BY <1>0, <2>1 DEF UnitState
  <2>3. (faults' = faults => Used' = Used) /\ (faults' = faults + 1 => Used' = Used + 1 /\ Used' # 0)
    BY <1>0, <2>2, UsedGrows
  <2> QED
    <3>1. CASE at' = <<"colour", "stop ghost">> /\ host' = [host EXCEPT !.sidecar = None] /\ faults' = faults
      <4>1. host'.sidecar = None /\ host'.ghost = host.ghost
        BY <1>0, <3>1 DEF UnitState
      <4> QED
        BY <1>0, <2>1, <2>2, <2>3, <3>1, <4>1 DEF UnitInv, UnitSteps
    <3>2. CASE at' = <<"colour", "post sidecar">> /\ host' = host /\ faults' = faults + 1
      BY <1>0, <2>1, <2>2, <2>3, <3>2 DEF UnitInv, UnitSteps
    <3> QED
      BY <2>1, <3>1, <3>2
<1>8. CASE StopGhost
  <2>1. /\ at = <<"colour", "stop ghost">>
        /\ \/ at' = <<"colour", "post sidecar">> /\ host' = [host EXCEPT !.ghost = None] /\ faults' = faults
           \/ at' = <<"colour", "post sidecar">> /\ host' = host /\ faults' = faults + 1
    BY <1>8, CommandSteps DEF StopGhost
  <2>2. host' \in UnitState /\ host'.approved = host.approved
    BY <1>0, <2>1 DEF UnitState
  <2>3. (faults' = faults => Used' = Used) /\ (faults' = faults + 1 => Used' = Used + 1 /\ Used' # 0)
    BY <1>0, <2>2, UsedGrows
  <2> QED
    <3>1. CASE at' = <<"colour", "post sidecar">> /\ host' = [host EXCEPT !.ghost = None] /\ faults' = faults
      <4>1. host'.sidecar = host.sidecar /\ host'.ghost = None
        BY <1>0, <3>1 DEF UnitState
      <4> QED
        BY <1>0, <2>1, <2>2, <2>3, <3>1, <4>1 DEF UnitInv, UnitSteps
    <3>2. CASE at' = <<"colour", "post sidecar">> /\ host' = host /\ faults' = faults + 1
      BY <1>0, <2>1, <2>2, <2>3, <3>2 DEF UnitInv, UnitSteps
    <3> QED
      BY <2>1, <3>1, <3>2
<1>9. CASE PostSidecar
  <2>1. /\ at = <<"colour", "post sidecar">>
        /\ \/ at' = <<"colour", "post ghost">> /\ host' = [host EXCEPT !.sidecar = None] /\ faults' = faults
           \/ at' = <<"colour", "down">> /\ host' = host /\ faults' = faults + 1
    BY <1>9, CommandSteps DEF PostSidecar
  <2>2. host' \in UnitState /\ host'.approved = host.approved
    BY <1>0, <2>1 DEF UnitState
  <2>3. (faults' = faults => Used' = Used) /\ (faults' = faults + 1 => Used' = Used + 1 /\ Used' # 0)
    BY <1>0, <2>2, UsedGrows
  <2> QED
    <3>1. CASE at' = <<"colour", "post ghost">> /\ host' = [host EXCEPT !.sidecar = None] /\ faults' = faults
      <4>1. host'.sidecar = None /\ host'.ghost = host.ghost
        BY <1>0, <3>1 DEF UnitState
      <4> QED
        BY <1>0, <2>1, <2>2, <2>3, <3>1, <4>1 DEF UnitInv, UnitSteps
    <3>2. CASE at' = <<"colour", "down">> /\ host' = host /\ faults' = faults + 1
      <4>1. Used' = Used + 1 /\ (Used + 1 <= 1 => Used = 0)
        BY <1>0, <2>3, <3>2
      <4>2. Used = 0 => host.ghost = None /\ host.sidecar = None
        BY <2>1 DEF UnitInv
      <4> QED
        BY <1>0, <3>2, <4>1, <4>2 DEF UnitInv, UnitSteps
    <3> QED
      BY <2>1, <3>1, <3>2
<1>10. CASE PostGhost
  <2>1. /\ at = <<"colour", "post ghost">>
        /\ \/ at' = <<"colour", "down">> /\ host' = [host EXCEPT !.ghost = None] /\ faults' = faults
           \/ at' = <<"colour", "down">> /\ host' = host /\ faults' = faults + 1
    BY <1>10, CommandSteps DEF PostGhost
  <2>2. host' \in UnitState /\ host'.approved = host.approved
    BY <1>0, <2>1 DEF UnitState
  <2>3. (faults' = faults => Used' = Used) /\ (faults' = faults + 1 => Used' = Used + 1 /\ Used' # 0)
    BY <1>0, <2>2, UsedGrows
  <2> QED
    <3>1. CASE at' = <<"colour", "down">> /\ host' = [host EXCEPT !.ghost = None] /\ faults' = faults
      <4>1. host'.sidecar = host.sidecar /\ host'.ghost = None
        BY <1>0, <3>1 DEF UnitState
      <4> QED
        BY <1>0, <2>1, <2>2, <2>3, <3>1, <4>1 DEF UnitInv, UnitSteps
    <3>2. CASE at' = <<"colour", "down">> /\ host' = host /\ faults' = faults + 1
      <4>1. Used' = Used + 1 /\ (Used + 1 <= 1 => Used = 0)
        BY <1>0, <2>3, <3>2
      <4>2. Used = 0 => host.ghost = None /\ host.sidecar = None
        BY <2>1 DEF UnitInv
      <4> QED
        BY <1>0, <3>2, <4>1, <4>2 DEF UnitInv, UnitSteps
    <3> QED
      BY <2>1, <3>1, <3>2
<1> QED
  BY <1>1, <1>2, <1>3, <1>4, <1>5, <1>6, <1>7, <1>8, <1>9, <1>10 DEF ColourNext

---------------------------------------------------------------------------
(* The router. The connections counted are those whose thread is under     *)
(* way; one that was told 503 past the cap never was among them.           *)

RouterState == [inFlight : Nat, dir : [Colours -> Colours], private : [Colours -> BOOLEAN],
                answer : [Colours -> {"200", "other"}]]
InThread(m) == m # None /\ m.step # "over"
Threads == {k \in Checks : InThread(mem[k])}
Checked(m, h) == /\ m.status = 200 \/ m.step = "ask" => Len(m.headers) = 1 /\ m.headers[1] \in Colours
                 /\ m.step = "ask" => m.pinned \in Colours
                 /\ m.status = 200 => h.answer[m.pinned] = "200" /\ m.step \in {"replied", "over"}
RouterInv ==
  /\ at = <<"router", "serve">> /\ host \in RouterState
  /\ mem \in [Checks -> Check \cup {None}]
  /\ host.inFlight = Cardinality(Threads) /\ host.inFlight <= MaxConnections
  /\ \A k \in Checks : mem[k] # None => Checked(mem[k], host)

\* A check that is answered stays a check, for the same colours and the same socket.
AnsweredAs(m, s) == [m EXCEPT !.step = "replied", !.status = s]

LEMMA CheckIsAnswered ==
  ASSUME NEW m \in Check, NEW s \in {200, 503}
  PROVE  /\ AnsweredAs(m, s) \in Check /\ AnsweredAs(m, s).step = "replied" /\ AnsweredAs(m, s).status = s
         /\ AnsweredAs(m, s).headers = m.headers /\ AnsweredAs(m, s).pinned = m.pinned
<1> DEFINE first == [m EXCEPT !.step = "replied"]
           r == [first EXCEPT !.status = s]
<1>1. first \in Check /\ first.step = "replied" /\ first.headers = m.headers /\ first.pinned = m.pinned
  BY DEF Check
<1> HIDE DEF first
<1>2. r \in Check /\ r.step = "replied" /\ r.status = s /\ r.headers = m.headers /\ r.pinned = m.pinned
  BY <1>1 DEF Check
<1>3. AnsweredAs(m, s) = r
  BY DEF first, AnsweredAs
<1> QED
  BY <1>2, <1>3, Zenon

\* A connection is counted when its thread begins, no more when it is over, and else as before.
LEMMA CountMoves ==
  ASSUME RouterInv, NEW k \in Checks, NEW m \in Check \cup {None}, mem' = [mem EXCEPT ![k] = m]
  PROVE  /\ IsFiniteSet(Threads) /\ IsFiniteSet(Threads')
         /\ InThread(m) /\ ~InThread(mem[k]) => Cardinality(Threads') = host.inFlight + 1
         /\ ~InThread(m) /\ InThread(mem[k]) => Cardinality(Threads') = host.inFlight - 1
         /\ (InThread(m) <=> InThread(mem[k])) => Cardinality(Threads') = host.inFlight
<1>0. mem \in [Checks -> Check \cup {None}] /\ host.inFlight = Cardinality(Threads)
  BY DEF RouterInv
<1>1. Threads' = IF InThread(m) THEN Threads \cup {k} ELSE Threads \ {k}
  <2>1. \A j \in Checks : mem'[j] = IF j = k THEN m ELSE mem[j]
    BY <1>0
  <2> QED
    BY <2>1 DEF Threads, InThread
<1>2. IsFiniteSet(Threads)
  BY CheckAssumption, FS_Subset DEF Threads
<1>3. Cardinality(Threads \cup {k}) = IF k \in Threads THEN Cardinality(Threads) ELSE Cardinality(Threads) + 1
  BY <1>2, FS_AddElement
<1>4. Cardinality(Threads \ {k}) = IF k \in Threads THEN Cardinality(Threads) - 1 ELSE Cardinality(Threads)
  BY <1>2, FS_RemoveElement
<1>5. IsFiniteSet(Threads \cup {k}) /\ IsFiniteSet(Threads \ {k})
  BY <1>2, FS_AddElement, FS_RemoveElement
<1>6. k \in Threads <=> InThread(mem[k])
  BY DEF Threads
<1> QED
  BY <1>0, <1>1, <1>2, <1>3, <1>4, <1>5, <1>6

\* A step of one connection, that keeps the count and looks at nothing unchecked.
LEMMA ConnectionMoves ==
  ASSUME RouterInv, UNCHANGED at, NEW k \in Checks, NEW m \in Check \cup {None}, mem' = [mem EXCEPT ![k] = m],
         NEW n \in Nat, host' = [host EXCEPT !.inFlight = n], n = Cardinality(Threads'), n <= MaxConnections,
         m # None => Checked(m, host)
  PROVE  RouterInv'
<1>1. /\ host' \in RouterState /\ host'.inFlight = n /\ host'.answer = host.answer
  BY DEF RouterInv, RouterState
<1>2. \A j \in Checks : mem'[j] = IF j = k THEN m ELSE mem[j]
  BY DEF RouterInv
<1>3. \A j \in Checks : mem'[j] # None => Checked(mem'[j], host')
  BY <1>1, <1>2 DEF RouterInv, Checked
<1>4. mem' \in [Checks -> Check \cup {None}]
  BY DEF RouterInv
<1> QED
  BY <1>1, <1>3, <1>4 DEF RouterInv

LEMMA RouterKeeps == RouterInv /\ RouterNext => RouterInv'
<1> SUFFICES ASSUME RouterInv, RouterNext PROVE RouterInv'
  OBVIOUS
<1>0. /\ host \in RouterState /\ host.inFlight \in Nat /\ host.inFlight <= MaxConnections
      /\ mem \in [Checks -> Check \cup {None}] /\ host.inFlight = Cardinality(Threads)
      /\ host = [host EXCEPT !.inFlight = host.inFlight]
  BY DEF RouterInv, RouterState
<1>1. ASSUME NEW k \in Checks, mem[k] # None
      PROVE  mem[k] \in Check /\ Checked(mem[k], host)
  BY <1>1 DEF RouterInv
\* What is in a thread is counted: giving one back leaves a natural number.
<1>2. ASSUME NEW k \in Checks, InThread(mem[k]) PROVE host.inFlight - 1 \in Nat
  <2>1. k \in Threads /\ IsFiniteSet(Threads)
    BY <1>2, CheckAssumption, FS_Subset DEF Threads
  <2>2. Cardinality(Threads) # 0
    BY <2>1, FS_EmptySet
  <2> QED
    BY <1>0, <2>2
<1>3. ASSUME NEW k \in Checks, NEW headers \in Headers, Connects(k, headers) PROVE RouterInv'
  <2>0. UNCHANGED at /\ mem[k] = None /\ ~InThread(mem[k])
    BY <1>3 DEF Connects, InThread
  <2>1. CASE host.inFlight < MaxConnections
    <3> DEFINE m == [step |-> "thread", headers |-> headers, pinned |-> None, status |-> None]
               n == host.inFlight + 1
    <3>1. mem' = [mem EXCEPT ![k] = m] /\ host' = [host EXCEPT !.inFlight = n]
      BY <1>3, <2>1 DEF Connects
    <3>2. m \in Check /\ m # None /\ Checked(m, host) /\ InThread(m)
      <4>1. m \in Check /\ m.status = None /\ m.step = "thread" /\ None # 200
        BY ValueAssumption DEF Check
      <4>2. m # None
        BY <4>1, CheckAssumption
      <4> QED
        BY <4>1, <4>2 DEF Checked, InThread
    <3>3. n \in Nat /\ n <= MaxConnections
      BY <1>0, <2>1 DEF MaxConnections
    <3>4. n = Cardinality(Threads')
      BY <2>0, <3>1, <3>2, CountMoves
    <3> HIDE DEF n, m
    <3> QED
      BY <2>0, <3>1, <3>2, <3>3, <3>4, ConnectionMoves
  <2>2. CASE ~(host.inFlight < MaxConnections)
    <3> DEFINE m == [step |-> "over", headers |-> headers, pinned |-> None, status |-> 503]
    <3>1. mem' = [mem EXCEPT ![k] = m] /\ host' = host
      BY <1>3, <2>2 DEF Connects
    <3>2. m \in Check /\ Checked(m, host) /\ ~InThread(m)
      BY DEF Check, Checked, InThread
    <3> HIDE DEF m
    <3>3. host.inFlight = Cardinality(Threads')
      BY <1>0, <2>0, <3>1, <3>2, CountMoves
    <3> QED
      BY <1>0, <2>0, <3>1, <3>2, <3>3, ConnectionMoves
  <2> QED
    BY <2>1, <2>2
<1>4. ASSUME NEW k \in Checks, ThreadStarts(k) PROVE RouterInv'
  <2>0. UNCHANGED at /\ mem[k] # None /\ mem[k].step = "thread" /\ InThread(mem[k])
    BY <1>4 DEF ThreadStarts, Serves, InThread
  <2>1. CASE mem' = [mem EXCEPT ![k].step = "pin"] /\ UNCHANGED host
    <3> DEFINE m == [mem[k] EXCEPT !.step = "pin"]
    <3>1. mem' = [mem EXCEPT ![k] = m] /\ m \in Check /\ Checked(m, host) /\ InThread(m)
      BY <1>0, <1>1, <2>0, <2>1, CheckAssumption DEF Check, Checked, InThread
    <3>2. host.inFlight = Cardinality(Threads')
      BY <1>0, <2>0, <3>1, CountMoves
    <3> HIDE DEF m
    <3> QED
      BY <1>0, <2>0, <2>1, <3>1, <3>2, ConnectionMoves
  <2>2. CASE mem' = [mem EXCEPT ![k].step = "over"] /\ host' = [host EXCEPT !.inFlight = @ - 1]
    <3> DEFINE m == [mem[k] EXCEPT !.step = "over"]
               n == host.inFlight - 1
    <3>1. mem' = [mem EXCEPT ![k] = m] /\ host' = [host EXCEPT !.inFlight = n]
      BY <2>2
    <3>2. m \in Check /\ Checked(m, host) /\ ~InThread(m)
      BY <1>0, <1>1, <2>0 DEF Check, Checked, InThread
    <3>3. n \in Nat /\ n <= MaxConnections
      BY <1>0, <1>2, <2>0 DEF MaxConnections
    <3>4. n = Cardinality(Threads')
      BY <2>0, <3>1, <3>2, CountMoves
    <3> HIDE DEF n, m
    <3> QED
      BY <2>0, <3>1, <3>2, <3>3, <3>4, ConnectionMoves
  <2> QED
    BY <1>4, <2>1, <2>2 DEF ThreadStarts, Serves
\* A thread goes on: it stays counted.
<1>5. ASSUME NEW k \in Checks, NEW m \in Check, InThread(mem[k]), mem' = [mem EXCEPT ![k] = m], UNCHANGED <<at, host>>,
             m.step # "over", Checked(m, host)
      PROVE  RouterInv'
  <2>1. InThread(m)
    BY <1>5, CheckAssumption DEF InThread
  <2>2. host.inFlight = Cardinality(Threads')
    BY <1>0, <1>5, <2>1, CountMoves
  <2> QED
    BY <1>0, <1>5, <2>2, ConnectionMoves
<1>6. ASSUME NEW k \in Checks, PinSocket(k) PROVE RouterInv'
  <2> DEFINE c == NamedColour(mem[k].headers)
             refused == AnsweredAs(mem[k], 503)
             pinned == [mem[k] EXCEPT !.step = "ask", !.pinned = host.dir[c]]
  <2>0. /\ UNCHANGED <<at, host>> /\ mem[k] # None /\ mem[k].step = "pin" /\ InThread(mem[k])
        /\ mem[k] \in Check /\ mem[k].status # 200
    BY <1>1, <1>6 DEF PinSocket, Serves, InThread, Checked
  <2>1. CASE mem' = [mem EXCEPT ![k] = refused]
    <3>1. refused \in Check /\ refused.step = "replied" /\ refused.status = 503
      BY <2>0, CheckIsAnswered
    <3> HIDE DEF refused
    <3>2. Checked(refused, host)
      BY <3>1 DEF Checked
    <3>3. refused \in Check /\ refused.step # "over"
      BY <3>1
    <3> HIDE DEF pinned, c
    <3> QED
      BY <1>5, <2>0, <2>1, <3>2, <3>3
  <2>2. CASE mem' = [mem EXCEPT ![k] = pinned] /\ c # None
    <3>1. Len(mem[k].headers) = 1 /\ mem[k].headers[1] \in Colours /\ c \in Colours
      BY <2>2 DEF NamedColour
    <3>2. host.dir[c] \in Colours
      BY <1>0, <3>1 DEF RouterState
    <3>3. /\ pinned \in Check /\ pinned.step = "ask" /\ pinned.status = mem[k].status
          /\ pinned.headers = mem[k].headers /\ pinned.pinned \in Colours
      BY <2>0, <3>2 DEF Check
    <3>4. Checked(pinned, host)
      BY <2>0, <3>1, <3>3 DEF Checked
    <3> HIDE DEF pinned
    <3> QED
      BY <1>5, <2>0, <2>2, <3>3, <3>4
  <2> QED
    <3>1. mem' = [mem EXCEPT ![k].step = "replied", ![k].status = 503] => mem' = [mem EXCEPT ![k] = refused]
      <4> DEFINE first == [mem[k] EXCEPT !.step = "replied"]
                 replied == [mem EXCEPT ![k] = first]
      <4>1. replied[k] = first
        BY <1>0
      <4>2. [mem EXCEPT ![k].step = "replied", ![k].status = 503] = [replied EXCEPT ![k] = [replied[k] EXCEPT !.status = 503]]
        OBVIOUS
      <4>3. refused = [first EXCEPT !.status = 503]
        BY DEF AnsweredAs
      <4>4. ASSUME NEW m PROVE [replied EXCEPT ![k] = m] = [mem EXCEPT ![k] = m]
        <5> HIDE DEF first
        <5> QED
          BY <1>0
      <4> HIDE DEF first, replied, refused
      <4>5. [replied EXCEPT ![k] = [replied[k] EXCEPT !.status = 503]] = [replied EXCEPT ![k] = refused]
        BY <4>1, <4>3
      <4>6. [replied EXCEPT ![k] = refused] = [mem EXCEPT ![k] = refused]
        BY <4>4
      <4> QED
        BY <4>2, <4>5, <4>6, Zenon
    <3>2. mem' = [mem EXCEPT ![k].step = "ask", ![k].pinned = host.dir[c]] => mem' = [mem EXCEPT ![k] = pinned]
      <4> DEFINE first == [mem[k] EXCEPT !.step = "ask"]
                 asked == [mem EXCEPT ![k] = first]
      <4>1. asked[k] = first
        BY <1>0
      <4>2. [mem EXCEPT ![k].step = "ask", ![k].pinned = host.dir[c]]
              = [asked EXCEPT ![k] = [asked[k] EXCEPT !.pinned = host.dir[c]]]
        OBVIOUS
      <4>3. pinned = [first EXCEPT !.pinned = host.dir[c]]
        OBVIOUS
      <4>4. ASSUME NEW m PROVE [asked EXCEPT ![k] = m] = [mem EXCEPT ![k] = m]
        <5> HIDE DEF first
        <5> QED
          BY <1>0
      <4> HIDE DEF first, asked, pinned, c
      <4>5. [asked EXCEPT ![k] = [asked[k] EXCEPT !.pinned = host.dir[c]]] = [asked EXCEPT ![k] = pinned]
        BY <4>1, <4>3
      <4>6. [asked EXCEPT ![k] = pinned] = [mem EXCEPT ![k] = pinned]
        BY <4>4
      <4> QED
        BY <4>2, <4>5, <4>6, Zenon
    <3> HIDE DEF refused, pinned
    <3> QED
      BY <1>6, <2>1, <2>2, <3>1, <3>2 DEF PinSocket, RepliesWith
<1>7. ASSUME NEW k \in Checks, AskSidecar(k) PROVE RouterInv'
  <2> DEFINE s == IF host.answer[mem[k].pinned] = "200" THEN 200 ELSE 503
             m == AnsweredAs(mem[k], s)
  <2>1. /\ UNCHANGED <<at, host>> /\ mem[k] # None /\ mem[k].step = "ask" /\ InThread(mem[k])
        /\ mem' = [mem EXCEPT ![k].step = "replied", ![k].status = s]
    BY <1>7 DEF AskSidecar, Serves, InThread, RepliesWith
  <2>2. /\ m \in Check /\ m.step = "replied" /\ m.status = s /\ m.headers = mem[k].headers
        /\ m.pinned = mem[k].pinned
    <3>1. s \in {200, 503} /\ mem[k] \in Check
      BY <1>1, <2>1
    <3> HIDE DEF s
    <3> QED
      BY <3>1, CheckIsAnswered
  <2>3. Checked(m, host)
    BY <1>1, <2>1, <2>2 DEF Checked
  <2>4. mem' = [mem EXCEPT ![k] = m]
    <3> DEFINE first == [mem[k] EXCEPT !.step = "replied"]
               replied == [mem EXCEPT ![k] = first]
    <3> HIDE DEF s
    <3>1. mem' = [replied EXCEPT ![k] = [replied[k] EXCEPT !.status = s]]
      BY <2>1
    <3>2. replied[k] = first
      BY <1>0
    <3>3. m = [first EXCEPT !.status = s]
      BY DEF AnsweredAs
    <3> HIDE DEF m, first
    <3>4. [replied EXCEPT ![k] = m] = [mem EXCEPT ![k] = m]
      BY <1>0
    <3> HIDE DEF replied
    <3>5. [replied EXCEPT ![k] = [replied[k] EXCEPT !.status = s]] = [replied EXCEPT ![k] = m]
      BY <3>2, <3>3
    <3> QED
      BY <3>1, <3>4, <3>5, Zenon
  <2> HIDE DEF m
  <2> QED
    BY <1>5, <2>1, <2>2, <2>3, <2>4
<1>8. ASSUME NEW k \in Checks, ThreadEnds(k) PROVE RouterInv'
  <2> DEFINE m == [mem[k] EXCEPT !.step = "over"]
             n == host.inFlight - 1
  <2>1. /\ UNCHANGED at /\ mem[k] # None /\ mem[k].step = "replied" /\ InThread(mem[k])
        /\ mem' = [mem EXCEPT ![k] = m] /\ host' = [host EXCEPT !.inFlight = n]
    BY <1>8 DEF ThreadEnds, Serves, InThread
  <2>2. m \in Check /\ Checked(m, host) /\ ~InThread(m)
    BY <1>1, <2>1 DEF Check, Checked, InThread
  <2>3. n \in Nat /\ n <= MaxConnections
    BY <1>0, <1>2, <2>1 DEF MaxConnections
  <2>4. n = Cardinality(Threads')
    BY <2>1, <2>2, CountMoves
  <2> HIDE DEF n, m
  <2> QED
    BY <2>1, <2>2, <2>3, <2>4, ConnectionMoves
<1>9. ASSUME NEW k \in Checks, Closed(k) PROVE RouterInv'
  <2>1. UNCHANGED <<at, host>> /\ ~InThread(mem[k]) /\ ~InThread(None) /\ mem' = [mem EXCEPT ![k] = None]
    BY <1>9 DEF Closed, Serves, InThread
  <2>2. host.inFlight = Cardinality(Threads')
    BY <1>0, <2>1, CountMoves
  <2> QED
    BY <1>0, <2>1, <2>2, ConnectionMoves
<1>10. CASE DirectoriesMove
  <2>1. UNCHANGED <<at, mem>>
    BY <1>10 DEF DirectoriesMove
  <2>2. host' \in RouterState /\ host'.inFlight = host.inFlight /\ host'.answer = host.answer
    <3>1. CASE host' = [host EXCEPT !.dir = [a |-> "b", b |-> "a"]]
      <4>1. [a |-> "b", b |-> "a"] \in [Colours -> Colours]
        BY DEF Colours
      <4> QED
        BY <1>0, <3>1, <4>1 DEF RouterState
    <3>2. CASE \E c \in Colours : host' = [host EXCEPT !.private[c] = FALSE]
      <4>1. PICK c \in Colours : host' = [host EXCEPT !.private[c] = FALSE]
        BY <3>2
      <4> DEFINE p == [host.private EXCEPT ![c] = FALSE]
      <4>2. p \in [Colours -> BOOLEAN]
        BY <1>0 DEF RouterState
      <4>3. host' = [host EXCEPT !.private = p]
        BY <4>1
      <4> HIDE DEF p
      <4> QED
        BY <1>0, <4>2, <4>3 DEF RouterState
    <3> QED
      BY <1>10, <3>1, <3>2 DEF DirectoriesMove
  <2>3. Threads' = Threads
    BY <2>1 DEF Threads
  <2> QED
    BY <1>0, <2>1, <2>2, <2>3 DEF RouterInv, Checked
<1> QED
  BY <1>3, <1>4, <1>6, <1>7, <1>8, <1>9, <1>10 DEF RouterNext

---------------------------------------------------------------------------
(* The opening of the demo, and the three programs together.               *)

Statuses == {"clean", "stand-in", "no list", "unreadable"}
GoLiveState == [status : [1..2 -> Statuses], clock : {"yes", "no", "hung"}, open : BOOLEAN]
GoLiveRun == [slot : 1..3, seen : Seq(Statuses), verdict : {None, "done", "refused"}]
GoLiveInv ==
  /\ at \in {"golive"} \X {"slot", "judge", "ended"} /\ host \in GoLiveState /\ mem \in GoLiveRun
  /\ at[2] = "slot" => mem.slot \in 1..2 /\ Len(mem.seen) = mem.slot - 1
  /\ at[2] = "judge" => Len(mem.seen) = 2
  /\ at[2] # "ended" => ~host.open
  /\ OpenedOnlyIfClean

LEMMA GoLiveKeeps == GoLiveInv /\ GoLiveNext => GoLiveInv'
<1> SUFFICES ASSUME GoLiveInv, GoLiveNext PROVE GoLiveInv'
  OBVIOUS
<1>0. host \in GoLiveState /\ mem \in GoLiveRun
  BY DEF GoLiveInv
<1>1. CASE ReadSlotStatus
  <2> DEFINE n == mem.slot + 1
             seen == Append(mem.seen, host.status[mem.slot])
  <2>1. /\ at = <<"golive", "slot">> /\ UNCHANGED host /\ mem' = [mem EXCEPT !.slot = n, !.seen = seen]
        /\ at' = IF mem.slot = 2 THEN <<"golive", "judge">> ELSE at
    BY <1>1 DEF ReadSlotStatus, At, Goto
  <2>2. mem.slot \in 1..2 /\ Len(mem.seen) = mem.slot - 1 /\ ~host.open
    BY <2>1 DEF GoLiveInv
  <2>3. n \in 1..3 /\ seen \in Seq(Statuses) /\ Len(seen) = n - 1
    <3>1. host.status[mem.slot] \in Statuses /\ mem.seen \in Seq(Statuses)
      BY <1>0, <2>2 DEF GoLiveState, GoLiveRun
    <3> QED
      BY <2>2, <3>1
  <2>4. n = IF mem.slot = 2 THEN 3 ELSE 2
    BY <2>2
  <2> HIDE DEF n, seen
  <2>5. mem' \in GoLiveRun /\ mem'.slot = n /\ mem'.seen = seen
    BY <1>0, <2>1, <2>3 DEF GoLiveRun
  <2>6. CASE mem.slot = 2
    BY <1>0, <2>1, <2>2, <2>3, <2>4, <2>5, <2>6 DEF GoLiveInv, OpenedOnlyIfClean
  <2>7. CASE mem.slot # 2
    <3>1. at' = <<"golive", "slot">> /\ n \in 1..2
      BY <2>1, <2>3, <2>4, <2>7
    <3> QED
      BY <1>0, <2>1, <2>2, <2>3, <2>5, <3>1 DEF GoLiveInv, OpenedOnlyIfClean
  <2> QED
    BY <2>6, <2>7
<1>2. CASE OpenDemo
  <2> DEFINE opens == SeamsClear /\ host.clock = "yes"
  <2>1. /\ at = <<"golive", "judge">> /\ at' = <<"golive", "ended">> /\ host' = [host EXCEPT !.open = opens]
        /\ mem' = [mem EXCEPT !.verdict = IF opens THEN "done" ELSE "refused"]
    BY <1>2 DEF OpenDemo, Act, At, Goto
  <2>2. Len(mem.seen) = 2 /\ mem.seen \in Seq(Statuses)
    BY <1>0, <2>1 DEF GoLiveInv, GoLiveRun
  <2>3. opens => (\A i \in 1..2 : mem.seen[i] = "clean") /\ host.clock = "yes"
    BY <2>2 DEF SeamsClear
  <2>4. opens \in BOOLEAN
    OBVIOUS
  <2> HIDE DEF opens
  <2>5. /\ host' \in GoLiveState /\ host'.open = opens /\ host'.clock = host.clock
        /\ mem' \in GoLiveRun /\ mem'.seen = mem.seen
    BY <1>0, <2>1, <2>4 DEF GoLiveState, GoLiveRun
  <2> QED
    BY <2>1, <2>2, <2>3, <2>5 DEF GoLiveInv, OpenedOnlyIfClean
<1>3. CASE BrokerReloads
  <2>1. PICK n \in 1..2 : host' = [host EXCEPT !.status[n] = "clean"]
    BY <1>3 DEF BrokerReloads
  <2>2. at = <<"golive", "slot">> /\ UNCHANGED <<at, mem>>
    BY <1>3 DEF BrokerReloads, At
  <2> DEFINE s == [host.status EXCEPT ![n] = "clean"]
  <2>3. s \in [1..2 -> Statuses] /\ host' = [host EXCEPT !.status = s]
    BY <1>0, <2>1 DEF GoLiveState, Statuses
  <2> HIDE DEF s
  <2>4. host' \in GoLiveState /\ host'.open = host.open
    BY <1>0, <2>3 DEF GoLiveState
  <2> QED
    BY <2>2, <2>4 DEF GoLiveInv, OpenedOnlyIfClean
<1> QED
  BY <1>1, <1>2, <1>3 DEF GoLiveNext

ColourInv == (UnitInv \/ RouterInv \/ GoLiveInv) /\ faults \in Nat

LEMMA ColourStep ==
  /\ ColourNext => at[1] = "colour"
  /\ RouterNext => at[1] = "router"
  /\ GoLiveNext => at[1] = "golive"
<1>1. ColourNext => at[1] = "colour"
  <2>1. UnitStarts \/ ComposeUp => At("colour", "down") \/ At("colour", "up")
    BY DEF UnitStarts, ComposeUp, Act
  <2>2. SidecarRefuses \/ SidecarRun => At("colour", "refuse") \/ At("colour", "run")
    BY DEF SidecarRefuses, SidecarRun, Act
  <2>3. UnitStops \/ SidecarReplaced => At("colour", "active") \/ At("colour", "replace")
    BY DEF UnitStops, SidecarReplaced, Command, Act
  <2>4. StopSidecar \/ StopGhost => At("colour", "stop sidecar") \/ At("colour", "stop ghost")
    BY DEF StopSidecar, StopGhost, Command, Act
  <2>5. PostSidecar \/ PostGhost => At("colour", "post sidecar") \/ At("colour", "post ghost")
    BY DEF PostSidecar, PostGhost, Command, Act
  <2>6. ASSUME NEW step, At("colour", step) PROVE at[1] = "colour"
    BY <2>6 DEF At
  <2> QED
    BY <2>1, <2>2, <2>3, <2>4, <2>5, <2>6 DEF ColourNext
<1>2. ASSUME RouterNext PROVE at = <<"router", "serve">>
  <2>1. ASSUME NEW k \in Checks, \E headers \in Headers : Connects(k, headers) PROVE at = <<"router", "serve">>
    BY <2>1 DEF Connects, At
  <2>2. ASSUME NEW k \in Checks, ThreadStarts(k) \/ PinSocket(k) \/ AskSidecar(k) \/ ThreadEnds(k) \/ Closed(k)
        PROVE  at = <<"router", "serve">>
    BY <2>2 DEF ThreadStarts, PinSocket, AskSidecar, ThreadEnds, Closed, Serves, At
  <2> QED
    BY <1>2, <2>1, <2>2 DEF RouterNext, DirectoriesMove, At
<1>3. GoLiveNext => at[1] = "golive"
  BY DEF GoLiveNext, ReadSlotStatus, OpenDemo, BrokerReloads, Act, At
<1> QED
  BY <1>1, <1>2, <1>3

LEMMA ColourIsInductive ==
  /\ ColourInit \/ RouterInit \/ GoLiveInit => ColourInv
  /\ ColourInv /\ [ColourNext \/ RouterNext \/ GoLiveNext]_programVars => ColourInv'
  /\ ColourInv => ColourHolds
<1>1. ColourInit \/ RouterInit \/ GoLiveInit => ColourInv
  <2>1. ASSUME ColourInit PROVE UnitInv
    <3>1. at = <<"colour", "down">> /\ faults = 0 /\ host.ghost = None /\ host.sidecar = None
      BY <2>1 DEF ColourInit
    <3>2. host \in UnitState
      BY <2>1 DEF ColourInit, UnitState
    <3> QED
      BY <3>1, <3>2 DEF UnitInv, UnitSteps
  <2>2. ASSUME RouterInit PROVE RouterInv
    <3>1. Threads = {}
      BY <2>2 DEF RouterInit, Threads, InThread
    <3>2. host \in RouterState /\ host.inFlight = 0
      <4>1. [c \in Colours |-> c] \in [Colours -> Colours]
        OBVIOUS
      <4> QED
        BY <2>2, <4>1 DEF RouterInit, RouterState
    <3> QED
      BY <2>2, <3>1, <3>2, FS_EmptySet DEF RouterInit, RouterInv, MaxConnections
  <2>3. ASSUME GoLiveInit PROVE GoLiveInv
    <3>1. /\ at = <<"golive", "slot">> /\ mem = [slot |-> 1, seen |-> <<>>, verdict |-> None]
          /\ host \in GoLiveState /\ ~host.open
      BY <2>3 DEF GoLiveInit, GoLiveState, Statuses
    <3>2. <<>> \in Seq(Statuses) /\ Len(<<>>) = 0
      OBVIOUS
    <3>3. mem \in GoLiveRun /\ mem.slot = 1 /\ Len(mem.seen) = 0
      BY <3>1, <3>2 DEF GoLiveRun
    <3> QED
      BY <3>1, <3>3 DEF GoLiveInv, OpenedOnlyIfClean
  <2> QED
    <3>1. ColourInit \/ RouterInit \/ GoLiveInit => faults = 0
      BY DEF ColourInit, RouterInit, GoLiveInit
    <3> QED
      BY <2>1, <2>2, <2>3, <3>1 DEF ColourInv
<1>2. ColourInv /\ [ColourNext \/ RouterNext \/ GoLiveNext]_programVars => ColourInv'
  <2> SUFFICES ASSUME ColourInv, [ColourNext \/ RouterNext \/ GoLiveNext]_programVars PROVE ColourInv'
    OBVIOUS
  <2>1. faults' \in Nat
    <3>1. faults' = faults \/ faults' = faults + 1
      <4>1. ColourNext => faults' = faults \/ faults' = faults + 1
        BY DEF ColourNext, UnitStarts, ComposeUp, SidecarRefuses, SidecarReplaced, SidecarRun, UnitStops, StopSidecar,
               StopGhost, PostSidecar, PostGhost, Command, Act, Fault
      <4>2. RouterNext => faults' = faults \/ faults' = faults + 1
        BY DEF RouterNext, Connects, ThreadStarts, PinSocket, AskSidecar, ThreadEnds, Closed, Serves, DirectoriesMove, Fault
      <4>3. GoLiveNext => faults' = faults \/ faults' = faults + 1
        BY DEF GoLiveNext, ReadSlotStatus, OpenDemo, BrokerReloads, Act, Fault
      <4> QED
        BY <4>1, <4>2, <4>3 DEF programVars
    <3> QED
      BY <3>1 DEF ColourInv
  <2>2. CASE UnitInv
    <3>1. at[1] = "colour"
      BY <2>2 DEF UnitInv
    <3>2. CASE UNCHANGED programVars
      <4>1. Used' = Used
        BY <3>2 DEF programVars, Used, Refusal
      <4> QED
        BY <2>1, <2>2, <3>2, <4>1 DEF ColourInv, UnitInv, programVars
    <3> QED
      BY <2>1, <2>2, <3>1, <3>2, UnitKeeps, ColourStep DEF ColourInv
  <2>3. CASE RouterInv
    <3>1. at[1] = "router"
      BY <2>3 DEF RouterInv
    <3>2. CASE UNCHANGED programVars
      BY <2>1, <2>3, <3>2 DEF ColourInv, RouterInv, Threads, programVars
    <3> QED
      BY <2>1, <2>3, <3>1, <3>2, RouterKeeps, ColourStep DEF ColourInv
  <2>4. CASE GoLiveInv
    <3>1. at[1] = "golive"
      BY <2>4 DEF GoLiveInv
    <3>2. CASE UNCHANGED programVars
      BY <2>1, <2>4, <3>2 DEF ColourInv, GoLiveInv, OpenedOnlyIfClean, programVars
    <3> QED
      BY <2>1, <2>4, <3>1, <3>2, GoLiveKeeps, ColourStep DEF ColourInv
  <2> QED
    BY <2>2, <2>3, <2>4 DEF ColourInv
<1>3. ColourInv => ColourHolds
  <2>1. CASE UnitInv
    <3>1. at[1] = "colour"
      BY <2>1 DEF UnitInv
    <3>2. OneFailureLeavesNothing
      <4>1. At("colour", "down") /\ Used <= 1 => host.ghost = None /\ host.sidecar = None
        BY <2>1 DEF UnitInv, At
      <4> QED
        BY <4>1 DEF OneFailureLeavesNothing, Used, Refusal
    <3>3. SidecarIsGhosts
      BY <2>1 DEF UnitInv, SidecarIsGhosts, At
    <3> QED
      BY <3>1, <3>2, <3>3 DEF ColourHolds, CountIsThreads, HealthyIsChecked, OpenedOnlyIfClean
  <2>2. CASE RouterInv
    <3>1. at[1] = "router"
      BY <2>2 DEF RouterInv
    <3>2. CountIsThreads
      BY <2>2 DEF RouterInv, CountIsThreads, Threads, InThread
    <3>3. HealthyIsChecked
      BY <2>2 DEF RouterInv, HealthyIsChecked, Checked
    <3> QED
      BY <3>1, <3>2, <3>3 DEF ColourHolds, OneFailureLeavesNothing, SidecarIsGhosts, OpenedOnlyIfClean, At
  <2>3. CASE GoLiveInv
    <3>1. at[1] = "golive" /\ OpenedOnlyIfClean
      BY <2>3 DEF GoLiveInv
    <3> QED
      BY <3>1 DEF ColourHolds, OneFailureLeavesNothing, SidecarIsGhosts, CountIsThreads, HealthyIsChecked, At
  <2> QED
    BY <2>1, <2>2, <2>3 DEF ColourInv
<1> QED
  BY <1>1, <1>2, <1>3

\* One failure leaves nothing of a colour running, a colour that is up has its own sidecar, the
\* router's count is its threads and its answers are of what it checked, and the demo opens only
\* when all was read as clean: however many checks there are and however often Ghost starts.
THEOREM ColoursAreHonest == ColourSpec => []ColourHolds
BY ColourIsInductive, PTL DEF ColourSpec
=============================================================================
