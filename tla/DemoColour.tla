----------------------------- MODULE DemoColour -----------------------------
(***************************************************************************)
(* One colour of a demo slot: the unit that brings Ghost and its drain     *)
(* sidecar up and down (program "colour"), the router that answers the    *)
(* edge's health check from the sidecar's socket ("router"), and the step  *)
(* that opens the demo to visitors ("golive"). Ghost's containers are      *)
(* numbered; a sidecar is abstracted to the container whose network it     *)
(* joined. One command of docker may fail per fault.                       *)
(***************************************************************************)
EXTENDS Program

CONSTANTS Checks,      \* connections the edge may have open at once
          Starts       \* how often Ghost's container is made

MaxConnections == 1

---------------------------------------------------------------------------
\* The colour's unit: ExecStart, ExecStartPost, ExecStop, ExecStopPost.

ColourInit ==
  /\ at = <<"colour", "down">> /\ mem = None /\ faults = 0
  /\ host \in [made : {0}, ghost : {None}, sidecar : {None}, approved : BOOLEAN]

\* One command of the unit: it does its work, or fails for reasons docker has.
Command(from, to, fails, h) ==
  \/ Act("colour", from, to) /\ host' = h /\ UNCHANGED mem
  \/ At("colour", from) /\ Fault /\ Goto("colour", fails) /\ UNCHANGED <<host, mem>>

\* compose up makes a container; it may be up although the command fails.
ComposeUp ==
  /\ At("colour", "up") /\ host.made < Starts
  /\ LET h == [host EXCEPT !.made = @ + 1, !.ghost = host.made + 1]
     IN  \/ Command("up", "refuse", "post sidecar", h)
         \/ Fault /\ Goto("colour", "post sidecar") /\ host' = h /\ UNCHANGED mem
UnitStarts == Act("colour", "down", "up") /\ UNCHANGED <<host, mem>>

\* The image pin, the socket directories and the one Ghost container are looked at before
\* anything is created; then the old sidecar goes, and any failure removes the new one.
SidecarMayStart == host.approved /\ host.ghost # None
SidecarRefuses ==
  /\ Act("colour", "refuse", IF SidecarMayStart THEN "replace" ELSE "post sidecar")
  /\ UNCHANGED <<host, mem>>
MutSidecarReplaced == Act("colour", "replace", "active") /\ UNCHANGED <<host, mem>>  \* one is there: kept
SidecarReplaced == Command("replace", "run", "post sidecar", [host EXCEPT !.sidecar = None])
Joined(ghost) == [host EXCEPT !.sidecar = ghost]
SidecarRun ==
  \/ Act("colour", "run", "active") /\ host' = Joined(host.ghost) /\ UNCHANGED mem
  \/ /\ At("colour", "run") /\ Fault /\ Goto("colour", "post sidecar") /\ UNCHANGED mem
     /\ \E left \in {None, host.ghost} : host' = Joined(left)

\* A failed command of ExecStop or ExecStopPost ends its list; ExecStopPost runs always.
UnitStops == Act("colour", "active", "stop sidecar") /\ UNCHANGED <<host, mem>>
StopSidecar == Command("stop sidecar", "stop ghost", "post sidecar", [host EXCEPT !.sidecar = None])
StopGhost == Command("stop ghost", "post sidecar", "post sidecar", [host EXCEPT !.ghost = None])
PostSidecar ==
  Command("post sidecar", "post ghost", "down", [host EXCEPT !.sidecar = None])
MutPostGhost == Act("colour", "post ghost", "down") /\ UNCHANGED <<host, mem>>  \* left out
PostGhost == Command("post ghost", "down", "down", [host EXCEPT !.ghost = None])

ColourNext ==
  \/ UnitStarts \/ ComposeUp \/ SidecarRefuses \/ SidecarReplaced \/ SidecarRun
  \/ UnitStops \/ StopSidecar \/ StopGhost \/ PostSidecar \/ PostGhost

---------------------------------------------------------------------------
\* The router's server and its decision on one check.

Colours == {"a", "b"}
Headers == {<<>>, <<"a">>, <<"b">>, <<"other slot">>, <<"a", "b">>, <<"a", "a">>}
\* What the server knows of one connection, until it is closed.
Check == [step : {"thread", "pin", "ask", "replied", "over"}, headers : Headers,
          pinned : Colours \cup {None}, status : {None, 200, 503}]

ASSUME CheckAssumption == IsFiniteSet(Checks) /\ None \notin Check

RouterInit ==
  /\ at = <<"router", "serve">> /\ mem = [k \in Checks |-> None] /\ faults = 0
  /\ host \in [inFlight : {0}, dir : {[c \in Colours |-> c]},    \* which directory has the name
               private : [Colours -> BOOLEAN], answer : [Colours -> {"200", "other"}]]

Serves(k, step) == At("router", "serve") /\ UNCHANGED <<at, faults>>
                   /\ mem[k] # None /\ mem[k].step = step
RepliesWith(k, status) == mem' = [mem EXCEPT ![k].step = "replied", ![k].status = status]

\* Past the cap a connection is answered at once, without a thread.
Connects(k, headers) ==
  /\ At("router", "serve") /\ UNCHANGED <<at, faults>> /\ mem[k] = None
  /\ IF host.inFlight < MaxConnections
     THEN /\ host' = [host EXCEPT !.inFlight = @ + 1]
          /\ mem' = [mem EXCEPT ![k] = [step |-> "thread", headers |-> headers, pinned |-> None, status |-> None]]
     ELSE /\ UNCHANGED host
          /\ mem' = [mem EXCEPT ![k] = [step |-> "over", headers |-> headers, pinned |-> None, status |-> 503]]

\* The thread is started; when that fails, what was counted is given back.
MutThreadStarts(k) ==  \* nothing is given back
  \/ Serves(k, "thread") /\ mem' = [mem EXCEPT ![k].step = "pin"] /\ UNCHANGED host
  \/ /\ At("router", "serve") /\ UNCHANGED <<at, host>> /\ Fault /\ mem[k] # None
     /\ mem[k].step = "thread" /\ mem' = [mem EXCEPT ![k].step = "over"]
ThreadStarts(k) ==
  \/ Serves(k, "thread") /\ mem' = [mem EXCEPT ![k].step = "pin"] /\ UNCHANGED host
  \/ /\ At("router", "serve") /\ UNCHANGED at /\ Fault /\ mem[k] # None /\ mem[k].step = "thread"
     /\ mem' = [mem EXCEPT ![k].step = "over"] /\ host' = [host EXCEPT !.inFlight = @ - 1]

MutNamedColour(headers) == IF headers # <<>> /\ Head(headers) \in Colours THEN Head(headers) ELSE None
NamedColour(headers) ==
  IF Len(headers) = 1 /\ headers[1] \in Colours THEN headers[1] ELSE None

\* Each directory is opened once and checked; the connection goes through the last of them.
PinSocket(k) ==
  /\ Serves(k, "pin") /\ UNCHANGED host
  /\ LET c == NamedColour(mem[k].headers)
     IN  IF c = None THEN RepliesWith(k, 503)
         ELSE IF ~host.private[host.dir[c]] THEN RepliesWith(k, 503)
         ELSE mem' = [mem EXCEPT ![k].step = "ask", ![k].pinned = host.dir[c]]
AskSidecar(k) ==
  /\ Serves(k, "ask") /\ UNCHANGED host
  /\ RepliesWith(k, IF host.answer[mem[k].pinned] = "200" THEN 200 ELSE 503)
ThreadEnds(k) ==
  /\ Serves(k, "replied") /\ mem' = [mem EXCEPT ![k].step = "over"]
  /\ host' = [host EXCEPT !.inFlight = @ - 1]
Closed(k) == Serves(k, "over") /\ mem' = [mem EXCEPT ![k] = None] /\ UNCHANGED host

\* The directories are moved about or given away while a check is under way.
DirectoriesMove ==
  /\ At("router", "serve") /\ Fault /\ UNCHANGED <<at, mem>>
  /\ host' \in {[host EXCEPT !.dir = [a |-> "b", b |-> "a"]]} \cup {[host EXCEPT !.private[c] = FALSE] : c \in Colours}

RouterNext ==
  \/ \E k \in Checks :
       \/ \E headers \in Headers : Connects(k, headers)
       \/ ThreadStarts(k) \/ PinSocket(k) \/ AskSidecar(k) \/ ThreadEnds(k) \/ Closed(k)
  \/ DirectoriesMove

---------------------------------------------------------------------------
\* The step that opens the demo: every slot's stand-ins, then the clock, then the file.

GoLiveInit ==
  /\ at = <<"golive", "slot">> /\ faults = 0 /\ mem = [slot |-> 1, seen |-> <<>>, verdict |-> None]
  /\ host \in [status : [1..2 -> {"clean", "stand-in", "no list", "unreadable"}],
               clock : {"yes", "no", "hung"}, open : {FALSE}]

ReadSlotStatus ==
  /\ At("golive", "slot") /\ UNCHANGED <<faults, host>>
  /\ mem' = [mem EXCEPT !.slot = @ + 1, !.seen = Append(@, host.status[mem.slot])]
  /\ IF mem.slot = 2 THEN Goto("golive", "judge") ELSE UNCHANGED at
MutSeamsClear == \A n \in DOMAIN mem.seen : mem.seen[n] \in {"clean", "unreadable"}
SeamsClear == \A n \in DOMAIN mem.seen : mem.seen[n] = "clean"
OpenDemo ==
  /\ Act("golive", "judge", "ended")
  /\ LET opens == SeamsClear /\ host.clock = "yes"
     IN  /\ host' = [host EXCEPT !.open = opens]
         /\ mem' = [mem EXCEPT !.verdict = IF opens THEN "done" ELSE "refused"]
BrokerReloads ==
  /\ At("golive", "slot") /\ Fault /\ UNCHANGED <<at, mem>>
  /\ \E n \in 1..2 : host' = [host EXCEPT !.status[n] = "clean"]
GoLiveNext == ReadSlotStatus \/ OpenDemo \/ BrokerReloads

ColourSpec == /\ ColourInit \/ RouterInit \/ GoLiveInit
              /\ [][ColourNext \/ RouterNext \/ GoLiveNext]_programVars

---------------------------------------------------------------------------
\* One failure, of a command or of the sidecar's checks, leaves nothing running: what a
\* start or a stop could not undo, ExecStopPost does (demo_sidecar.py: "a failed start
\* leaves nothing running; the unit's ExecStopPost removes it again regardless"). A second
\* one, in ExecStopPost itself, leaves Ghost up under a unit that is down.
OneFailureLeavesNothing ==
  At("colour", "down") /\ faults + (IF host.approved THEN 0 ELSE 1) <= 1 =>
    host.ghost = None /\ host.sidecar = None

\* A colour that is up has the sidecar of its own Ghost, whatever an earlier failed start
\* or stop left behind.
SidecarIsGhosts == At("colour", "active") => host.sidecar = host.ghost /\ host.ghost # None

\* The count of connections is the number of threads, at the cap, past it and when a
\* thread cannot be started: one that leaked would refuse every later check.
CountIsThreads ==
  at[1] = "router" =>
    /\ host.inFlight = Cardinality({k \in Checks : mem[k] # None /\ mem[k].step # "over"})
    /\ host.inFlight <= MaxConnections

\* A colour is healthy to the edge only if the one header names it and the directory that
\* was checked is the one that answered, though the names move in between.
HealthyIsChecked ==
  at[1] = "router" => \A k \in Checks : mem[k] # None /\ mem[k].status = 200 =>
    /\ Len(mem[k].headers) = 1 /\ mem[k].headers[1] \in Colours
    /\ host.answer[mem[k].pinned] = "200"

\* The demo is opened only when every slot was read and found without a stand-in, and the
\* clock was synchronised: what could not be read counts as not clean.
OpenedOnlyIfClean ==
  at[1] = "golive" /\ host.open =>
    Len(mem.seen) = 2 /\ (\A n \in 1..2 : mem.seen[n] = "clean") /\ host.clock = "yes"

\* What keeps a colour's unit, its router and the opening of the demo honest about each other.
ColourHolds == OneFailureLeavesNothing /\ SidecarIsGhosts /\ CountIsThreads /\ HealthyIsChecked /\ OpenedOnlyIfClean
=============================================================================
