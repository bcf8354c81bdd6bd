----------------------------- MODULE HostInputs -----------------------------
(***************************************************************************)
(* seed_host_inputs.py: the host's inputs file, filled from what the hand  *)
(* install left in its live files and from what the owner types, or one    *)
(* key of it changed. Two runs may be at their prompts at once. A value is *)
(* the place it was read from, or ByOwner; Odd is a place that is there and  *)
(* cannot be trusted: a link, another's file, a name given twice.          *)
(***************************************************************************)
EXTENDS Program

CONSTANTS Seeders,   \* the runs that may be under way at once
          PlacesOf   \* for each input of this host's row, where it may live, tried in order; <<>> is only ever typed

Inputs == DOMAIN PlacesOf

\* The file that is an input's own is tried before one that other inputs share.
ASSUME PlacesAssumption ==
  /\ None \notin {"own", "shared"}
  /\ \A k \in Inputs :
       /\ PlacesOf[k] \in Seq({"own", "shared"})
       /\ \A j \in DOMAIN PlacesOf[k] : PlacesOf[k][j] = "shared" => \E i \in 1..j - 1 : PlacesOf[k][i] = "own"

InputPlaces == {"own", "shared"}
ByOwner == "typed"
InputsInit ==
  /\ at = <<"seed", "run">> /\ mem = [s \in Seeders |-> None] /\ faults = 0
  /\ \E own, shared \in {None, Odd, "value"}, document \in {None, Odd} :
       host = [place |-> [p \in InputPlaces |-> IF p = "own" THEN own ELSE shared],
               file |-> document, temps |-> {}]

SeederAt(s, step) == At("seed", "run") /\ mem[s] # None /\ mem[s].step = step /\ UNCHANGED <<at, faults>>
SeederTo(s, step) == mem' = [mem EXCEPT ![s].step = step]
SeederEnds(s, verdict) == mem' = [mem EXCEPT ![s].step = "ended", ![s].verdict = verdict]
SeederNew(step, replace, key, document) ==
  [step |-> step, replace |-> replace, key |-> key, document |-> document, typed |-> {}, verdict |-> None]

StartFill(s, replace) ==
  /\ At("seed", "run") /\ mem[s] = None /\ UNCHANGED <<at, faults, host>>
  /\ IF ~replace /\ host.file # None
     THEN mem' = [mem EXCEPT ![s] = [SeederNew("ended", FALSE, None, None) EXCEPT !.verdict = "exists"]]
     ELSE mem' = [mem EXCEPT ![s] = SeederNew("collect", replace, None, None)]
\* --set takes the file as it is now, asks, and writes the whole of it again.
StartSet(s, k) ==
  /\ At("seed", "run") /\ mem[s] = None /\ UNCHANGED <<at, faults, host>>
  /\ IF host.file \in {None, Odd}
     THEN mem' = [mem EXCEPT ![s] = [SeederNew("ended", TRUE, k, None) EXCEPT !.verdict = "refused"]]
     ELSE mem' = [mem EXCEPT ![s] = SeederNew("ask", TRUE, k, host.file)]

MutUsable(p) == host.place[p] = "value"  \* what cannot be used passed over
\* The first place that is not simply absent decides: found, or the owner is asked.
Usable(p) == host.place[p] # None
LiveValue(k) ==
  LET there == {i \in DOMAIN PlacesOf[k] : Usable(PlacesOf[k][i])}
  IN  IF there = {} \/ host.place[PlacesOf[k][First(there)]] = Odd THEN None ELSE PlacesOf[k][First(there)]
CollectInputs(s) ==
  /\ SeederAt(s, "collect") /\ UNCHANGED host
  /\ mem' = [mem EXCEPT ![s].step = "ask", ![s].document = [k \in Inputs |-> LiveValue(k)]]
\* The owner gives every value that is missing, or one of them is not given and nothing is written.
AskOwner(s) ==
  /\ SeederAt(s, "ask") /\ UNCHANGED host
  /\ \/ SeederEnds(s, "missing")
     \/ LET asked == IF mem[s].key = None THEN {k \in Inputs : mem[s].document[k] = None} ELSE {mem[s].key}
        IN  mem' = [mem EXCEPT ![s].step = "write", ![s].typed = asked,
                    ![s].document = [k \in Inputs |-> IF k \in asked THEN ByOwner ELSE mem[s].document[k]]]
WriteInputsTemp(s) == SeederAt(s, "write") /\ SeederTo(s, "place") /\ host' = [host EXCEPT !.temps = @ \cup {s}]
MutPlaceFile(s) ==  \* renamed into place: whether there was a file was asked at the start
  SeederAt(s, "place") /\ SeederTo(s, "verify") /\ host' = [host EXCEPT !.file = mem[s].document, !.temps = @ \ {s}]
\* A link fails where the name exists; only a run that was told to replaces.
PlaceFile(s) ==
  /\ SeederAt(s, "place")
  /\ IF mem[s].replace \/ host.file = None
     THEN SeederTo(s, "verify") /\ host' = [host EXCEPT !.file = mem[s].document, !.temps = @ \ {s}]
     ELSE SeederEnds(s, "exists") /\ host' = [host EXCEPT !.temps = @ \ {s}]
PlaceFails(s) ==  \* a full disk or a failed sync: the temporary is taken away again
  SeederAt(s, "place") /\ SeederEnds(s, "failed") /\ host' = [host EXCEPT !.temps = @ \ {s}]
VerifyFile(s) ==
  /\ SeederAt(s, "verify") /\ UNCHANGED host
  /\ SeederEnds(s, IF host.file = mem[s].document THEN "written" ELSE "differs")
SeederForget(s) == SeederAt(s, "ended") /\ mem' = [mem EXCEPT ![s] = None] /\ UNCHANGED host
SeederDies(s) == /\ At("seed", "run") /\ mem[s] # None /\ Fault /\ mem' = [mem EXCEPT ![s] = None]
                 /\ UNCHANGED <<at, host>>
PlaceChanges == /\ At("seed", "run") /\ Fault /\ UNCHANGED <<at, mem>>
                /\ \E p \in InputPlaces, v \in {None, Odd, "value"} : host' = [host EXCEPT !.place[p] = v]

InputsNext ==
  \/ \E s \in Seeders : \/ \E replace \in BOOLEAN : StartFill(s, replace)
                        \/ \E k \in Inputs : StartSet(s, k)
                        \/ CollectInputs(s) \/ AskOwner(s) \/ WriteInputsTemp(s) \/ PlaceFile(s) \/ PlaceFails(s) \/ VerifyFile(s)
                        \/ SeederForget(s) \/ SeederDies(s)
  \/ PlaceChanges
InputsSpec == InputsInit /\ [][InputsNext]_programVars

---------------------------------------------------------------------------
\* A place that is there and cannot be used is never passed over for an older one: the value
\* another tenant's or an older install left is not what the unit reads today.
AsksOwnFirst ==
  at[1] = "seed" => \A s \in Seeders :
    mem[s] # None /\ mem[s].step = "collect" /\ mem'[s] # None /\ mem'[s].step = "ask" =>
      \A k \in Inputs : mem'[s].document[k] = "shared" => host.place["own"] = None
OwnPlaceFirst == [][AsksOwnFirst]_programVars

\* A run that was not told to replace never changes a file that is there, even one that came
\* into being while its owner was at the prompt.
OverwritesToldTo ==
  at[1] = "seed" /\ host.file # None /\ host'.file # host.file =>
    \E s \in Seeders : mem[s] # None /\ mem[s].step = "place" /\ mem[s].replace
NothingOverwritten == [][OverwritesToldTo]_programVars
=============================================================================
