----------------------------- MODULE ChannelKey -----------------------------
(***************************************************************************)
(* The content-safety channel's signing key (safety_channel_key.py): made  *)
(* once, never replaced, and its public half written beside it. Two runs   *)
(* of the module may overlap, and each may be killed at any step. A key is *)
(* abstracted to the number of the run that drew its seed, and stands for  *)
(* its public half too; a temporary file to what it was made for. The key  *)
(* has a second link while the temporary file of its seed is there, or     *)
(* when a hand made one.                                                   *)
(***************************************************************************)
EXTENDS Program

CONSTANTS Runs,       \* how many runs are started in one behaviour, two at a time
          Callers

Fit == "fit"          \* the owner and the mode the role wants
OldKey == 0           \* a key that was there before the first run

ChannelInit ==
  /\ at = <<"channel", "run">>
  /\ mem = [c \in Callers |-> None]
  /\ faults = 0
  /\ host \in [directory : {None, "other owner", Fit},
               foreign : BOOLEAN,                        \* a file that is not ours
               key : {None, OldKey, Odd},
               keyMode : {Fit, "narrow", "wide"},
               byHand : BOOLEAN,                         \* a hand linked the key elsewhere
               temps : {{}},
               public : {None, Odd},
               started : {0}]
  /\ host.directory = None => ~host.foreign /\ host.key = None /\ host.public = None
  /\ host.key = None => host.keyMode = Fit /\ ~host.byHand

Temp(kind, run) == [kind |-> kind, run |-> run]
Linked == host.byHand \/ Temp("key", host.key) \in host.temps

\* A caller's run: its number, its step, the temporary files it listed, the key it found.
Here(c, step) ==
  At("channel", "run") /\ mem[c] # None /\ mem[c].step = step /\ UNCHANGED <<at, faults>>
Then(c, step) == mem' = [mem EXCEPT ![c].step = step]
Ends(c, verdict) == mem' = [mem EXCEPT ![c].step = "ended", ![c].verdict = verdict]

ChannelStart(c) ==
  /\ At("channel", "run") /\ UNCHANGED <<at, faults>>
  /\ mem[c] = None /\ host.started < Runs
  /\ mem' = [mem EXCEPT ![c] = [run |-> host.started + 1, step |-> "list", temps |-> {},
                                found |-> None, verdict |-> "running"]]
  /\ host' = [host EXCEPT !.started = @ + 1, !.directory = IF @ = None THEN Fit ELSE @]

ListDirectory(c) ==
  /\ Here(c, "list") /\ UNCHANGED host
  /\ IF host.foreign THEN Ends(c, "foreign")
     ELSE mem' = [mem EXCEPT ![c].step = "inspect", ![c].temps = host.temps]

\* What the open key file is judged by, in the order of the code.
KeyRefusal == IF Linked THEN "linked"
              ELSE IF host.keyMode = "wide" THEN "wide"
              ELSE IF host.key = Odd THEN "form" ELSE None
Inspect(c, next) ==
  IF KeyRefusal # None /\ host.key # None THEN Ends(c, KeyRefusal)
  ELSE mem' = [mem EXCEPT ![c].step = next, ![c].found = host.key]

InspectKey(c) == Here(c, "inspect") /\ Inspect(c, "tidy") /\ UNCHANGED host

AdoptDirectory(c) ==
  /\ Here(c, "tidy") /\ host.directory # Fit
  /\ host' = [host EXCEPT !.directory = Fit] /\ UNCHANGED mem

\* The leftovers go one by one; one that another run took away is an E-IO.
RemoveTemp(c) ==
  /\ Here(c, "tidy") /\ host.directory = Fit
  /\ \E t \in mem[c].temps :
       IF t \in host.temps
       THEN host' = [host EXCEPT !.temps = @ \ {t}] /\ mem' = [mem EXCEPT ![c].temps = @ \ {t}]
       ELSE Ends(c, "io") /\ UNCHANGED host

Tidied(c) ==
  /\ Here(c, "tidy") /\ host.directory = Fit /\ mem[c].temps = {} /\ UNCHANGED host
  /\ Then(c, IF mem[c].found = None THEN "create" ELSE "adopt")

CreateTemp(c) ==
  /\ Here(c, "create") /\ Then(c, "link")
  /\ host' = [host EXCEPT !.temps = @ \cup {Temp("key", mem[c].run)}]

MutLinkKey(c) ==  \* renamed into place, over a key that is there
  /\ Here(c, "link") /\ Temp("key", mem[c].run) \in host.temps
  /\ mem' = [mem EXCEPT ![c].step = "public", ![c].found = mem[c].run]
  /\ host' = [host EXCEPT !.key = mem[c].run, !.keyMode = Fit, !.temps = @ \ {Temp("key", mem[c].run)}]
\* A link fails where the name exists: the key of another writer stands.
LinkKey(c) ==
  /\ Here(c, "link")
  /\ LET temp == Temp("key", mem[c].run)
     IN  \/ temp \notin host.temps /\ Ends(c, "io") /\ UNCHANGED host
         \/ /\ temp \in host.temps /\ host.key = None /\ Then(c, "unlink")
            /\ host' = [host EXCEPT !.key = mem[c].run, !.keyMode = Fit]
         \/ /\ temp \in host.temps /\ host.key # None /\ Then(c, "again")
            /\ host' = [host EXCEPT !.temps = @ \ {temp}]

UnlinkTemp(c) ==
  /\ Here(c, "unlink")
  /\ LET temp == Temp("key", mem[c].run)
     IN  IF temp \in host.temps
         THEN /\ host' = [host EXCEPT !.temps = @ \ {temp}]
              /\ mem' = [mem EXCEPT ![c].step = "public", ![c].found = mem[c].run]
         ELSE Ends(c, "io") /\ UNCHANGED host

MutInspectAgain(c) ==  \* the run that lost goes on with the seed it drew
  Here(c, "again") /\ UNCHANGED host
  /\ mem' = [mem EXCEPT ![c].step = "adopt", ![c].found = mem[c].run]
InspectAgain(c) == Here(c, "again") /\ Inspect(c, "adopt") /\ UNCHANGED host

AdoptKey(c) ==
  Here(c, "adopt") /\ Then(c, "public") /\ host' = [host EXCEPT !.keyMode = Fit]

PublicIsCurrent(c) == host.public = mem[c].found
WritePublic(c) ==
  /\ Here(c, "public")
  /\ IF PublicIsCurrent(c) THEN Ends(c, "done") /\ UNCHANGED host
     ELSE Then(c, "rename") /\ host' = [host EXCEPT !.temps = @ \cup {Temp("pub", mem[c].run)}]

RenamePublic(c) ==
  /\ Here(c, "rename")
  /\ LET temp == Temp("pub", mem[c].run)
     IN  IF temp \in host.temps
         THEN Ends(c, "done") /\ host' = [host EXCEPT !.temps = @ \ {temp}, !.public = mem[c].found]
         ELSE Ends(c, "io") /\ UNCHANGED host

ChannelForget(c) == Here(c, "ended") /\ mem' = [mem EXCEPT ![c] = None] /\ UNCHANGED host

\* A run is killed; what it linked and wrote stays.
ChannelKilled(c) ==
  /\ At("channel", "run") /\ UNCHANGED <<at, host>> /\ Fault
  /\ mem[c] # None /\ mem' = [mem EXCEPT ![c] = None]

ChannelNext == \E c \in Callers :
  \/ ChannelStart(c) \/ ListDirectory(c) \/ InspectKey(c) \/ AdoptDirectory(c)
  \/ RemoveTemp(c) \/ Tidied(c) \/ CreateTemp(c) \/ LinkKey(c) \/ UnlinkTemp(c)
  \/ InspectAgain(c) \/ AdoptKey(c) \/ WritePublic(c) \/ RenamePublic(c)
  \/ ChannelForget(c) \/ ChannelKilled(c)
ChannelSpec == ChannelInit /\ [][ChannelNext]_programVars

---------------------------------------------------------------------------
\* An existing key is never replaced, whatever other runs and crashes do: what the
\* clients trust is the public half they were given ("an existing key is never replaced").
KeepsKey == at[1] = "channel" /\ host.key # None => host'.key = host.key
KeyKept == [][KeepsKey]_programVars

\* A run that succeeds reports the public half of the key that is in place, and the
\* public file holds it, also when another run published first or wrote beside it.
PublicMatchesKey ==
  at[1] = "channel" => \A c \in Callers :
    mem[c] # None /\ mem[c].verdict = "done" => mem[c].found = host.key /\ host.public = host.key
=============================================================================
