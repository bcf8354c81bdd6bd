------------------------------ MODULE JumpKeys ------------------------------
(***************************************************************************)
(* The jump account's key file and sshd drop-in (role ci_jump). The module *)
(* ci_jump_authorized_keys judges and reads back; the role writes the two  *)
(* files, checks the configuration, reloads sshd, and retires the earlier  *)
(* hand-made layout, which the running sshd may still be serving from. A   *)
(* file is None, "old" (written for other inputs) or "new" (the wanted     *)
(* text); sshd serves what it last loaded, and reads a key file when a     *)
(* connection comes.                                                       *)
(***************************************************************************)
EXTENDS Program

\* A file that is there is no missing one.
ASSUME JumpAssumption == None \notin {"old", "new"}

Earlier == [key : {None, "old", "new"}, dropin : {None, "old", "new"},
            legacyKey : BOOLEAN, legacyDropin : BOOLEAN, legacyDir : {"none", "own", "shared"}]

\* What sshd loads: its drop-ins. The new one sorts ahead of the earlier layout's.
OnDisk == [dropin |-> host.dropin, legacy |-> host.legacyDropin]
Files == [f \in {"key", "dropin", "legacyKey", "legacyDropin", "legacyDir"} |-> host[f]]

JumpInit ==
  /\ at = <<"jump", "idle">> /\ mem = None /\ faults = 0
  /\ \E f \in Earlier, sshd \in {"takes", "ignores", "unfixable"} :
       /\ (f.dropin # None) = (f.key # None)
       /\ f.legacyDropin => f.legacyKey
       /\ f.legacyKey = (f.legacyDir # "none")
       /\ host = [key |-> f.key, dropin |-> f.dropin, legacyKey |-> f.legacyKey,
                  legacyDropin |-> f.legacyDropin, legacyDir |-> f.legacyDir,
                  marker |-> FALSE, sshd |-> sshd, broken |-> FALSE,
                  running |-> [dropin |-> f.dropin, legacy |-> f.legacyDropin]]

---------------------------------------------------------------------------
\* The inputs, judged one after the other: the first that does not fit is what the play says.
Refusals == {"E-USER-EMPTY", "E-USER-SHAPE", "E-USER-FORBIDDEN", "E-DEST-EMPTY", "E-DEST-SHAPE",
             "E-DEST-DUPLICATE", "E-OWN-SHAPE", "E-OWN-PRIVATE", "E-DEST-OWN", "E-KEY-EMPTY",
             "E-KEY-SHAPE", "E-KEY-DUPLICATE", "E-USER-ABSENT", "E-USER-SHELL"}

\* What the drop-in cannot put right; sshd -T also needs a configuration it can read.
Unfixable == host.sshd = "unfixable" \/ host.broken

\* A managed file is not as wanted, or a file of the earlier layout is still there.
FilesAsWanted == host.key = "new" /\ host.dropin = "new"
LegacyPresent == host.legacyKey \/ host.legacyDropin
Pending == ~FilesAsWanted \/ LegacyPresent

\* The read-back asks sshd -T, which reads the files on disk, not the running sshd.
ReadsBack(legacyGone) ==
  host.sshd = "takes" /\ ~host.broken /\ FilesAsWanted /\ (legacyGone => ~LegacyPresent)

---------------------------------------------------------------------------
\* The play.

Play(from, to) == Act("jump", from, to)
Same == UNCHANGED mem
Writes(from, to, h) == Play(from, to) /\ host' = h /\ Same

JumpPlans ==
  \E refusal \in {None} \cup Refusals :
    /\ At("jump", "idle") /\ UNCHANGED host
    /\ IF refusal # None \/ Unfixable
       THEN Play("idle", "ended") /\ mem' = [verdict |-> "refused", before |-> Files]
       ELSE /\ Play("idle", "mark")
            /\ mem' = [verdict |-> None, before |-> Files, pending |-> Pending,
                       owed |-> host.marker, changed |-> FALSE, retired |-> FALSE]

MutMarkReloadOwed == Writes("mark", "key", host)
MarkReloadOwed ==
  Writes("mark", "key", [host EXCEPT !.marker = @ \/ mem.pending])

WriteKeyFile ==
  /\ Play("key", "dropin") /\ host' = [host EXCEPT !.key = "new"]
  /\ mem' = [mem EXCEPT !.changed = host.key # "new"]
WriteDropin ==
  /\ Play("dropin", "check") /\ host' = [host EXCEPT !.dropin = "new"]
  /\ mem' = [mem EXCEPT !.changed = @ \/ host.dropin # "new"]

\* A failed check, reload or read-back sends the play to its rescue.
CheckConfig(from, to, needed) ==
  /\ At("jump", from) /\ UNCHANGED <<mem, host, faults>>
  /\ IF needed /\ host.broken THEN Goto("jump", "rescue directory") ELSE Goto("jump", to)
ReloadSshd(from, to, needed) ==
  /\ At("jump", from) /\ UNCHANGED <<mem, faults>>
  /\ IF needed /\ host.broken THEN Goto("jump", "rescue directory") /\ UNCHANGED host
     ELSE Goto("jump", to) /\ host' = IF needed THEN [host EXCEPT !.running = OnDisk] ELSE host
ReadBackFiles(from, to, needed, legacyGone) ==
  /\ At("jump", from) /\ UNCHANGED <<mem, host, faults>>
  /\ IF needed /\ ~ReadsBack(legacyGone) THEN Goto("jump", "rescue directory") ELSE Goto("jump", to)

CheckNew == CheckConfig("check", "reload", TRUE)
MutReloadNew == ReloadSshd("reload", "read back", mem.changed)  \* for what this play wrote
ReloadNew == ReloadSshd("reload", "read back", mem.changed \/ mem.owed)
ReadBackNew == ReadBackFiles("read back", "retire dropin", TRUE, FALSE)

RetireDropin ==
  /\ Play("retire dropin", "retire key") /\ host' = [host EXCEPT !.legacyDropin = FALSE]
  /\ mem' = [mem EXCEPT !.retired = host.legacyDropin]
RetireKey ==
  /\ Play("retire key", "retire directory") /\ host' = [host EXCEPT !.legacyKey = FALSE]
  /\ mem' = [mem EXCEPT !.retired = @ \/ host.legacyKey]
\* The directory goes only when nothing else is in it.
RetireDirectory ==
  Writes("retire directory", "check again", [host EXCEPT !.legacyDir = IF @ = "own" THEN "none" ELSE @])

CheckRetired == CheckConfig("check again", "reload again", mem.retired)
ReloadRetired == ReloadSshd("reload again", "read back again", mem.retired)
ReadBackRetired == ReadBackFiles("read back again", "unmark", mem.retired, TRUE)

JumpDone ==
  /\ Play("unmark", "ended") /\ host' = [host EXCEPT !.marker = FALSE]
  /\ mem' = [mem EXCEPT !.verdict = "done"]

---------------------------------------------------------------------------
\* The rescue: the earlier layout first, the drop-in next, sshd, and the key file last.

RescueDirectory ==
  Writes("rescue directory", "rescue legacy key", [host EXCEPT !.legacyDir = mem.before.legacyDir])
RescueLegacyKey ==
  Writes("rescue legacy key", "rescue legacy dropin",
         [host EXCEPT !.legacyKey = @ \/ mem.before.legacyKey])
MutRescueLegacyDropin == Writes("rescue legacy dropin", "rescue dropin", host)
RescueLegacyDropin ==
  Writes("rescue legacy dropin", "rescue dropin",
         [host EXCEPT !.legacyDropin = @ \/ mem.before.legacyDropin])
MutRescueDropin ==  \* the key file with it, before the reload
  Writes("rescue dropin", "rescue reload",
         [host EXCEPT !.dropin = mem.before.dropin, !.key = mem.before.key])
RescueDropin ==
  Writes("rescue dropin", "rescue reload", [host EXCEPT !.dropin = mem.before.dropin])

\* Nothing is reloaded, unmarked or put back further when sshd cannot take the old files.
RescueReload ==
  /\ At("jump", "rescue reload") /\ UNCHANGED faults
  /\ IF host.broken
     THEN Goto("jump", "ended") /\ UNCHANGED host /\ mem' = [mem EXCEPT !.verdict = "half restored"]
     ELSE Goto("jump", "rescue unmark") /\ host' = [host EXCEPT !.running = OnDisk] /\ Same
RescueUnmark ==
  Writes("rescue unmark", "rescue key", [host EXCEPT !.marker = FALSE])
RescueKey ==
  /\ Play("rescue key", "ended") /\ host' = [host EXCEPT !.key = mem.before.key]
  /\ mem' = [mem EXCEPT !.verdict = "restored"]

---------------------------------------------------------------------------
\* The world: a task fails, the play dies, sshd's configuration is spoilt or mended
\* elsewhere, the host restarts.

Rescuable == {"key", "dropin", "check", "reload", "read back", "retire dropin", "retire key",
              "retire directory", "check again", "reload again", "read back again", "unmark"}
TaskFails ==
  /\ \E step \in Rescuable : At("jump", step)
  /\ Fault /\ Goto("jump", "rescue directory") /\ UNCHANGED <<mem, host>>
PlayDies ==
  /\ at[1] = "jump" /\ at[2] \notin {"idle", "ended"} /\ Fault
  /\ Goto("jump", "idle") /\ mem' = None /\ UNCHANGED host
ConfigSpoilt ==
  /\ at[1] = "jump" /\ Fault /\ UNCHANGED <<at, mem>>
  /\ host' = [host EXCEPT !.broken = ~@]
JumpRestarts ==
  /\ At("jump", "idle") /\ ~host.broken /\ Fault /\ UNCHANGED <<at, mem>>
  /\ host' = [host EXCEPT !.marker = FALSE, !.running = OnDisk]
JumpRests == Play("ended", "idle") /\ mem' = None /\ UNCHANGED host

JumpNext ==
  \/ JumpPlans \/ MarkReloadOwed \/ WriteKeyFile \/ WriteDropin \/ CheckNew \/ ReloadNew
  \/ ReadBackNew \/ RetireDropin \/ RetireKey \/ RetireDirectory \/ CheckRetired
  \/ ReloadRetired \/ ReadBackRetired \/ JumpDone
  \/ RescueDirectory \/ RescueLegacyKey \/ RescueLegacyDropin \/ RescueDropin \/ RescueReload
  \/ RescueUnmark \/ RescueKey
  \/ TaskFails \/ PlayDies \/ ConfigSpoilt \/ JumpRestarts \/ JumpRests
JumpSpec == JumpInit /\ [][JumpNext]_programVars

---------------------------------------------------------------------------
\* "The configuration sshd reads never names a file that is not there" (_write.yml), the
\* running one or the one on disk, at any point of a play, its rescue or a death of either:
\* the jump is the way in of every later pull.
Named(cfg) == IF cfg.dropin # None THEN host.key # None ELSE cfg.legacy => host.legacyKey
NamedFilesExist == at[1] = "jump" => Named(host.running) /\ Named(OnDisk)

\* A pull that dies after the write still reloads sshd: between two plays the running sshd
\* has the drop-ins that are on disk, or the marker says that a reload is owed.
ReloadDoneOrOwed == At("jump", "idle") => host.marker \/ host.running = OnDisk

\* The read-back sees the files and not the running sshd; when the play ends well the
\* running sshd has them all the same, the earlier layout is gone, no reload is owed and a
\* second run would change nothing.
JumpTruth ==
  At("jump", "ended") /\ mem.verdict = "done" =>
    /\ host.key = "new" /\ host.running = [dropin |-> "new", legacy |-> FALSE]
    /\ ~host.marker /\ ~Pending

\* "Old files restored": a play that failed, and could reload, leaves every file as it was.
\* One that could not reload says so by the marker, if it had anything to write.
RescueTruth ==
  At("jump", "ended") =>
    /\ mem.verdict = "restored" => Files = mem.before /\ host.running = OnDisk
    /\ mem.verdict = "half restored" => host.marker \/ ~mem.pending

\* What sshd reads, was told to read and is reported to read.
JumpHolds == NamedFilesExist /\ ReloadDoneOrOwed /\ JumpTruth /\ RescueTruth
=============================================================================
