----------------------------- MODULE KeyProofs -----------------------------
(***************************************************************************)
(* What the programs that keep ssh keys promise, for any number of callers *)
(* and of runs, slots and keys.                                            *)
(***************************************************************************)
EXTENDS ChannelKey, JumpKeys, SlotKeys, WellFoundedInduction, TLAPS

---------------------------------------------------------------------------
(* The safety channel's key: it is never replaced, and a run that succeeds *)
(* reports the key that is in place.                                       *)

Half == {None, Odd} \cup Nat
TempFile == [kind : {"key", "pub"}, run : Nat]
Directory == [directory : {None, "other owner", Fit}, foreign : BOOLEAN, key : Half,
              keyMode : {Fit, "narrow", "wide"}, byHand : BOOLEAN, temps : SUBSET TempFile,
              public : Half, started : Nat]
Step == {"list", "inspect", "tidy", "create", "link", "unlink", "again", "adopt", "public", "rename", "ended"}
Verdict == {"running", "foreign", "linked", "wide", "form", "io", "done"}
Job == [run : Nat, step : Step, temps : SUBSET TempFile, found : Half, verdict : Verdict]

ChannelTyped == /\ at = <<"channel", "run">>
                /\ host \in Directory
                /\ mem \in [Callers -> {None} \cup Job]

\* What a run that is past its look at the key knows of the directory h: the key it found, or
\* linked, is there, and once it is done the public file holds its public half.
Remembers(m, h) ==
  /\ m.step = "tidy" /\ m.found # None => m.found = h.key
  /\ m.step \in {"adopt", "public", "rename"} => m.found # None /\ m.found = h.key
  /\ m.step = "unlink" => h.key = m.run
  /\ m.step = "again" => h.key # None
  /\ m.verdict = "done" => m.step = "ended" /\ m.found # None /\ m.found = h.key /\ h.public = h.key

ChannelInv == ChannelTyped /\ \A c \in Callers : mem[c] # None => Remembers(mem[c], host)

---------------------------------------------------------------------------
\* What any step may do to the directory: a key that is there stays, and the public file becomes
\* its public half or stays.
Grows(h, k) == /\ k \in Directory
               /\ h.key # None => k.key = h.key
               /\ k.public = h.public \/ (k.key # None /\ k.public = k.key)

LEMMA GrowthIsKnown ==
  ASSUME NEW h \in Directory, NEW k, Grows(h, k), NEW m \in Job, Remembers(m, h)
  PROVE  Remembers(m, k)
<1>1. m.run # None
  BY ValueAssumption DEF Job
<1>2. m.verdict = "done" => k.public = k.key
  BY DEF Grows, Remembers
<1> QED
  BY <1>1, <1>2 DEF Grows, Remembers

\* A step of one caller, whose run goes on as n, or is over.
LEMMA OneCallerMoves ==
  ASSUME ChannelInv, NEW c \in Callers, NEW n \in {None} \cup Job, mem' = [mem EXCEPT ![c] = n],
         n # None => Remembers(n, host'), Grows(host, host'), UNCHANGED at
  PROVE  ChannelInv'
<1>1. ChannelTyped'
  BY DEF ChannelInv, ChannelTyped, Grows
<1>2. \A d \in Callers : mem'[d] # None => Remembers(mem'[d], host')
  <2> SUFFICES ASSUME NEW d \in Callers, mem'[d] # None PROVE Remembers(mem'[d], host')
    OBVIOUS
  <2>1. CASE d = c
    BY <2>1 DEF ChannelInv, ChannelTyped
  <2>2. CASE d # c
    <3>1. mem'[d] = mem[d] /\ mem[d] \in Job /\ Remembers(mem[d], host) /\ host \in Directory
      BY <2>2 DEF ChannelInv, ChannelTyped
    <3> QED
      BY <3>1, GrowthIsKnown
  <2> QED
    BY <2>1, <2>2
<1> QED
  BY <1>1, <1>2 DEF ChannelInv, Remembers

\* The steps that leave the key and the public file alone.
LEMMA Unchanged == ASSUME ChannelInv PROVE Grows(host, host)
BY DEF ChannelInv, ChannelTyped, Grows

LEMMA TempsGrow ==
  ASSUME ChannelInv, NEW S \in SUBSET TempFile
  PROVE  Grows(host, [host EXCEPT !.temps = S])
BY DEF ChannelInv, ChannelTyped, Grows, Directory

\* What a caller's own run is at one of its steps.
LEMMA HereIsAJob ==
  ASSUME ChannelInv, NEW c \in Callers, NEW step, Here(c, step)
  PROVE  /\ mem[c] \in Job /\ mem[c].step = step /\ Remembers(mem[c], host)
         /\ Temp("key", mem[c].run) \in TempFile /\ Temp("pub", mem[c].run) \in TempFile
         /\ UNCHANGED <<at, faults>> /\ mem[c].run # None
<1>1. mem[c] \in Job /\ mem[c].step = step /\ Remembers(mem[c], host) /\ UNCHANGED <<at, faults>>
  BY DEF Here, ChannelInv, ChannelTyped
<1>2. mem[c].run \in Nat
  BY <1>1 DEF Job
<1> QED
  BY <1>1, <1>2, ValueAssumption DEF Temp, TempFile

\* A run that ends without success knows nothing any more.
LEMMA EndsKeeps ==
  ASSUME ChannelInv, NEW c \in Callers, NEW step \in Step, Here(c, step), step # "ended",
         NEW verdict \in Verdict \ {"done"}, Ends(c, verdict), Grows(host, host')
  PROVE  ChannelInv'
<1> DEFINE n == [mem[c] EXCEPT !.step = "ended", !.verdict = verdict]
<1>1. mem[c] \in Job /\ UNCHANGED at
  BY HereIsAJob
<1>2. mem' = [mem EXCEPT ![c] = n]
  BY DEF Ends
<1>3. n \in Job /\ n.step = "ended" /\ n.verdict = verdict
  BY <1>1 DEF Job, Step, Verdict
<1>4. Remembers(n, host')
  BY <1>3 DEF Remembers
<1> HIDE DEF n
<1> QED
  BY <1>1, <1>2, <1>3, <1>4, OneCallerMoves

---------------------------------------------------------------------------
\* The key is judged and, when it may be used, it is what the run goes on with.
LEMMA InspectKeeps ==
  ASSUME ChannelInv, NEW c \in Callers,
         NEW step \in {"inspect", "again"}, Here(c, step), NEW next \in {"tidy", "adopt"}, Inspect(c, next),
         step = "again" <=> next = "adopt", UNCHANGED host
  PROVE  ChannelInv'
<1>1. /\ mem[c] \in Job /\ mem[c].step = step /\ Remembers(mem[c], host) /\ UNCHANGED at
      /\ Grows(host, host') /\ host \in Directory
  BY HereIsAJob, Unchanged DEF ChannelInv, ChannelTyped
<1>2. CASE KeyRefusal # None /\ host.key # None
  <2>1. KeyRefusal \in {"linked", "wide", "form"} /\ step \in Step /\ step # "ended"
    BY <1>2 DEF KeyRefusal, Step
  <2>2. KeyRefusal \in Verdict \ {"done"} /\ Ends(c, KeyRefusal)
    BY <1>2, <2>1 DEF Verdict, Inspect
  <2> QED
    BY <1>1, <2>1, <2>2, EndsKeeps
<1>3. CASE ~(KeyRefusal # None /\ host.key # None)
  <2> DEFINE n == [mem[c] EXCEPT !.step = next, !.found = host.key]
  <2>1. mem' = [mem EXCEPT ![c] = n]
    BY <1>3 DEF Inspect
  <2>2. n \in Job /\ n.step = next /\ n.found = host.key /\ n.verdict = mem[c].verdict
    BY <1>1 DEF Job, Step, Directory
  <2>3. mem[c].verdict # "done"
    BY <1>1 DEF Remembers
  <2>4. next = "adopt" => host.key # None
    BY <1>1 DEF Remembers
  <2>5. Remembers(n, host')
    BY <2>2, <2>3, <2>4 DEF Remembers
  <2> HIDE DEF n
  <2> QED
    BY <1>1, <2>1, <2>2, <2>5, OneCallerMoves
<1> QED
  BY <1>2, <1>3

\* A run goes on to its next step and knows no less than it needs there.
LEMMA ThenKeeps ==
  ASSUME ChannelInv, NEW c \in Callers, NEW from \in Step \ {"ended"}, Here(c, from),
         NEW to \in Step \ {"ended"}, Then(c, to), Grows(host, host'),
         to \in {"adopt", "public", "rename"} => from \in {"tidy", "adopt", "public"} /\ mem[c].found # None,
         to \in {"tidy", "list", "inspect"} => FALSE,
         to = "unlink" => host'.key = mem[c].run,
         to = "again" => host'.key # None
  PROVE  ChannelInv'
<1> DEFINE n == [mem[c] EXCEPT !.step = to]
<1>1. /\ mem[c] \in Job /\ mem[c].step = from /\ Remembers(mem[c], host) /\ UNCHANGED at
  BY HereIsAJob
<1>2. mem' = [mem EXCEPT ![c] = n]
  BY DEF Then
<1>3. n \in Job /\ n.step = to /\ n.found = mem[c].found /\ n.verdict = mem[c].verdict /\ n.run = mem[c].run
  BY <1>1 DEF Job
<1>4. to \in {"adopt", "public", "rename"} => n.found # None /\ n.found = host'.key
  BY <1>1, <1>3 DEF Remembers, Grows
<1>5. n.verdict # "done"
  BY <1>1, <1>3 DEF Remembers
<1>6. Remembers(n, host')
  BY <1>3, <1>4, <1>5 DEF Remembers
<1> HIDE DEF n
<1> QED
  BY <1>1, <1>2, <1>3, <1>6, OneCallerMoves

\* A run that ends with success has the public half of its key in the public file.
LEMMA DoneKeeps ==
  ASSUME ChannelInv, NEW c \in Callers, NEW step \in {"public", "rename"}, Here(c, step),
         Ends(c, "done"), Grows(host, host'), host'.public = mem[c].found
  PROVE  ChannelInv'
<1> DEFINE n == [mem[c] EXCEPT !.step = "ended", !.verdict = "done"]
<1>1. mem[c] \in Job /\ mem[c].step = step /\ Remembers(mem[c], host) /\ UNCHANGED at
  BY HereIsAJob
<1>2. mem' = [mem EXCEPT ![c] = n]
  BY DEF Ends
<1>3. n \in Job /\ n.step = "ended" /\ n.found = mem[c].found
  BY <1>1 DEF Job, Step, Verdict
<1>4. n.found # None /\ n.found = host'.key /\ host'.public = host'.key
  BY <1>1, <1>3 DEF Remembers, Grows
<1>5. Remembers(n, host')
  BY <1>3, <1>4 DEF Remembers
<1> HIDE DEF n
<1> QED
  BY <1>1, <1>2, <1>3, <1>5, OneCallerMoves

---------------------------------------------------------------------------
LEMMA StartKeeps == ASSUME ChannelInv, NEW c \in Callers, ChannelStart(c) PROVE ChannelInv'
<1> DEFINE n == [run |-> host.started + 1, step |-> "list", temps |-> {}, found |-> None, verdict |-> "running"]
<1>1. host \in Directory /\ UNCHANGED at
  BY DEF ChannelStart, ChannelInv, ChannelTyped
<1>2. n \in Job /\ Remembers(n, host')
  <2>1. host.started \in Nat
    BY <1>1 DEF Directory
  <2>2. n \in Job
    BY <2>1 DEF Job, Step, Verdict, Half
  <2>3. n.step = "list" /\ n.verdict # "done"
    OBVIOUS
  <2> HIDE DEF n
  <2> QED
    BY <2>2, <2>3 DEF Remembers
<1>3. Grows(host, host')
  <2> DEFINE g == [host EXCEPT !.started = @ + 1]
             d == IF host.directory = None THEN Fit ELSE host.directory
  <2>0. g \in Directory /\ g.key = host.key /\ g.public = host.public
    <3> HIDE DEF n
    <3>0. host.started \in Nat
      BY <1>1 DEF Directory
    <3>1. host.started + 1 \in Nat
      BY <3>0
    <3>2. g = [host EXCEPT !.started = host.started + 1]
      OBVIOUS
    <3> QED
      BY <1>1, <3>1, <3>2 DEF Directory
  <2>1. host' = [g EXCEPT !.directory = d]
    BY <1>1 DEF ChannelStart, Directory
  <2>3. d \in {None, "other owner", Fit}
    BY <1>1 DEF Directory
  <2> HIDE DEF g, d
  <2>2. host' \in Directory /\ host'.key = host.key /\ host'.public = host.public
    BY <2>0, <2>1, <2>3 DEF Directory
  <2> QED
    BY <2>2 DEF Grows
<1>4. mem' = [mem EXCEPT ![c] = n]
  BY DEF ChannelStart
<1> HIDE DEF n
<1> QED
  BY <1>1, <1>2, <1>3, <1>4, OneCallerMoves

LEMMA ListKeeps == ASSUME ChannelInv, NEW c \in Callers, ListDirectory(c) PROVE ChannelInv'
<1>1. Here(c, "list") /\ Grows(host, host') /\ UNCHANGED host
  BY Unchanged DEF ListDirectory
<1>2. mem[c] \in Job /\ mem[c].step = "list" /\ Remembers(mem[c], host) /\ UNCHANGED at
  BY <1>1, HereIsAJob
<1>3. CASE host.foreign
  BY <1>1, <1>3, EndsKeeps DEF ListDirectory, Step, Verdict
<1>4. CASE ~host.foreign
  <2> DEFINE n == [mem[c] EXCEPT !.step = "inspect", !.temps = host.temps]
  <2>1. mem' = [mem EXCEPT ![c] = n]
    BY <1>4 DEF ListDirectory
  <2>2. host.temps \in SUBSET TempFile
    BY DEF ChannelInv, ChannelTyped, Directory
  <2>3. n \in Job /\ n.step = "inspect" /\ n.verdict = mem[c].verdict
    BY <1>2, <2>2 DEF Job, Step
  <2>4. Remembers(n, host')
    BY <1>2, <2>3 DEF Remembers
  <2> HIDE DEF n
  <2> QED
    BY <1>1, <1>2, <2>1, <2>3, <2>4, OneCallerMoves
<1> QED
  BY <1>3, <1>4

LEMMA TidyKeeps ==
  ASSUME ChannelInv, NEW c \in Callers, AdoptDirectory(c) \/ RemoveTemp(c) \/ Tidied(c)
  PROVE  ChannelInv'
<1>0. host \in Directory /\ mem \in [Callers -> {None} \cup Job]
  BY DEF ChannelInv, ChannelTyped
<1>1. CASE AdoptDirectory(c)
  <2>1. Grows(host, host')
    BY <1>0, <1>1 DEF AdoptDirectory, Grows, Directory
  <2>2. mem' = [mem EXCEPT ![c] = mem[c]] /\ mem[c] \in Job /\ Remembers(mem[c], host) /\ UNCHANGED at
    BY <1>0, <1>1, HereIsAJob DEF AdoptDirectory
  <2> QED
    BY <1>0, <2>1, <2>2, GrowthIsKnown, OneCallerMoves
<1>2. CASE RemoveTemp(c)
  <2>1. Here(c, "tidy")
    BY <1>2 DEF RemoveTemp
  <2>2. mem[c] \in Job /\ mem[c].step = "tidy" /\ Remembers(mem[c], host) /\ UNCHANGED at
    BY <2>1, HereIsAJob
  <2>3. PICK t \in mem[c].temps :
          IF t \in host.temps
          THEN host' = [host EXCEPT !.temps = @ \ {t}] /\ mem' = [mem EXCEPT ![c].temps = @ \ {t}]
          ELSE Ends(c, "io") /\ UNCHANGED host
    BY <1>2 DEF RemoveTemp
  <2>4. CASE t \notin host.temps
    BY <2>1, <2>3, <2>4, Unchanged, EndsKeeps DEF Step, Verdict
  <2>5. CASE t \in host.temps
    <3> DEFINE n == [mem[c] EXCEPT !.temps = @ \ {t}]
    <3>1. Grows(host, host')
      <4>1. host.temps \ {t} \in SUBSET TempFile
        BY <1>0 DEF Directory
      <4> QED
        BY <2>3, <2>5, <4>1, TempsGrow
    <3>2. mem' = [mem EXCEPT ![c] = n]
      BY <2>3, <2>5
    <3>3. n \in Job /\ n.step = "tidy" /\ n.found = mem[c].found /\ n.verdict = mem[c].verdict
      BY <2>2 DEF Job
    <3>4. Remembers(n, host')
      BY <2>2, <3>1, <3>3 DEF Remembers, Grows
    <3> HIDE DEF n
    <3> QED
      BY <2>2, <3>1, <3>2, <3>3, <3>4, OneCallerMoves
  <2> QED
    BY <2>4, <2>5
<1>3. CASE Tidied(c)
  <2>1. Here(c, "tidy") /\ Grows(host, host')
    BY <1>3, Unchanged DEF Tidied
  <2>2. CASE mem[c].found = None
    BY <1>3, <2>1, <2>2, ThenKeeps DEF Tidied, Step
  <2>3. CASE mem[c].found # None
    BY <1>3, <2>1, <2>3, ThenKeeps DEF Tidied, Step
  <2> QED
    BY <2>2, <2>3
<1> QED
  BY <1>1, <1>2, <1>3
LEMMA LinkKeepsKey ==
  ASSUME ChannelInv, NEW c \in Callers, CreateTemp(c) \/ LinkKey(c) \/ UnlinkTemp(c)
  PROVE  ChannelInv'
<1>0. host \in Directory /\ host.temps \in SUBSET TempFile
  BY DEF ChannelInv, ChannelTyped, Directory
<1>1. CASE CreateTemp(c)
  <2>1. Here(c, "create") /\ Then(c, "link")
    BY <1>1 DEF CreateTemp
  <2>2. host.temps \cup {Temp("key", mem[c].run)} \in SUBSET TempFile
    BY <1>0, <2>1, HereIsAJob
  <2>3. Grows(host, host')
    BY <1>1, <2>2, TempsGrow DEF CreateTemp
  <2> QED
    BY <2>1, <2>3, ThenKeeps DEF Step
<1>2. CASE LinkKey(c)
  <2> DEFINE temp == Temp("key", mem[c].run)
  <2>1. Here(c, "link") /\ "link" \in Step \ {"ended"}
    BY <1>2 DEF LinkKey, Step
  <2>2. mem[c].run \in Nat /\ mem[c].run # None
    BY <2>1, HereIsAJob DEF Job
  <2>3. CASE temp \notin host.temps /\ Ends(c, "io") /\ UNCHANGED host
    BY <2>1, <2>3, Unchanged, EndsKeeps DEF Verdict
  <2>4. CASE host.key = None /\ Then(c, "unlink") /\ host' = [host EXCEPT !.key = mem[c].run, !.keyMode = Fit]
    <3> DEFINE g == [host EXCEPT !.key = mem[c].run]
    <3>1. mem[c].run \in Half
      BY <2>2 DEF Half
    <3>2. g \in Directory /\ g.key = mem[c].run /\ g.public = host.public
      BY <1>0, <3>1 DEF Directory
    <3>3. host' = [g EXCEPT !.keyMode = Fit]
      BY <1>0, <2>4 DEF Directory
    <3> HIDE DEF g
    <3>4. host' \in Directory /\ host'.key = mem[c].run /\ host'.public = host.public
      BY <3>2, <3>3 DEF Directory
    <3>5. Grows(host, host')
      BY <2>4, <3>4 DEF Grows
    <3> QED
      BY <2>1, <2>4, <3>4, <3>5, ThenKeeps DEF Step
  <2>5. CASE host.key # None /\ Then(c, "again") /\ host' = [host EXCEPT !.temps = @ \ {temp}]
    <3>1. host.temps \ {temp} \in SUBSET TempFile
      BY <1>0
    <3>2. Grows(host, host')
      BY <2>5, <3>1, TempsGrow
    <3>3. host'.key # None
      BY <2>5, <3>2 DEF Grows
    <3> QED
      BY <2>1, <2>5, <3>2, <3>3, ThenKeeps DEF Step
  <2> QED
    BY <1>2, <2>3, <2>4, <2>5 DEF LinkKey
<1>3. CASE UnlinkTemp(c)
  <2> DEFINE temp == Temp("key", mem[c].run)
  <2>1. Here(c, "unlink") /\ "unlink" \in Step \ {"ended"}
    BY <1>3 DEF UnlinkTemp, Step
  <2>2. /\ mem[c] \in Job /\ mem[c].step = "unlink" /\ Remembers(mem[c], host) /\ UNCHANGED at
        /\ mem[c].run \in Nat /\ mem[c].run # None
    BY <2>1, HereIsAJob DEF Job
  <2>3. CASE temp \notin host.temps
    BY <1>3, <2>1, <2>3, Unchanged, EndsKeeps DEF UnlinkTemp, Verdict
  <2>4. CASE temp \in host.temps
    <3> DEFINE n == [mem[c] EXCEPT !.step = "public", !.found = mem[c].run]
    <3>1. host.temps \ {temp} \in SUBSET TempFile
      BY <1>0
    <3>2. Grows(host, host')
      BY <1>3, <2>4, <3>1, TempsGrow DEF UnlinkTemp
    <3>3. mem' = [mem EXCEPT ![c] = n]
      BY <1>3, <2>4 DEF UnlinkTemp
    <3>4. n \in Job /\ n.step = "public" /\ n.found = mem[c].run /\ n.verdict = mem[c].verdict
      BY <2>2 DEF Job, Step, Half
    <3>5. host.key = mem[c].run /\ host'.key = mem[c].run /\ mem[c].verdict # "done"
      BY <2>2, <3>2 DEF Remembers, Grows
    <3>6. Remembers(n, host')
      BY <2>2, <3>4, <3>5 DEF Remembers
    <3> HIDE DEF n
    <3> QED
      BY <2>2, <3>2, <3>3, <3>4, <3>6, OneCallerMoves
  <2> QED
    BY <2>3, <2>4
<1> QED
  BY <1>1, <1>2, <1>3

LEMMA PublishKeepsKey ==
  ASSUME ChannelInv, NEW c \in Callers, AdoptKey(c) \/ WritePublic(c) \/ RenamePublic(c)
  PROVE  ChannelInv'
<1>0. host \in Directory /\ host.temps \in SUBSET TempFile
  BY DEF ChannelInv, ChannelTyped, Directory
<1>1. CASE AdoptKey(c)
  <2>1. Here(c, "adopt") /\ Then(c, "public")
    BY <1>1 DEF AdoptKey
  <2>2. Grows(host, host')
    BY <1>0, <1>1 DEF AdoptKey, Grows, Directory
  <2>3. mem[c].found # None
    BY <2>1, HereIsAJob DEF Remembers
  <2> QED
    BY <2>1, <2>2, <2>3, ThenKeeps DEF Step
<1>2. CASE WritePublic(c)
  <2>1. Here(c, "public")
    BY <1>2 DEF WritePublic
  <2>2. CASE PublicIsCurrent(c)
    BY <1>2, <2>1, <2>2, Unchanged, DoneKeeps DEF WritePublic, PublicIsCurrent
  <2>3. CASE ~PublicIsCurrent(c)
    <3>1. Then(c, "rename") /\ host' = [host EXCEPT !.temps = @ \cup {Temp("pub", mem[c].run)}]
      BY <1>2, <2>3 DEF WritePublic
    <3>2. host.temps \cup {Temp("pub", mem[c].run)} \in SUBSET TempFile
      BY <1>0, <2>1, HereIsAJob
    <3>3. Grows(host, host')
      BY <3>1, <3>2, TempsGrow
    <3>4. mem[c].found # None
      BY <2>1, HereIsAJob DEF Remembers
    <3> QED
      BY <2>1, <3>1, <3>3, <3>4, ThenKeeps DEF Step
  <2> QED
    BY <2>2, <2>3
<1>3. CASE RenamePublic(c)
  <2> DEFINE temp == Temp("pub", mem[c].run)
  <2>1. Here(c, "rename") /\ "rename" \in Step \ {"ended"}
    BY <1>3 DEF RenamePublic, Step
  <2>2. CASE temp \notin host.temps
    BY <1>3, <2>1, <2>2, Unchanged, EndsKeeps DEF RenamePublic, Verdict
  <2>3. CASE temp \in host.temps
    <3>1. mem[c].found \in Half /\ mem[c].found # None /\ mem[c].found = host.key
      BY <2>1, HereIsAJob DEF Remembers, Job
    <3> DEFINE g == [host EXCEPT !.temps = @ \ {temp}]
    <3>2. g \in Directory /\ g.key = host.key
      BY <1>0 DEF Directory
    <3>3. host' = [g EXCEPT !.public = mem[c].found] /\ Ends(c, "done")
      BY <1>0, <1>3, <2>3 DEF RenamePublic, Directory
    <3> HIDE DEF g
    <3>4. host' \in Directory /\ host'.key = host.key /\ host'.public = mem[c].found
      BY <3>1, <3>2, <3>3 DEF Directory
    <3>5. Grows(host, host')
      BY <3>1, <3>4 DEF Grows
    <3> QED
      BY <2>1, <3>3, <3>4, <3>5, DoneKeeps
  <2> QED
    BY <2>2, <2>3
<1> QED
  BY <1>1, <1>2, <1>3

LEMMA OverKeeps == ASSUME ChannelInv, NEW c \in Callers, ChannelForget(c) \/ ChannelKilled(c) PROVE ChannelInv'
<1>1. mem' = [mem EXCEPT ![c] = None] /\ UNCHANGED <<host, at>>
  BY DEF ChannelForget, ChannelKilled, Here
<1>2. Grows(host, host')
  BY <1>1, Unchanged
<1> QED
  BY <1>1, <1>2, OneCallerMoves

---------------------------------------------------------------------------
\* The directory only grows, and what each run knows of it holds.
LEMMA ChannelIsInductive ==
  /\ ChannelInit => ChannelInv
  /\ ChannelInv /\ [ChannelNext]_programVars => ChannelInv'
<1>1. ChannelInit => ChannelInv
  <2> SUFFICES ASSUME ChannelInit PROVE ChannelInv
    OBVIOUS
  <2>1. {None, OldKey, Odd} \subseteq Half /\ {None, Odd} \subseteq Half /\ {{}} \subseteq SUBSET TempFile /\ {0} \subseteq Nat
    BY DEF Half, OldKey
  <2>2. host \in Directory
    BY <2>1 DEF ChannelInit, Directory
  <2>3. mem \in [Callers -> {None} \cup Job] /\ \A c \in Callers : mem[c] = None
    BY DEF ChannelInit
  <2> QED
    BY <2>2, <2>3 DEF ChannelInit, ChannelInv, ChannelTyped
<1>2. ChannelInv /\ [ChannelNext]_programVars => ChannelInv'
  <2> SUFFICES ASSUME ChannelInv, [ChannelNext]_programVars PROVE ChannelInv'
    OBVIOUS
  <2>1. CASE UNCHANGED programVars
    BY <2>1 DEF programVars, ChannelInv, ChannelTyped, Remembers
  <2>2. CASE ChannelNext
    <3> PICK c \in Callers :
          \/ ChannelStart(c) \/ ListDirectory(c) \/ InspectKey(c) \/ AdoptDirectory(c)
          \/ RemoveTemp(c) \/ Tidied(c) \/ CreateTemp(c) \/ LinkKey(c) \/ UnlinkTemp(c)
          \/ InspectAgain(c) \/ AdoptKey(c) \/ WritePublic(c) \/ RenamePublic(c)
          \/ ChannelForget(c) \/ ChannelKilled(c)
      BY <2>2 DEF ChannelNext
    <3>1. CASE InspectKey(c)
      BY <3>1, InspectKeeps DEF InspectKey
    <3>2. CASE InspectAgain(c)
      BY <3>2, InspectKeeps DEF InspectAgain
    <3> QED
      BY <3>1, <3>2, StartKeeps, ListKeeps, TidyKeeps, LinkKeepsKey, PublishKeepsKey, OverKeeps
  <2> QED
    BY <2>1, <2>2
<1> QED
  BY <1>1, <1>2

\* A run that succeeds reports the public half of the key that is in place, and the public file
\* holds it: for any number of runs, however they overlap and wherever they are killed.
THEOREM SuccessMatchesKey == ChannelSpec => []PublicMatchesKey
<1>1. ChannelInv => PublicMatchesKey
  BY DEF ChannelInv, Remembers, PublicMatchesKey
<1> QED
  BY <1>1, ChannelIsInductive, PTL DEF ChannelSpec

LEMMA ChannelKeepsKey == ChannelInv /\ [ChannelNext]_programVars => [KeepsKey]_programVars
<1> SUFFICES ASSUME ChannelInv, ChannelNext, host.key # None PROVE host'.key = host.key
  BY DEF programVars, KeepsKey
<1>1. host \in Directory
  BY DEF ChannelInv, ChannelTyped
<1> QED
  BY <1>1 DEF ChannelNext, ChannelStart, ListDirectory, InspectKey, AdoptDirectory, RemoveTemp, Tidied,
              CreateTemp, LinkKey, UnlinkTemp, InspectAgain, AdoptKey, WritePublic, RenamePublic, ChannelForget,
              ChannelKilled, Ends, Then, Directory

\* A signing key that is in place is never replaced: the link of a new one fails where another
\* run's key stands.
THEOREM KeyIsKept == ChannelSpec => KeyKept
BY ChannelIsInductive, ChannelKeepsKey, PTL DEF ChannelSpec, KeyKept

---------------------------------------------------------------------------
(* The jump host's key file. What a play has put on disk so far follows    *)
(* from its step and from what it found ("before"); whatever it changed of *)
(* the drop-ins is loaded, or owed by the marker, until the play unmarks.  *)

JumpText == {None, "old", "new"}
DirOf == {"none", "own", "shared"}
JumpFiles == [key : JumpText, dropin : JumpText, legacyKey : BOOLEAN, legacyDropin : BOOLEAN, legacyDir : DirOf]
JumpLoaded == [dropin : JumpText, legacy : BOOLEAN]
JumpState == [key : JumpText, dropin : JumpText, legacyKey : BOOLEAN, legacyDropin : BOOLEAN, legacyDir : DirOf,
              marker : BOOLEAN, sshd : {"takes", "ignores", "unfixable"}, broken : BOOLEAN, running : JumpLoaded]
JumpRun == [verdict : {None, "half restored", "restored", "done"}, before : JumpFiles, pending : BOOLEAN,
            owed : BOOLEAN, changed : BOOLEAN, retired : BOOLEAN]

JumpWritten == {"check", "reload", "read back", "retire dropin"}
Retired == {"retire key", "retire directory", "check again", "reload again", "read back again", "unmark"}
Undone == {"rescue directory", "rescue legacy key", "rescue legacy dropin", "rescue dropin", "rescue reload",
           "rescue unmark", "rescue key"}
Plays == {"mark", "key", "dropin"} \cup JumpWritten \cup Retired \cup Undone

\* The files a play may find: what the drop-ins name is there.
Coherent(f) == IF f.dropin # None THEN f.key # None ELSE f.legacyDropin => f.legacyKey

\* What the play m, at a step, has made of the files it found.
Making(step, m, h) ==
  LET b == m.before IN
  /\ Coherent(b) /\ h.key \in {b.key, "new"} /\ h.dropin \in {b.dropin, "new"}
  /\ h.dropin = "new" => h.key # None
  /\ h.legacyKey => b.legacyKey
  /\ h.legacyDropin => b.legacyDropin
  /\ m.pending <=> b.key # "new" \/ b.dropin # "new" \/ b.legacyKey \/ b.legacyDropin
  /\ step \notin {"mark", "rescue key"} /\ m.pending => h.marker

Going(step, m, h) ==
  LET b == m.before  disk == [dropin |-> h.dropin, legacy |-> h.legacyDropin] IN
  /\ step \in {"mark", "key", "dropin"} =>
       h.dropin = b.dropin /\ (~m.owed => h.running = disk)
  /\ step \in {"mark", "key", "dropin"} \cup JumpWritten =>
       h.legacyDropin = b.legacyDropin /\ h.legacyKey = b.legacyKey
  /\ step \in {"mark", "key"} => h.key = b.key
  /\ step \in {"dropin"} \cup JumpWritten \cup Retired => h.key = "new"
  /\ step \in JumpWritten \cup Retired => h.dropin = "new"
  /\ step = "dropin" => (~m.changed => b.key = "new")
  /\ step \in {"check", "reload"} => (~m.changed /\ ~m.owed => h.running = disk)
  /\ step \in {"read back", "retire dropin", "read back again", "unmark"} => h.running = disk
  /\ step \in Retired => ~h.legacyDropin /\ h.running.dropin = "new" /\ (~m.retired => h.running = disk)
  /\ step \in Retired \ {"retire key"} => ~h.legacyKey

Undoing(step, m, h) ==
  LET b == m.before  disk == [dropin |-> h.dropin, legacy |-> h.legacyDropin] IN
  /\ step \in Undone \ {"rescue directory"} => h.legacyDir = b.legacyDir
  /\ step \in Undone \ {"rescue directory", "rescue legacy key"} => h.legacyKey = b.legacyKey
  /\ step \in {"rescue dropin", "rescue reload", "rescue unmark", "rescue key"} => h.legacyDropin = b.legacyDropin
  /\ step \in {"rescue reload", "rescue unmark", "rescue key"} => h.dropin = b.dropin
  /\ step \in {"rescue unmark", "rescue key"} => h.running = disk

Sound(h) ==
  LET disk == [dropin |-> h.dropin, legacy |-> h.legacyDropin]
      named(cfg) == IF cfg.dropin # None THEN h.key # None ELSE cfg.legacy => h.legacyKey
  IN  named(h.running) /\ named(disk) /\ (h.marker \/ h.running = disk)

JumpInv ==
  /\ at \in {"jump"} \X (Plays \cup {"idle", "ended"}) /\ host \in JumpState /\ Sound(host)
  /\ at[2] \in Plays =>
       /\ mem \in JumpRun
       /\ Making(at[2], mem, host) /\ Going(at[2], mem, host) /\ Undoing(at[2], mem, host)
  /\ JumpTruth /\ RescueTruth

LEMMA PlayMoves ==
  ASSUME NEW to \in Plays, at' = <<"jump", to>>, NEW m \in JumpRun, mem' = m, NEW h \in JumpState, host' = h,
         Sound(h), Making(to, m, h), Going(to, m, h), Undoing(to, m, h)
  PROVE  JumpInv'
<1>1. to # "ended"
  BY DEF Plays, JumpWritten, Retired, Undone
<1> QED
  BY <1>1 DEF JumpInv, JumpTruth, RescueTruth, At

\* The play writes: nothing that is loaded loses its file, and what changes is owed.
LEMMA WriteKeeps ==
  ASSUME JumpInv, MarkReloadOwed \/ WriteKeyFile \/ WriteDropin
  PROVE  JumpInv'
<1>0. host \in JumpState /\ Sound(host)
  BY DEF JumpInv
<1>1. CASE MarkReloadOwed
  <2> DEFINE h == [host EXCEPT !.marker = @ \/ mem.pending]
  <2>1. at = <<"jump", "mark">> /\ at' = <<"jump", "key">> /\ host' = h /\ mem' = mem
    BY <1>1 DEF MarkReloadOwed, Writes, Play, Same, Act, At, Goto
  <2>2. mem \in JumpRun /\ Making("mark", mem, host) /\ Going("mark", mem, host)
    BY <2>1 DEF JumpInv, Plays
  <2>3. h \in JumpState /\ h.marker = (host.marker \/ mem.pending)
    BY <1>0, <2>2 DEF JumpState, JumpRun
  <2>4. /\ h.key = host.key /\ h.dropin = host.dropin /\ h.legacyKey = host.legacyKey
        /\ h.legacyDropin = host.legacyDropin /\ h.legacyDir = host.legacyDir /\ h.running = host.running
    BY <1>0 DEF JumpState
  <2> HIDE DEF h
  <2>5. Sound(h)
    BY <1>0, <2>3, <2>4 DEF Sound
  <2>6. Making("key", mem, h) /\ Going("key", mem, h) /\ Undoing("key", mem, h)
    BY <2>2, <2>3, <2>4 DEF Making, Going, Undoing, JumpWritten, Retired, Undone
  <2> QED
    BY <2>1, <2>2, <2>3, <2>5, <2>6, PlayMoves DEF Plays
<1>2. CASE WriteKeyFile
  <2> DEFINE h == [host EXCEPT !.key = "new"]
             m == [mem EXCEPT !.changed = host.key # "new"]
  <2>1. at = <<"jump", "key">> /\ at' = <<"jump", "dropin">> /\ host' = h /\ mem' = m
    BY <1>2 DEF WriteKeyFile, Play, Act, At, Goto
  <2>2. mem \in JumpRun /\ Making("key", mem, host) /\ Going("key", mem, host)
    BY <2>1 DEF JumpInv, Plays
  <2>3. h \in JumpState /\ m \in JumpRun
    BY <1>0, <2>2 DEF JumpState, JumpRun, JumpText
  <2>4. /\ h.key = "new" /\ h.dropin = host.dropin /\ h.legacyKey = host.legacyKey /\ h.marker = host.marker
        /\ h.legacyDropin = host.legacyDropin /\ h.legacyDir = host.legacyDir /\ h.running = host.running
    BY <1>0 DEF JumpState
  <2>5. m.before = mem.before /\ m.owed = mem.owed /\ m.pending = mem.pending /\ (~m.changed => host.key = "new")
    BY <2>2 DEF JumpRun
  <2> HIDE DEF h, m
  <2>6. "new" # None
    BY JumpAssumption
  <2>7. Sound(h)
    BY <1>0, <2>4, <2>6 DEF Sound
  <2>8. Making("dropin", m, h) /\ Going("dropin", m, h) /\ Undoing("dropin", m, h)
    BY <2>2, <2>4, <2>5, <2>6 DEF Making, Going, Undoing, JumpWritten, Retired, Undone
  <2> QED
    BY <2>1, <2>3, <2>7, <2>8, PlayMoves DEF Plays
<1>3. CASE WriteDropin
  <2> DEFINE h == [host EXCEPT !.dropin = "new"]
             m == [mem EXCEPT !.changed = @ \/ host.dropin # "new"]
  <2>1. at = <<"jump", "dropin">> /\ at' = <<"jump", "check">> /\ host' = h /\ mem' = m
    BY <1>3 DEF WriteDropin, Play, Act, At, Goto
  <2>2. mem \in JumpRun /\ Making("dropin", mem, host) /\ Going("dropin", mem, host)
    BY <2>1 DEF JumpInv, Plays
  <2>3. h \in JumpState /\ m \in JumpRun
    BY <1>0, <2>2 DEF JumpState, JumpRun, JumpText
  <2>4. /\ h.key = host.key /\ h.dropin = "new" /\ h.legacyKey = host.legacyKey /\ h.marker = host.marker
        /\ h.legacyDropin = host.legacyDropin /\ h.legacyDir = host.legacyDir /\ h.running = host.running
    BY <1>0 DEF JumpState
  <2>5. /\ m.before = mem.before /\ m.owed = mem.owed /\ m.pending = mem.pending
        /\ ~m.changed => ~mem.changed /\ host.dropin = "new"
    BY <2>2 DEF JumpRun
  <2> HIDE DEF h, m
  <2>6. "new" # None
    BY JumpAssumption
  <2>7. Sound(h)
    BY <1>0, <2>2, <2>4, <2>6 DEF Sound, Going, Making
  <2>8. Making("check", m, h) /\ Going("check", m, h) /\ Undoing("check", m, h)
    BY <2>2, <2>4, <2>5, <2>6 DEF Making, Going, Undoing, JumpWritten, Retired, Undone
  <2> QED
    BY <2>1, <2>3, <2>7, <2>8, PlayMoves DEF Plays, JumpWritten
<1> QED
  BY <1>1, <1>2, <1>3

\* The play gives up: what it has made of the files is what the rescue begins with.
LEMMA RescueBegins ==
  ASSUME JumpInv, NEW from \in Plays \ Undone, from # "mark", at = <<"jump", from>>,
         at' = <<"jump", "rescue directory">>, mem' = mem, host' = host
  PROVE  JumpInv'
<1>1. mem \in JumpRun /\ Making(from, mem, host) /\ host \in JumpState /\ Sound(host)
  BY DEF JumpInv
<1>2. Making("rescue directory", mem, host)
  BY <1>1 DEF Making, Undone
<1>3. Going("rescue directory", mem, host) /\ Undoing("rescue directory", mem, host)
  BY DEF Going, Undoing, JumpWritten, Retired
<1> QED
  BY <1>1, <1>2, <1>3, PlayMoves DEF Plays, Undone

\* The play goes on with the files as they are.
LEMMA PlayGoesOn ==
  ASSUME JumpInv, NEW from \in Plays, NEW to \in Plays, at = <<"jump", from>>, at' = <<"jump", to>>,
         mem' = mem, host' = host, from # "rescue key", from # "mark", Going(to, mem, host), Undoing(to, mem, host)
  PROVE  JumpInv'
<1>1. mem \in JumpRun /\ Making(from, mem, host) /\ host \in JumpState /\ Sound(host)
  BY DEF JumpInv
<1>2. Making(to, mem, host)
  BY <1>1 DEF Making
<1> QED
  BY <1>1, <1>2, PlayMoves

LEMMA CheckKeeps ==
  ASSUME JumpInv, CheckNew \/ CheckRetired \/ ReadBackNew \/ ReadBackRetired
  PROVE  JumpInv'
<1>1. ASSUME NEW from, NEW to,
             \/ from = "check" /\ to = "reload"
             \/ from = "read back" /\ to = "retire dropin"
             \/ from = "check again" /\ to = "reload again"
             \/ from = "read back again" /\ to = "unmark",
             at = <<"jump", from>>, UNCHANGED <<mem, host>>,
             at' \in {<<"jump", "rescue directory">>, <<"jump", to>>}
      PROVE  JumpInv'
  <2>0. from \in Plays \ Undone /\ from # "mark" /\ from # "rescue key" /\ to \in Plays \ Undone
    BY <1>1 DEF Plays, Undone, JumpWritten, Retired
  <2>1. CASE at' = <<"jump", "rescue directory">>
    BY <1>1, <2>0, <2>1, RescueBegins
  <2>2. CASE at' = <<"jump", to>>
    <3>1. Going(from, mem, host)
      BY <1>1, <2>0 DEF JumpInv
    <3>2. Going(to, mem, host)
      BY <1>1, <3>1 DEF Going, JumpWritten, Retired
    <3>3. Undoing(to, mem, host)
      BY <2>0 DEF Undoing, Undone
    <3> QED
      BY <1>1, <2>0, <2>2, <3>2, <3>3, PlayGoesOn
  <2> QED
    BY <1>1, <2>1, <2>2
<1>2. ASSUME CheckNew PROVE /\ at = <<"jump", "check">> /\ UNCHANGED <<mem, host>>
                            /\ at' \in {<<"jump", "rescue directory">>, <<"jump", "reload">>}
  BY <1>2 DEF CheckNew, CheckConfig, At, Goto
<1>3. ASSUME CheckRetired PROVE /\ at = <<"jump", "check again">> /\ UNCHANGED <<mem, host>>
                                /\ at' \in {<<"jump", "rescue directory">>, <<"jump", "reload again">>}
  BY <1>3 DEF CheckRetired, CheckConfig, At, Goto
<1>4. ASSUME ReadBackNew PROVE /\ at = <<"jump", "read back">> /\ UNCHANGED <<mem, host>>
                               /\ at' \in {<<"jump", "rescue directory">>, <<"jump", "retire dropin">>}
  BY <1>4 DEF ReadBackNew, ReadBackFiles, At, Goto
<1>5. ASSUME ReadBackRetired PROVE /\ at = <<"jump", "read back again">> /\ UNCHANGED <<mem, host>>
                                   /\ at' \in {<<"jump", "rescue directory">>, <<"jump", "unmark">>}
  BY <1>5 DEF ReadBackRetired, ReadBackFiles, At, Goto
<1>6. CASE CheckNew
  BY <1>1, <1>2, <1>6
<1>7. CASE CheckRetired
  BY <1>1, <1>3, <1>7
<1>8. CASE ReadBackNew
  BY <1>1, <1>4, <1>8
<1>9. CASE ReadBackRetired
  BY <1>1, <1>5, <1>9
<1> QED
  BY <1>6, <1>7, <1>8, <1>9

\* sshd is reloaded, or has what is on disk without it: nothing was changed and nothing owed.
LEMMA ReloadKeeps ==
  ASSUME JumpInv, ReloadNew \/ ReloadRetired
  PROVE  JumpInv'
<1>0. host \in JumpState /\ Sound(host)
  BY DEF JumpInv
<1>1. ASSUME NEW from, NEW to, NEW needed,
             \/ from = "reload" /\ to = "read back" /\ (needed <=> mem.changed \/ mem.owed)
             \/ from = "reload again" /\ to = "read back again" /\ (needed <=> mem.retired),
             ReloadSshd(from, to, needed)
      PROVE  JumpInv'
  <2>0. /\ at = <<"jump", from>> /\ mem' = mem /\ from \in Plays \ Undone /\ from # "mark" /\ from # "rescue key"
        /\ to \in Plays \ Undone
    BY <1>1 DEF ReloadSshd, At, Plays, Undone, JumpWritten, Retired
  <2>1. CASE needed /\ host.broken
    BY <1>1, <2>0, <2>1, RescueBegins DEF ReloadSshd, Goto
  <2>2. CASE ~(needed /\ host.broken)
    <3> DEFINE h == IF needed THEN [host EXCEPT !.running = OnDisk] ELSE host
    <3>1. at' = <<"jump", to>> /\ host' = h
      BY <1>1, <2>2 DEF ReloadSshd, Goto
    <3>2. mem \in JumpRun /\ Making(from, mem, host) /\ Going(from, mem, host)
      BY <2>0 DEF JumpInv
    <3>3. OnDisk \in JumpLoaded /\ OnDisk = [dropin |-> host.dropin, legacy |-> host.legacyDropin]
      BY <1>0 DEF OnDisk, JumpLoaded, JumpState
    <3>4. h \in JumpState /\ h.running = OnDisk
      <4>1. CASE needed
        BY <1>0, <3>3, <4>1 DEF JumpState
      <4>2. CASE ~needed
        BY <1>0, <1>1, <3>2, <3>3, <4>2 DEF Going, Retired
      <4> QED
        BY <4>1, <4>2
    <3>5. /\ h.key = host.key /\ h.dropin = host.dropin /\ h.legacyKey = host.legacyKey /\ h.marker = host.marker
          /\ h.legacyDropin = host.legacyDropin /\ h.legacyDir = host.legacyDir
      BY <1>0 DEF JumpState
    <3> HIDE DEF h
    <3>6. Sound(h)
      BY <1>0, <3>3, <3>4, <3>5 DEF Sound
    <3>7. Making(to, mem, h)
      BY <1>1, <3>2, <3>5 DEF Making
    <3>8. Going(to, mem, h)
      <4>1. CASE from = "reload" /\ to = "read back"
        BY <3>2, <3>3, <3>4, <3>5, <4>1 DEF Going, JumpWritten, Retired
      <4>2. CASE from = "reload again" /\ to = "read back again"
        <5>1. h.key = "new" /\ h.dropin = "new" /\ ~h.legacyDropin /\ ~h.legacyKey
          BY <3>2, <3>5, <4>2 DEF Going, Retired
        <5>2. h.running = [dropin |-> h.dropin, legacy |-> h.legacyDropin] /\ h.running.dropin = "new"
          BY <3>3, <3>4, <3>5, <5>1
        <5> QED
          BY <4>2, <5>1, <5>2 DEF Going, JumpWritten, Retired
      <4> QED
        BY <1>1, <4>1, <4>2
    <3>9. Undoing(to, mem, h)
      BY <2>0 DEF Undoing, Undone
    <3> QED
      BY <2>0, <3>1, <3>2, <3>4, <3>6, <3>7, <3>8, <3>9, PlayMoves
  <2> QED
    BY <2>1, <2>2
<1>2. CASE ReloadNew
  <2> DEFINE needed == mem.changed \/ mem.owed
  <2>1. ReloadSshd("reload", "read back", needed)
    BY <1>2 DEF ReloadNew
  <2>2. needed <=> mem.changed \/ mem.owed
    OBVIOUS
  <2> HIDE DEF needed
  <2> QED
    BY <1>1, <2>1, <2>2
<1>3. CASE ReloadRetired
  <2>1. ReloadSshd("reload again", "read back again", mem.retired)
    BY <1>3 DEF ReloadRetired
  <2> QED
    BY <1>1, <2>1
<1> QED
  BY <1>2, <1>3

\* The earlier layout goes only once sshd is loaded with the new drop-in.
LEMMA RetireKeeps ==
  ASSUME JumpInv, RetireDropin \/ RetireKey \/ RetireDirectory
  PROVE  JumpInv'
<1>0. host \in JumpState /\ Sound(host) /\ "new" # None
  BY JumpAssumption DEF JumpInv
<1>1. CASE RetireDropin
  <2> DEFINE h == [host EXCEPT !.legacyDropin = FALSE]
             m == [mem EXCEPT !.retired = host.legacyDropin]
  <2>1. at = <<"jump", "retire dropin">> /\ at' = <<"jump", "retire key">> /\ host' = h /\ mem' = m
    BY <1>1 DEF RetireDropin, Play, Act, At, Goto
  <2>2. /\ mem \in JumpRun /\ Making("retire dropin", mem, host) /\ Going("retire dropin", mem, host)
    BY <2>1 DEF JumpInv, Plays, JumpWritten
  <2>3. h \in JumpState /\ m \in JumpRun
    BY <1>0, <2>2 DEF JumpState, JumpRun
  <2>4. /\ h.key = host.key /\ h.dropin = host.dropin /\ h.legacyKey = host.legacyKey /\ h.marker = host.marker
        /\ h.legacyDropin = FALSE /\ h.legacyDir = host.legacyDir /\ h.running = host.running
    BY <1>0 DEF JumpState
  <2>5. m.before = mem.before /\ m.pending = mem.pending /\ m.retired = host.legacyDropin
    BY <2>2 DEF JumpRun
  <2>6. host.dropin = "new" /\ host.running = [dropin |-> host.dropin, legacy |-> host.legacyDropin] /\ host.key = "new"
    BY <2>2 DEF Going, JumpWritten
  <2>7. host.legacyDropin \in BOOLEAN /\ (host.legacyDropin => mem.pending) /\ (mem.pending => host.marker)
    BY <1>0, <2>2 DEF Making, JumpState
  <2> HIDE DEF h, m
  <2>8. Sound(h)
    BY <1>0, <2>4, <2>6, <2>7 DEF Sound
  <2>9. Making("retire key", m, h)
    BY <2>2, <2>4, <2>5 DEF Making
  <2>10. Going("retire key", m, h)
    <3>1. ~m.retired => h.running = [dropin |-> h.dropin, legacy |-> h.legacyDropin]
      BY <2>4, <2>5, <2>6, <2>7
    <3> QED
      BY <2>4, <2>6, <3>1 DEF Going, JumpWritten, Retired
  <2>11. Undoing("retire key", m, h)
    BY DEF Undoing, Undone
  <2> QED
    BY <2>1, <2>3, <2>8, <2>9, <2>10, <2>11, PlayMoves DEF Plays, Retired
<1>2. CASE RetireKey
  <2> DEFINE h == [host EXCEPT !.legacyKey = FALSE]
             m == [mem EXCEPT !.retired = @ \/ host.legacyKey]
  <2>1. at = <<"jump", "retire key">> /\ at' = <<"jump", "retire directory">> /\ host' = h /\ mem' = m
    BY <1>2 DEF RetireKey, Play, Act, At, Goto
  <2>2. /\ mem \in JumpRun /\ Making("retire key", mem, host) /\ Going("retire key", mem, host)
    BY <2>1 DEF JumpInv, Plays, Retired
  <2>3. h \in JumpState /\ m \in JumpRun
    BY <1>0, <2>2 DEF JumpState, JumpRun
  <2>4. /\ h.key = host.key /\ h.dropin = host.dropin /\ h.legacyKey = FALSE /\ h.marker = host.marker
        /\ h.legacyDropin = host.legacyDropin /\ h.legacyDir = host.legacyDir /\ h.running = host.running
    BY <1>0 DEF JumpState
  <2>5. m.before = mem.before /\ m.pending = mem.pending /\ (~m.retired => ~mem.retired)
    BY <2>2 DEF JumpRun
  <2> HIDE DEF h, m
  <2>6. Sound(h)
    BY <1>0, <2>2, <2>4 DEF Sound, Going, Retired
  <2>7. Making("retire directory", m, h)
    BY <2>2, <2>4, <2>5 DEF Making
  <2>8. Going("retire directory", m, h)
    BY <2>2, <2>4, <2>5 DEF Going, JumpWritten, Retired
  <2>9. Undoing("retire directory", m, h)
    BY DEF Undoing, Undone
  <2> QED
    BY <2>1, <2>3, <2>6, <2>7, <2>8, <2>9, PlayMoves DEF Plays, Retired
<1>3. CASE RetireDirectory
  <2> DEFINE d == IF host.legacyDir = "own" THEN "none" ELSE host.legacyDir
             h == [host EXCEPT !.legacyDir = d]
  <2>1. at = <<"jump", "retire directory">> /\ at' = <<"jump", "check again">> /\ host' = h /\ mem' = mem
    BY <1>3 DEF RetireDirectory, Writes, Play, Same, Act, At, Goto
  <2>2. mem \in JumpRun /\ Making("retire directory", mem, host) /\ Going("retire directory", mem, host)
    BY <2>1 DEF JumpInv, Plays, Retired
  <2>3. h \in JumpState
    BY <1>0 DEF JumpState, DirOf
  <2>4. /\ h.key = host.key /\ h.dropin = host.dropin /\ h.legacyKey = host.legacyKey /\ h.marker = host.marker
        /\ h.legacyDropin = host.legacyDropin /\ h.running = host.running
    BY <1>0 DEF JumpState
  <2> HIDE DEF h
  <2>5. Sound(h)
    BY <1>0, <2>4 DEF Sound
  <2>6. Making("check again", mem, h) /\ Going("check again", mem, h)
    BY <2>2, <2>4 DEF Making, Going, JumpWritten, Retired
  <2>7. Undoing("check again", mem, h)
    BY DEF Undoing, Undone
  <2> QED
    BY <2>1, <2>2, <2>3, <2>5, <2>6, <2>7, PlayMoves DEF Plays, Retired
<1> QED
  BY <1>1, <1>2, <1>3

\* The rescue puts back in an order in which no drop-in is without the file it names.
LEMMA RescueKeeps ==
  ASSUME JumpInv, RescueDirectory \/ RescueLegacyKey \/ RescueLegacyDropin \/ RescueDropin \/ RescueUnmark
  PROVE  JumpInv'
<1>0. host \in JumpState /\ Sound(host)
  BY DEF JumpInv
<1>1. CASE RescueDirectory
  <2> DEFINE h == [host EXCEPT !.legacyDir = mem.before.legacyDir]
  <2>1. at = <<"jump", "rescue directory">> /\ at' = <<"jump", "rescue legacy key">> /\ host' = h /\ mem' = mem
    BY <1>1 DEF RescueDirectory, Writes, Play, Same, Act, At, Goto
  <2>2. mem \in JumpRun /\ Making("rescue directory", mem, host)
    BY <2>1 DEF JumpInv, Plays, Undone
  <2>3. h \in JumpState
    BY <1>0, <2>2 DEF JumpState, JumpRun, JumpFiles
  <2>4. /\ h.key = host.key /\ h.dropin = host.dropin /\ h.legacyKey = host.legacyKey /\ h.marker = host.marker
        /\ h.legacyDropin = host.legacyDropin /\ h.running = host.running /\ h.legacyDir = mem.before.legacyDir
    BY <1>0 DEF JumpState
  <2> HIDE DEF h
  <2>5. Sound(h)
    BY <1>0, <2>4 DEF Sound
  <2>6. Making("rescue legacy key", mem, h)
    BY <2>2, <2>4 DEF Making
  <2>7. Going("rescue legacy key", mem, h) /\ Undoing("rescue legacy key", mem, h)
    BY <2>4 DEF Going, Undoing, JumpWritten, Retired, Undone
  <2> QED
    BY <2>1, <2>2, <2>3, <2>5, <2>6, <2>7, PlayMoves DEF Plays, Undone
<1>2. CASE RescueLegacyKey
  <2> DEFINE h == [host EXCEPT !.legacyKey = @ \/ mem.before.legacyKey]
  <2>1. at = <<"jump", "rescue legacy key">> /\ at' = <<"jump", "rescue legacy dropin">> /\ host' = h /\ mem' = mem
    BY <1>2 DEF RescueLegacyKey, Writes, Play, Same, Act, At, Goto
  <2>2. mem \in JumpRun /\ Making("rescue legacy key", mem, host) /\ Undoing("rescue legacy key", mem, host)
    BY <2>1 DEF JumpInv, Plays, Undone
  <2>3. h.legacyKey = mem.before.legacyKey /\ mem.before.legacyKey \in BOOLEAN
    <3>1. host.legacyKey \in BOOLEAN /\ mem.before.legacyKey \in BOOLEAN /\ (host.legacyKey => mem.before.legacyKey)
      BY <1>0, <2>2 DEF JumpState, JumpRun, JumpFiles, Making
    <3>2. h.legacyKey = (host.legacyKey \/ mem.before.legacyKey)
      BY <1>0 DEF JumpState
    <3> QED
      BY <3>1, <3>2
  <2>4. /\ h.key = host.key /\ h.dropin = host.dropin /\ h.marker = host.marker
        /\ h.legacyDropin = host.legacyDropin /\ h.running = host.running /\ h.legacyDir = host.legacyDir
    BY <1>0 DEF JumpState
  <2>5. h \in JumpState
    BY <1>0, <2>3 DEF JumpState
  <2> HIDE DEF h
  <2>6. host.legacyKey => h.legacyKey
    BY <2>2, <2>3 DEF Making
  <2>7. Sound(h)
    BY <1>0, <2>4, <2>6 DEF Sound
  <2>8. Making("rescue legacy dropin", mem, h)
    BY <2>2, <2>3, <2>4 DEF Making
  <2>9. Going("rescue legacy dropin", mem, h) /\ Undoing("rescue legacy dropin", mem, h)
    BY <2>2, <2>3, <2>4 DEF Going, Undoing, JumpWritten, Retired, Undone
  <2> QED
    BY <2>1, <2>2, <2>5, <2>7, <2>8, <2>9, PlayMoves DEF Plays, Undone
<1>3. CASE RescueLegacyDropin
  <2> DEFINE h == [host EXCEPT !.legacyDropin = @ \/ mem.before.legacyDropin]
  <2>1. at = <<"jump", "rescue legacy dropin">> /\ at' = <<"jump", "rescue dropin">> /\ host' = h /\ mem' = mem
    BY <1>3 DEF RescueLegacyDropin, Writes, Play, Same, Act, At, Goto
  <2>2. /\ mem \in JumpRun /\ Making("rescue legacy dropin", mem, host)
        /\ Undoing("rescue legacy dropin", mem, host)
    BY <2>1 DEF JumpInv, Plays, Undone
  <2>3. h.legacyDropin = mem.before.legacyDropin /\ mem.before.legacyDropin \in BOOLEAN
    <3>1. /\ host.legacyDropin \in BOOLEAN /\ mem.before.legacyDropin \in BOOLEAN
          /\ host.legacyDropin => mem.before.legacyDropin
      BY <1>0, <2>2 DEF JumpState, JumpRun, JumpFiles, Making
    <3>2. h.legacyDropin = (host.legacyDropin \/ mem.before.legacyDropin)
      BY <1>0 DEF JumpState
    <3> QED
      BY <3>1, <3>2
  <2>4. /\ h.key = host.key /\ h.dropin = host.dropin /\ h.marker = host.marker
        /\ h.legacyKey = host.legacyKey /\ h.running = host.running /\ h.legacyDir = host.legacyDir
    BY <1>0 DEF JumpState
  <2>5. h \in JumpState
    BY <1>0, <2>3 DEF JumpState
  <2>6. h.marker \/ h.running = [dropin |-> h.dropin, legacy |-> h.legacyDropin]
    <3>1. CASE mem.before.legacyDropin
      BY <2>2, <2>4, <3>1 DEF Making
    <3>2. CASE ~mem.before.legacyDropin
      <4>1. h.legacyDropin = host.legacyDropin
        BY <1>0, <2>2, <2>3, <3>2 DEF Making, JumpState
      <4> QED
        BY <1>0, <2>4, <4>1 DEF Sound
    <3> QED
      BY <3>1, <3>2
  <2> HIDE DEF h
  <2>7. host.legacyKey = mem.before.legacyKey
    BY <2>2 DEF Undoing, Undone
  <2>8. Sound(h)
    <3>1. h.dropin = None => mem.before.dropin = None
      BY <2>2, <2>4, JumpAssumption DEF Making
    <3>2. h.dropin = None /\ h.legacyDropin => h.legacyKey
      BY <2>2, <2>3, <2>4, <2>7, <3>1 DEF Making, Coherent
    <3> QED
      BY <1>0, <2>4, <2>6, <3>2 DEF Sound
  <2>9. Making("rescue dropin", mem, h)
    BY <2>2, <2>3, <2>4 DEF Making
  <2>10. Going("rescue dropin", mem, h) /\ Undoing("rescue dropin", mem, h)
    BY <2>2, <2>3, <2>4 DEF Going, Undoing, JumpWritten, Retired, Undone
  <2> QED
    BY <2>1, <2>2, <2>5, <2>8, <2>9, <2>10, PlayMoves DEF Plays, Undone
<1>4. CASE RescueDropin
  <2> DEFINE h == [host EXCEPT !.dropin = mem.before.dropin]
  <2>1. at = <<"jump", "rescue dropin">> /\ at' = <<"jump", "rescue reload">> /\ host' = h /\ mem' = mem
    BY <1>4 DEF RescueDropin, Writes, Play, Same, Act, At, Goto
  <2>2. mem \in JumpRun /\ Making("rescue dropin", mem, host) /\ Undoing("rescue dropin", mem, host)
    BY <2>1 DEF JumpInv, Plays, Undone
  <2>3. h \in JumpState
    BY <1>0, <2>2 DEF JumpState, JumpRun, JumpFiles
  <2>4. /\ h.key = host.key /\ h.dropin = mem.before.dropin /\ h.marker = host.marker /\ h.legacyDropin = host.legacyDropin
        /\ h.legacyKey = host.legacyKey /\ h.running = host.running /\ h.legacyDir = host.legacyDir
    BY <1>0 DEF JumpState
  <2> HIDE DEF h
  <2>5. h.marker \/ h.running = [dropin |-> h.dropin, legacy |-> h.legacyDropin]
    <3>1. CASE mem.before.dropin = host.dropin
      BY <1>0, <2>4, <3>1 DEF Sound
    <3>2. CASE mem.before.dropin # host.dropin
      BY <2>2, <2>4, <3>2 DEF Making
    <3> QED
      BY <3>1, <3>2
  <2>6. host.legacyKey = mem.before.legacyKey /\ host.legacyDropin = mem.before.legacyDropin
    BY <2>2 DEF Undoing, Undone
  <2>7. "new" # None
    BY JumpAssumption
  <2>8. Sound(h)
    BY <1>0, <2>2, <2>4, <2>5, <2>6, <2>7 DEF Sound, Making, Coherent
  <2>9. Making("rescue reload", mem, h)
    BY <2>2, <2>4, <2>7 DEF Making, Coherent
  <2>10. Going("rescue reload", mem, h) /\ Undoing("rescue reload", mem, h)
    BY <2>2, <2>4 DEF Going, Undoing, JumpWritten, Retired, Undone
  <2> QED
    BY <2>1, <2>2, <2>3, <2>8, <2>9, <2>10, PlayMoves DEF Plays, Undone
<1>5. CASE RescueUnmark
  <2> DEFINE h == [host EXCEPT !.marker = FALSE]
  <2>1. at = <<"jump", "rescue unmark">> /\ at' = <<"jump", "rescue key">> /\ host' = h /\ mem' = mem
    BY <1>5 DEF RescueUnmark, Writes, Play, Same, Act, At, Goto
  <2>2. mem \in JumpRun /\ Making("rescue unmark", mem, host) /\ Undoing("rescue unmark", mem, host)
    BY <2>1 DEF JumpInv, Plays, Undone
  <2>3. h \in JumpState
    BY <1>0 DEF JumpState
  <2>4. /\ h.key = host.key /\ h.dropin = host.dropin /\ h.legacyDropin = host.legacyDropin
        /\ h.legacyKey = host.legacyKey /\ h.running = host.running /\ h.legacyDir = host.legacyDir
    BY <1>0 DEF JumpState
  <2> HIDE DEF h
  <2>5. host.running = [dropin |-> host.dropin, legacy |-> host.legacyDropin]
    BY <2>2 DEF Undoing
  <2>6. Sound(h)
    BY <1>0, <2>4, <2>5 DEF Sound
  <2>7. Making("rescue key", mem, h)
    BY <2>2, <2>4 DEF Making
  <2>8. Going("rescue key", mem, h) /\ Undoing("rescue key", mem, h)
    BY <2>2, <2>4 DEF Going, Undoing, JumpWritten, Retired, Undone
  <2> QED
    BY <2>1, <2>2, <2>3, <2>6, <2>7, <2>8, PlayMoves DEF Plays, Undone
<1> QED
  BY <1>1, <1>2, <1>3, <1>4, <1>5

\* What the play finds and would put back.
LEMMA FilesAre ==
  ASSUME host \in JumpState
  PROVE  /\ Files \in JumpFiles
         /\ Files.key = host.key /\ Files.dropin = host.dropin /\ Files.legacyKey = host.legacyKey
         /\ Files.legacyDropin = host.legacyDropin /\ Files.legacyDir = host.legacyDir
  BY DEF Files, JumpFiles, JumpState

\* An ended play: no step is left to keep a record of.
LEMMA PlayEnds ==
  ASSUME at' = <<"jump", "ended">>, host' \in JumpState, Sound(host'),
         mem'.verdict # "done", RescueTruth'
  PROVE  JumpInv'
<1>1. "ended" \notin Plays
  BY DEF Plays, JumpWritten, Retired, Undone
<1> QED
  BY <1>1 DEF JumpInv, JumpTruth

LEMMA RescueEnds == ASSUME JumpInv, RescueReload \/ RescueKey PROVE JumpInv'
<1>0. host \in JumpState /\ Sound(host)
  BY DEF JumpInv
<1>1. CASE RescueReload
  <2>1. at = <<"jump", "rescue reload">>
    BY <1>1 DEF RescueReload, At
  <2>2. mem \in JumpRun /\ Making("rescue reload", mem, host) /\ Undoing("rescue reload", mem, host)
    BY <2>1 DEF JumpInv, Plays, Undone
  <2>3. CASE host.broken
    <3>1. at' = <<"jump", "ended">> /\ host' = host /\ mem' = [mem EXCEPT !.verdict = "half restored"]
      BY <1>1, <2>3 DEF RescueReload, Goto
    <3>2. mem'.verdict = "half restored" /\ mem'.pending = mem.pending
      BY <2>2, <3>1 DEF JumpRun
    <3>3. RescueTruth'
      BY <2>2, <3>1, <3>2 DEF RescueTruth, Making
    <3> QED
      BY <1>0, <3>1, <3>2, <3>3, PlayEnds
  <2>4. CASE ~host.broken
    <3> DEFINE h == [host EXCEPT !.running = OnDisk]
    <3>1. at' = <<"jump", "rescue unmark">> /\ host' = h /\ mem' = mem
      BY <1>1, <2>4 DEF RescueReload, Goto, Same
    <3>2. OnDisk \in JumpLoaded /\ OnDisk = [dropin |-> host.dropin, legacy |-> host.legacyDropin]
      BY <1>0 DEF OnDisk, JumpLoaded, JumpState
    <3>3. h \in JumpState
      BY <1>0, <3>2 DEF JumpState
    <3>4. /\ h.key = host.key /\ h.dropin = host.dropin /\ h.legacyDropin = host.legacyDropin
          /\ h.legacyKey = host.legacyKey /\ h.running = OnDisk /\ h.legacyDir = host.legacyDir
          /\ h.marker = host.marker
      BY <1>0 DEF JumpState
    <3> HIDE DEF h
    <3>5. Sound(h)
      BY <1>0, <3>2, <3>4 DEF Sound
    <3>6. Making("rescue unmark", mem, h)
      BY <2>2, <3>4 DEF Making
    <3>7. Going("rescue unmark", mem, h) /\ Undoing("rescue unmark", mem, h)
      BY <2>2, <3>2, <3>4 DEF Going, Undoing, JumpWritten, Retired, Undone
    <3> QED
      BY <2>2, <3>1, <3>3, <3>5, <3>6, <3>7, PlayMoves DEF Plays, Undone
  <2> QED
    BY <2>3, <2>4
<1>2. CASE RescueKey
  <2> DEFINE h == [host EXCEPT !.key = mem.before.key]
  <2>1. /\ at = <<"jump", "rescue key">> /\ at' = <<"jump", "ended">> /\ host' = h
        /\ mem' = [mem EXCEPT !.verdict = "restored"]
    BY <1>2 DEF RescueKey, Play, Act, At, Goto
  <2>2. mem \in JumpRun /\ Making("rescue key", mem, host) /\ Undoing("rescue key", mem, host)
    BY <2>1 DEF JumpInv, Plays, Undone
  <2>3. h \in JumpState /\ mem.before \in JumpFiles
    BY <1>0, <2>2 DEF JumpState, JumpRun, JumpFiles
  <2>4. /\ h.key = mem.before.key /\ h.dropin = host.dropin /\ h.legacyDropin = host.legacyDropin
        /\ h.legacyKey = host.legacyKey /\ h.running = host.running /\ h.legacyDir = host.legacyDir
        /\ h.marker = host.marker
    BY <1>0 DEF JumpState
  <2> HIDE DEF h
  <2>5. /\ host.dropin = mem.before.dropin /\ host.legacyDropin = mem.before.legacyDropin
        /\ host.legacyKey = mem.before.legacyKey /\ host.legacyDir = mem.before.legacyDir
        /\ host.running = [dropin |-> host.dropin, legacy |-> host.legacyDropin]
    BY <2>2 DEF Undoing, Undone
  <2>6. Sound(h)
    <3> DEFINE disk == [dropin |-> h.dropin, legacy |-> h.legacyDropin]
    <3>1. Coherent(mem.before)
      BY <2>2 DEF Making
    <3>2. IF h.dropin # None THEN h.key # None ELSE h.legacyDropin => h.legacyKey
      BY <2>4, <2>5, <3>1 DEF Coherent
    <3>3. h.running = disk /\ disk.dropin = h.dropin /\ disk.legacy = h.legacyDropin
      BY <2>4, <2>5
    <3> QED
      BY <3>2, <3>3 DEF Sound
  <2>7. mem'.verdict = "restored" /\ mem'.before = mem.before
    BY <2>1, <2>2 DEF JumpRun
  <2>8. Files' \in JumpFiles /\ Files' = mem.before
    <3>1. /\ Files' \in JumpFiles
          /\ Files'.key = h.key /\ Files'.dropin = h.dropin /\ Files'.legacyKey = h.legacyKey
          /\ Files'.legacyDropin = h.legacyDropin /\ Files'.legacyDir = h.legacyDir
      BY <2>1, <2>3 DEF Files, JumpFiles, JumpState
    <3> QED
      BY <2>3, <2>4, <2>5, <3>1 DEF JumpFiles
  <2>9. OnDisk' = h.running
    BY <2>1, <2>4, <2>5 DEF OnDisk
  <2>10. RescueTruth'
    BY <2>1, <2>7, <2>8, <2>9 DEF RescueTruth
  <2> QED
    BY <2>1, <2>3, <2>6, <2>7, <2>10, PlayEnds
<1> QED
  BY <1>1, <1>2

LEMMA JumpPlanKeeps == ASSUME JumpInv, JumpPlans PROVE JumpInv'
<1>1. host \in JumpState /\ Sound(host) /\ at = <<"jump", "idle">> /\ host' = host
  BY DEF JumpInv, JumpPlans, At
<1>2. PICK refusal \in {None} \cup Refusals :
        IF refusal # None \/ Unfixable
        THEN Play("idle", "ended") /\ mem' = [verdict |-> "refused", before |-> Files]
        ELSE /\ Play("idle", "mark")
             /\ mem' = [verdict |-> None, before |-> Files, pending |-> Pending,
                        owed |-> host.marker, changed |-> FALSE, retired |-> FALSE]
  BY DEF JumpPlans
<1>3. CASE refusal # None \/ Unfixable
  <2>1. at' = <<"jump", "ended">> /\ mem'.verdict = "refused"
    BY <1>2, <1>3 DEF Play, Act, Goto
  <2> QED
    BY <1>1, <2>1, PlayEnds DEF RescueTruth
<1>4. CASE ~(refusal # None \/ Unfixable)
  <2> DEFINE m == [verdict |-> None, before |-> Files, pending |-> Pending,
                   owed |-> host.marker, changed |-> FALSE, retired |-> FALSE]
  <2>1. at' = <<"jump", "mark">> /\ mem' = m
    BY <1>2, <1>4 DEF Play, Act, Goto
  <2>2. Pending <=> Files.key # "new" \/ Files.dropin # "new" \/ Files.legacyKey \/ Files.legacyDropin
    BY <1>1, FilesAre DEF Pending, FilesAsWanted, LegacyPresent
  <2>3. m \in JumpRun
    BY <1>1, FilesAre DEF JumpRun, JumpState, Pending
  <2>4. /\ m.before = Files /\ (m.pending <=> Pending) /\ (m.owed <=> host.marker)
    OBVIOUS
  <2> HIDE DEF m
  <2>5. Making("mark", m, host)
    BY <1>1, <2>2, <2>4, FilesAre, JumpAssumption DEF Making, Coherent, Sound
  <2>6. Going("mark", m, host) /\ Undoing("mark", m, host)
    BY <1>1, <2>4, FilesAre DEF Going, Undoing, Sound, JumpWritten, Retired, Undone
  <2> QED
    BY <1>1, <2>1, <2>3, <2>5, <2>6, PlayMoves DEF Plays
<1> QED
  BY <1>2, <1>3, <1>4

\* The play unmarks once sshd has what is on disk: what it reports then holds.
LEMMA DoneTrue == ASSUME JumpInv, JumpDone PROVE JumpInv'
<1> DEFINE h == [host EXCEPT !.marker = FALSE]
<1>1. /\ at = <<"jump", "unmark">> /\ at' = <<"jump", "ended">> /\ host' = h
      /\ mem' = [mem EXCEPT !.verdict = "done"]
  BY DEF JumpDone, Play, Act, At, Goto
<1>2. host \in JumpState /\ Sound(host) /\ mem \in JumpRun /\ Going("unmark", mem, host)
  BY <1>1 DEF JumpInv, Plays, Retired
<1>3. h \in JumpState
  BY <1>2 DEF JumpState
<1>4. /\ h.key = host.key /\ h.dropin = host.dropin /\ h.legacyDropin = host.legacyDropin
      /\ h.legacyKey = host.legacyKey /\ h.running = host.running /\ h.marker = FALSE
  BY <1>2 DEF JumpState
<1> HIDE DEF h
<1>5. /\ host.key = "new" /\ host.dropin = "new" /\ ~host.legacyDropin /\ ~host.legacyKey
      /\ host.running = [dropin |-> host.dropin, legacy |-> host.legacyDropin]
  BY <1>2 DEF Going, Retired
<1>6. host.legacyDropin = FALSE
  BY <1>2, <1>5 DEF JumpState
<1>7. Sound(h)
  BY <1>2, <1>4, <1>5 DEF Sound
<1>8. mem'.verdict = "done"
  BY <1>1, <1>2 DEF JumpRun
<1>9. JumpTruth' /\ RescueTruth'
  BY <1>1, <1>4, <1>5, <1>6, <1>8 DEF JumpTruth, RescueTruth, Pending, FilesAsWanted, LegacyPresent
<1>10. "ended" \notin Plays
  BY DEF Plays, JumpWritten, Retired, Undone
<1> QED
  BY <1>1, <1>3, <1>7, <1>9, <1>10 DEF JumpInv

\* Between two plays only what is sound is left: a play that dies owes its reload by the marker.
LEMMA RestKeeps ==
  ASSUME JumpInv, NEW h \in JumpState, Sound(h), host' = h, at' = <<"jump", "idle">>
  PROVE  JumpInv'
<1>1. "idle" \notin Plays
  BY DEF Plays, JumpWritten, Retired, Undone
<1> QED
  BY <1>1 DEF JumpInv, JumpTruth, RescueTruth, At

LEMMA JumpWorldKeeps ==
  ASSUME JumpInv, TaskFails \/ PlayDies \/ ConfigSpoilt \/ JumpRestarts \/ JumpRests
  PROVE  JumpInv'
<1>0. host \in JumpState /\ Sound(host)
  BY DEF JumpInv
<1>1. CASE TaskFails
  <2>1. PICK step \in Rescuable : at = <<"jump", step>>
    BY <1>1 DEF TaskFails, At
  <2>2. step \in Plays \ Undone /\ step # "mark"
    BY DEF Rescuable, Plays, Undone, JumpWritten, Retired
  <2> QED
    BY <1>1, <2>1, <2>2, RescueBegins DEF TaskFails, Goto
<1>2. CASE PlayDies \/ JumpRests
  BY <1>0, <1>2, RestKeeps DEF PlayDies, JumpRests, Play, Act, Goto
<1>3. CASE JumpRestarts
  <2> DEFINE h == [host EXCEPT !.marker = FALSE, !.running = OnDisk]
  <2>1. host' = h /\ at' = at /\ at = <<"jump", "idle">>
    BY <1>3 DEF JumpRestarts, At
  <2>2. OnDisk \in JumpLoaded /\ OnDisk = [dropin |-> host.dropin, legacy |-> host.legacyDropin]
    BY <1>0 DEF OnDisk, JumpLoaded, JumpState
  <2>3. /\ h \in JumpState /\ h.key = host.key /\ h.dropin = host.dropin /\ h.legacyDropin = host.legacyDropin
        /\ h.legacyKey = host.legacyKey /\ h.running = OnDisk
    BY <1>0, <2>2 DEF JumpState
  <2> HIDE DEF h
  <2>4. Sound(h)
    BY <1>0, <2>2, <2>3 DEF Sound
  <2> QED
    BY <2>1, <2>3, <2>4, RestKeeps
<1>4. CASE ConfigSpoilt
  <2>1. UNCHANGED <<at, mem>> /\ host' = [host EXCEPT !.broken = ~host.broken]
    BY <1>4 DEF ConfigSpoilt
  <2>2. /\ host' \in JumpState /\ host'.key = host.key /\ host'.dropin = host.dropin
        /\ host'.legacyKey = host.legacyKey /\ host'.legacyDropin = host.legacyDropin
        /\ host'.legacyDir = host.legacyDir /\ host'.marker = host.marker /\ host'.running = host.running
    BY <1>0, <2>1 DEF JumpState
  <2>3. Sound(host')
    BY <1>0, <2>2 DEF Sound
  <2>4. at[2] \in Plays => Making(at[2], mem, host') /\ Going(at[2], mem, host') /\ Undoing(at[2], mem, host')
    BY <2>2 DEF JumpInv, Making, Going, Undoing
  <2>5. Files' = Files /\ OnDisk' = OnDisk
    <3>1. Files' = [f \in {"key", "dropin", "legacyKey", "legacyDropin", "legacyDir"} |-> host'[f]]
      BY DEF Files
    <3>2. \A f \in {"key", "dropin", "legacyKey", "legacyDropin", "legacyDir"} : host'[f] = host[f]
      BY <2>2
    <3> QED
      BY <2>2, <3>1, <3>2 DEF Files, OnDisk
  <2>6. JumpTruth' /\ RescueTruth'
    BY <2>1, <2>2, <2>5 DEF JumpInv, JumpTruth, RescueTruth, Pending, FilesAsWanted, LegacyPresent, At
  <2> QED
    BY <2>1, <2>2, <2>3, <2>4, <2>6 DEF JumpInv
<1> QED
  BY <1>1, <1>2, <1>3, <1>4

LEMMA JumpIsInductive ==
  /\ JumpInit => JumpInv
  /\ JumpInv /\ [JumpNext]_programVars => JumpInv'
<1>1. JumpInit => JumpInv
  <2> SUFFICES ASSUME JumpInit PROVE JumpInv
    OBVIOUS
  <2>1. PICK f \in Earlier, sshd \in {"takes", "ignores", "unfixable"} :
          /\ (f.dropin # None) = (f.key # None)
          /\ f.legacyDropin => f.legacyKey
          /\ host = [key |-> f.key, dropin |-> f.dropin, legacyKey |-> f.legacyKey,
                     legacyDropin |-> f.legacyDropin, legacyDir |-> f.legacyDir,
                     marker |-> FALSE, sshd |-> sshd, broken |-> FALSE,
                     running |-> [dropin |-> f.dropin, legacy |-> f.legacyDropin]]
    BY DEF JumpInit
  <2>2. host \in JumpState /\ Sound(host)
    BY <2>1 DEF Earlier, JumpState, JumpLoaded, JumpText, DirOf, Sound
  <2>3. at = <<"jump", "idle">> /\ "idle" \notin Plays
    BY DEF JumpInit, Plays, JumpWritten, Retired, Undone
  <2> QED
    BY <2>2, <2>3 DEF JumpInv, JumpTruth, RescueTruth, At
<1>2. JumpInv /\ UNCHANGED programVars => JumpInv'
  BY DEF programVars, JumpInv, JumpTruth, RescueTruth, Files, OnDisk, Pending, FilesAsWanted, LegacyPresent, At
<1>3. JumpInv /\ JumpNext => JumpInv'
  BY JumpPlanKeeps, WriteKeeps, CheckKeeps, ReloadKeeps, RetireKeeps, DoneTrue, RescueKeeps, RescueEnds, JumpWorldKeeps
     DEF JumpNext
<1> QED
  BY <1>1, <1>2, <1>3

LEMMA JumpInvGives == JumpInv => JumpHolds
<1> SUFFICES ASSUME JumpInv PROVE NamedFilesExist /\ ReloadDoneOrOwed
  BY DEF JumpHolds, JumpInv
<1>1. Sound(host)
  BY DEF JumpInv
<1> QED
  BY <1>1 DEF Sound, NamedFilesExist, ReloadDoneOrOwed, Named, OnDisk

\* The jump host's sshd is never told of a file that is not there, owes a reload only where the
\* marker says so, and a play's verdict is what the files and the running sshd show.
THEOREM JumpIsTrue == JumpSpec => []JumpHolds
BY JumpIsInductive, JumpInvGives, PTL DEF JumpSpec

---------------------------------------------------------------------------
(* The deploy slots. Everything that can refuse is asked before the first  *)
(* write, so while a program writes no line is one it does not explain;    *)
(* and what a run of the role found valid stays so, because the entries it *)
(* was given do not change.                                                *)

SlotValue == Key \cup {None, Odd}
SlotLines == [SlotStack -> SlotValue]
SlotRegister == [register : SlotLines, lines : SlotLines, foreign : SUBSET Key, stacks : SUBSET SlotStack,
             home : BOOLEAN, dir : BOOLEAN, files : SUBSET SlotStack, fit : {"fit", "no account", "untrusted"}]
SlotRun == [by : {"hand", "list", "role", "check"}, entries : Entries, revokes : SUBSET SlotStack,
            grants : SUBSET Nat, lines : SlotLines, agreed : BOOLEAN,
            verdict : {None, "done", "refused", "broken"}]
Writing == {"register", "lines"}
Underway == {"next"} \cup Writing

\* What a run m, at a step, may rely on in the files h.
SlotRunning(step, m, h) ==
  /\ m \in SlotRun /\ m.grants \subseteq DOMAIN m.entries
  /\ m.by = "role" => EntriesValid(m.entries) /\ m.entries # <<>>
  /\ step \in Writing => m.revokes # {} \/ m.grants # {}
  /\ step \in Writing \/ m.by = "role" => \A s \in SlotStack : h.lines[s] # Odd
  /\ step \in Writing => \A s \in SlotStack : h.register[s] # Odd

\* The key a run is granting is no other key of the host.
Granting ==
  ~Revoking =>
    /\ At("slots", "register") => Operation.key # Odd /\ KeyUnused(Operation.stack, Operation.key, host.register)
    /\ At("slots", "lines") => KeyUnused(Operation.stack, host.register[Operation.stack], host.register)

SlotInv ==
  /\ at \in {"slots"} \X ({"idle", "ended"} \cup Underway) /\ host \in SlotRegister
  /\ at[2] \in Underway => SlotRunning(at[2], mem, host) /\ Granting
  /\ SlotTruth

LEMMA SlotMoves ==
  ASSUME NEW to \in Underway, at' = <<"slots", to>>, host' \in SlotRegister, SlotRunning(to, mem', host'), Granting'
  PROVE  SlotInv'
<1>1. to # "ended"
  BY DEF Underway, Writing
<1> QED
  BY <1>1 DEF SlotInv, SlotTruth, At

LEMMA SlotRunEnds ==
  ASSUME at' = <<"slots", "ended">>, host' \in SlotRegister, SlotTruth'
  PROVE  SlotInv'
  BY DEF SlotInv, Underway, Writing

LEMMA NumbersOrdered == IsWellFoundedOn({ss \in Nat \X Nat : ss[1] < ss[2]}, Nat)
BY NatLessThanWellFounded DEF OpToRel

LEMMA NextIsIn == ASSUME NEW S \in SUBSET Nat, S # {} PROVE First(S) \in S
<1> DEFINE R == {ss \in Nat \X Nat : ss[1] < ss[2]}
<1>1. IsWellFoundedOn(R, Nat)
  BY NumbersOrdered
<1> HIDE DEF R
<1>2. PICK x \in S : \A y \in S : ~(<<y, x>> \in R)
  BY <1>1, WFMin
<1>3. ASSUME NEW y \in S PROVE x <= y
  <2>1. x \in Nat /\ y \in Nat /\ <<y, x>> \notin R
    BY <1>2
  <2>2. ~(y < x)
    BY <2>1 DEF R
  <2> QED
    BY <2>1, <2>2
<1> QED
  BY <1>3 DEF First

\* The entry a run grants next is one it was given.
LEMMA GrantIsAnEntry ==
  ASSUME mem \in SlotRun, mem.grants \subseteq DOMAIN mem.entries, mem.grants # {}, ~Revoking
  PROVE  Operation \in Entry
<1>1. First(mem.grants) \in DOMAIN mem.entries
  BY NextIsIn DEF SlotRun
<1>2. mem.entries[First(mem.grants)] \in Entry
  BY <1>1 DEF SlotRun, Entries
<1> QED
  BY <1>2 DEF Operation

---------------------------------------------------------------------------
\* A run begins, by hand or by the role.
LEMMA HandBegins ==
  ASSUME SlotInv,
         \/ \E s \in SlotStack, k \in Key \cup {Odd}, adopt \in BOOLEAN : HandGrants(s, k, adopt)
         \/ \E s \in SlotStack : HandRevokes(s)
         \/ HandLists
  PROVE  SlotInv'
<1>0. host \in SlotRegister /\ host.lines \in SlotLines
  BY DEF SlotInv, SlotRegister
<1>1. CASE \E s \in SlotStack, k \in Key \cup {Odd}, adopt \in BOOLEAN : HandGrants(s, k, adopt)
  <2>1. PICK s \in SlotStack, k \in Key \cup {Odd}, adopt \in BOOLEAN : HandGrants(s, k, adopt)
    BY <1>1
  <2> DEFINE e == [stack |-> s, key |-> k, adopt |-> adopt]
  <2>2. /\ at' = <<"slots", "next">> /\ host' = host
        /\ mem' = [by |-> "hand", entries |-> <<e>>, revokes |-> {}, grants |-> {1}, lines |-> host.lines,
                   agreed |-> Readable /\ SlotsReconciled, verdict |-> None]
    BY <2>1 DEF HandGrants, Started, Act, Goto
  <2>3. e \in Entry
    BY DEF Entry
  <2> HIDE DEF e
  <2>4. <<e>> \in Entries /\ DOMAIN <<e>> = {1}
    <3>1. <<e>> \in [1..1 -> Entry] /\ 1 \in 0..2
      BY <2>3
    <3> QED
      BY <3>1 DEF Entries
  <2>5. mem' \in SlotRun
    BY <1>0, <2>2, <2>4 DEF SlotRun, Readable, SlotsReconciled
  <2>6. SlotRunning("next", mem', host')
    BY <2>2, <2>4, <2>5 DEF SlotRunning, Writing
  <2>7. Granting'
    BY <2>2 DEF Granting, At
  <2> QED
    BY <1>0, <2>2, <2>6, <2>7, SlotMoves DEF Underway
<1>2. CASE \E s \in SlotStack : HandRevokes(s)
  <2>1. PICK s \in SlotStack : HandRevokes(s)
    BY <1>2
  <2>2. /\ at' = <<"slots", "next">> /\ host' = host
        /\ mem' = [by |-> "hand", entries |-> <<>>, revokes |-> {s}, grants |-> {}, lines |-> host.lines,
                   agreed |-> Readable /\ SlotsReconciled, verdict |-> None]
    BY <2>1 DEF HandRevokes, Started, Act, Goto
  <2>3. <<>> \in Entries
    <3>1. <<>> \in [1..0 -> Entry] /\ 0 \in 0..2
      OBVIOUS
    <3> QED
      BY <3>1 DEF Entries
  <2>4. mem' \in SlotRun
    BY <1>0, <2>2, <2>3 DEF SlotRun, Readable, SlotsReconciled
  <2>5. SlotRunning("next", mem', host')
    BY <2>2, <2>4 DEF SlotRunning, Writing
  <2>6. Granting'
    BY <2>2 DEF Granting, At
  <2> QED
    BY <1>0, <2>2, <2>5, <2>6, SlotMoves DEF Underway
<1>3. CASE HandLists
  BY <1>0, <1>3, SlotRunEnds DEF HandLists, Act, Goto, Started, SlotTruth
<1> QED
  BY <1>1, <1>2, <1>3

\* The role's entries that fit are each of another stack and of another key, and of no key that
\* stands on an unmanaged line.
LEMMA DeclaredIsAlone ==
  ASSUME NEW entries \in Entries, EntriesValid(entries), NEW s \in SlotStack, NEW t \in SlotStack \ {s},
         Declared(entries)[s] # None
  PROVE  Declared(entries)[t] # Declared(entries)[s]
<1> DEFINE d(u) == CHOOSE n \in DOMAIN entries : entries[n].stack = u
<1>1. \A u \in SlotStack : Declared(entries)[u] =
        IF \E n \in DOMAIN entries : entries[n].stack = u THEN entries[d(u)].key ELSE None
  BY DEF Declared
<1>2. \A u \in SlotStack : (\E n \in DOMAIN entries : entries[n].stack = u) =>
                             d(u) \in DOMAIN entries /\ entries[d(u)].stack = u
  OBVIOUS
<1> HIDE DEF d
<1>3. d(s) \in DOMAIN entries /\ entries[d(s)].stack = s /\ Declared(entries)[s] = entries[d(s)].key
  BY <1>1, <1>2
<1>4. CASE \E n \in DOMAIN entries : entries[n].stack = t
  <2>1. d(t) \in DOMAIN entries /\ entries[d(t)].stack = t /\ Declared(entries)[t] = entries[d(t)].key
    BY <1>1, <1>2, <1>4
  <2>2. d(s) # d(t)
    BY <1>3, <2>1
  <2> QED
    BY <1>3, <2>1, <2>2 DEF EntriesValid
<1>5. CASE ~\E n \in DOMAIN entries : entries[n].stack = t
  BY <1>1, <1>3, <1>5
<1> QED
  BY <1>4, <1>5

LEMMA DeclaredIsManaged ==
  ASSUME NEW entries \in Entries, PlanFits(entries), host.foreign \subseteq Key, NEW s \in SlotStack
  PROVE  Declared(entries)[s] \notin host.foreign
<1>1. CASE \E n \in DOMAIN entries : entries[n].stack = s
  <2>1. PICK n \in DOMAIN entries : entries[n].stack = s /\ Declared(entries)[s] = entries[n].key
    BY <1>1 DEF Declared
  <2> QED
    BY <2>1 DEF PlanFits, KeyUnused
<1>2. CASE ~\E n \in DOMAIN entries : entries[n].stack = s
  BY <1>2, SlotAssumption DEF Declared
<1> QED
  BY <1>1, <1>2

\* With nothing left to do, the files are what was declared.
LEMMA NothingDrifted ==
  ASSUME host \in SlotRegister, NEW entries \in Entries, Drift(Declared(entries)) = {}
  PROVE  /\ host.lines = Declared(entries) /\ host.home /\ host.dir
         /\ \A s \in host.files : Declared(entries)[s] = None
<1>1. host.lines \in [SlotStack -> SlotValue] /\ host.files \subseteq SlotStack
  BY DEF SlotRegister, SlotLines
<1>2. \A s \in SlotStack : host.lines[s] = Declared(entries)[s]
  BY DEF Drift
<1>3. host.lines = Declared(entries)
  BY <1>1, <1>2 DEF Declared
<1>4. host.home /\ host.dir
  BY DEF Drift
<1>5. \A s \in SlotStack : ~(Declared(entries)[s] # None /\ s \in host.files)
  BY DEF Drift
<1> QED
  BY <1>1, <1>3, <1>4, <1>5

\* A run of the role that fits: what it declares is what is there, or it goes on to write.
LEMMA RoleBegins ==
  ASSUME SlotInv, NEW entries \in Entries, NEW check \in BOOLEAN, RoleConverges(entries, check)
  PROVE  SlotInv'
<1>0. /\ host \in SlotRegister /\ host.lines \in SlotLines /\ host.foreign \subseteq Key
      /\ host.register \in [SlotStack -> SlotValue] /\ host' = host
  BY DEF SlotInv, SlotRegister, SlotLines, RoleConverges
<1>1. CASE entries # <<>> /\ (~EntriesValid(entries) \/ ~PlanFits(entries))
  BY <1>0, <1>1, SlotRunEnds DEF RoleConverges, Act, Goto, Started, SlotTruth
<1>2. CASE entries = <<>> \/ (check /\ EntriesValid(entries) /\ PlanFits(entries))
  BY <1>0, <1>2, SlotRunEnds DEF RoleConverges, Act, Goto, Started, SlotTruth
<1>3. CASE entries # <<>> /\ EntriesValid(entries) /\ PlanFits(entries) /\ ~PlanChanges(entries) /\ ~check
  <2>1. /\ at' = <<"slots", "ended">> /\ mem'.entries = entries
    BY <1>3 DEF RoleConverges, Act, Goto, Started
  <2>2. Revoked(entries) = {} /\ Touched(entries) = {} /\ Drift(Declared(entries)) = {}
    BY <1>3 DEF PlanChanges
  <2>3. \A s \in SlotStack : host.register[s] = Declared(entries)[s]
    BY <2>2 DEF Revoked, Touched
  <2>4. host.register = Declared(entries)
    BY <1>0, <2>3 DEF Declared
  <2>5. /\ host.lines = Declared(entries) /\ host.home /\ host.dir
        /\ \A s \in host.files : Declared(entries)[s] = None
    BY <1>0, <2>2, NothingDrifted
  <2>6. \A s \in SlotStack : /\ Declared(entries)[s] \notin host.foreign
                             /\ \A t \in SlotStack \ {s} : Declared(entries)[s] # None =>
                                                              Declared(entries)[t] # Declared(entries)[s]
    BY <1>0, <1>3, DeclaredIsManaged, DeclaredIsAlone
  <2>7. SlotTruth'
    <3>1. host'.register = Declared(entries) /\ host'.lines = Declared(entries) /\ host'.home /\ host'.dir
      BY <1>0, <2>4, <2>5
    <3>2. host'.foreign = host.foreign /\ host'.files = host.files
      BY <1>0
    <3>3. \A s \in host'.files : host'.register[s] = None
      BY <2>5, <3>1, <3>2
    <3> DEFINE d == Declared(entries)
    <3>4. Declared(mem'.entries) = d
      BY <2>1
    <3> HIDE DEF d
    <3> QED
      BY <2>1, <2>6, <3>1, <3>2, <3>3, <3>4 DEF SlotTruth, d
  <2> QED
    BY <1>0, <2>1, <2>7, SlotRunEnds
<1>4. CASE entries # <<>> /\ EntriesValid(entries) /\ PlanFits(entries) /\ PlanChanges(entries) /\ ~check
  <2>1. /\ at' = <<"slots", "next">>
        /\ mem' = [by |-> "role", entries |-> entries, revokes |-> Revoked(entries), grants |-> Grants(entries),
                   lines |-> host.lines, agreed |-> Readable /\ SlotsReconciled, verdict |-> None]
    BY <1>4 DEF RoleConverges, Act, Goto, Started
  <2>2. Grants(entries) \subseteq DOMAIN entries /\ Grants(entries) \in SUBSET Nat
    <3>1. Grants(entries) \subseteq DOMAIN entries
      BY DEF Grants
    <3>2. DOMAIN entries \subseteq Nat
      BY DEF Entries
    <3> QED
      BY <3>1, <3>2
  <2>3. Revoked(entries) \in SUBSET SlotStack
    BY DEF Revoked
  <2>4. mem' \in SlotRun
    BY <1>0, <2>1, <2>2, <2>3 DEF SlotRun, Readable, SlotsReconciled
  <2>5. \A s \in SlotStack : host.lines[s] # Odd
    BY <1>4, ValueAssumption DEF PlanFits, SlotsReconciled
  <2>6. SlotRunning("next", mem', host')
    BY <1>0, <1>4, <2>1, <2>2, <2>4, <2>5 DEF SlotRunning, Writing
  <2>7. Granting'
    BY <2>1 DEF Granting, At
  <2> QED
    BY <1>0, <2>1, <2>6, <2>7, SlotMoves DEF Underway
<1> QED
  BY <1>1, <1>2, <1>3, <1>4

\* A grant or a revoke: it is refused, or the files are readable and reconciled as it begins.
LEMMA OperationKeeps == ASSUME SlotInv, OperationBegins \/ RegisterWritten \/ LinesWritten PROVE SlotInv'
<1>0. host \in SlotRegister /\ host.register \in SlotLines /\ host.files \in SUBSET SlotStack
  BY DEF SlotInv, SlotRegister
<1>1. CASE OperationBegins
  <2>1. at = <<"slots", "next">> /\ (Revoking \/ mem.grants # {}) /\ SlotRunning("next", mem, host)
    BY <1>1 DEF OperationBegins, At, SlotInv, Underway
  <2>2. CASE (Revoking /\ RevokeFits(Operation)) \/ (~Revoking /\ GrantFits(Operation))
    <3> DEFINE h == [host EXCEPT !.home = TRUE]
    <3>1. at' = <<"slots", "register">> /\ host' = h /\ mem' = mem
      BY <1>1, <2>2 DEF OperationBegins, Goto
    <3>2. h \in SlotRegister /\ h.lines = host.lines /\ h.register = host.register /\ h.foreign = host.foreign
      BY <1>0 DEF SlotRegister
    <3> HIDE DEF h
    <3>3. Readable /\ SlotsReconciled
      BY <2>2 DEF RevokeFits, GrantFits
    <3>4. \A s \in SlotStack : host.register[s] # Odd /\ host.lines[s] # Odd
      BY <3>3, ValueAssumption DEF Readable, SlotsReconciled
    <3>5. SlotRunning("register", mem, h)
      BY <2>1, <3>2, <3>4 DEF SlotRunning, Writing, Revoking
    <3>6. Granting'
      <4>1. ~Revoking => Operation.key # Odd /\ KeyUnused(Operation.stack, Operation.key, host.register)
        BY <2>2 DEF GrantFits
      <4>2. Operation' = Operation /\ Revoking' = Revoking
        BY <3>1 DEF Operation, Revoking
      <4> QED
        BY <3>1, <3>2, <4>1, <4>2 DEF Granting, At, KeyUnused
    <3> QED
      BY <3>1, <3>2, <3>5, <3>6, SlotMoves DEF Underway, Writing
  <2>3. CASE ~((Revoking /\ RevokeFits(Operation)) \/ (~Revoking /\ GrantFits(Operation)))
    <3>1. at' = <<"slots", "ended">> /\ host' = host /\ mem' = [mem EXCEPT !.verdict = "refused"]
      BY <1>1, <2>3 DEF OperationBegins, Goto, SlotVerdict
    <3>2. mem'.verdict = "refused"
      BY <2>1, <3>1 DEF SlotRunning, SlotRun
    <3> QED
      BY <1>0, <3>1, <3>2, SlotRunEnds DEF SlotTruth
  <2> QED
    BY <2>2, <2>3
<1>2. CASE RegisterWritten
  <2> DEFINE s == Operation.stack
  <2>1. at = <<"slots", "register">> /\ at' = <<"slots", "lines">> /\ mem' = mem
    BY <1>2 DEF RegisterWritten, Act, At, Goto
  <2>2. SlotRunning("register", mem, host) /\ Granting
    BY <2>1 DEF SlotInv, Underway, Writing
  <2>3. Operation' = Operation /\ Revoking' = Revoking
    BY <2>1 DEF Operation, Revoking
  <2>4. CASE Revoking
    <3> DEFINE h == [host EXCEPT !.register[s] = None, !.files = @ \ {s}]
    <3>1. host' = h
      BY <1>2, <2>4 DEF RegisterWritten
    <3>2. h.register = [host.register EXCEPT ![s] = None] /\ h.files = host.files \ {s} /\ h.lines = host.lines
      BY <1>0 DEF SlotRegister
    <3>3. [host.register EXCEPT ![s] = None] \in SlotLines
      BY <1>0 DEF SlotLines, SlotValue
    <3>4. h \in SlotRegister
      BY <1>0, <3>2, <3>3 DEF SlotRegister
    <3> HIDE DEF h
    <3>5. \A t \in SlotStack : h.register[t] # Odd
      BY <1>0, <2>2, <3>2, ValueAssumption DEF SlotRunning, Writing, SlotLines
    <3>6. SlotRunning("lines", mem, h)
      BY <2>2, <3>2, <3>5 DEF SlotRunning, Writing
    <3>7. Granting'
      BY <2>3, <2>4 DEF Granting
    <3> QED
      BY <2>1, <3>1, <3>4, <3>6, <3>7, SlotMoves DEF Underway, Writing
  <2>5. CASE ~Revoking
    <3> DEFINE k == Operation.key
               h == [host EXCEPT !.register[s] = k, !.files = @ \ {s}, !.dir = TRUE]
    <3>1. host' = h
      BY <1>2, <2>5 DEF RegisterWritten
    <3>2. s \in SlotStack /\ k \in Key \cup {Odd}
      <4>1. Operation \in Entry
        BY <2>2, <2>5, GrantIsAnEntry DEF SlotRunning, Writing, Revoking
      <4> QED
        BY <4>1 DEF Entry
    <3>3. k # Odd /\ KeyUnused(s, k, host.register)
      BY <2>1, <2>2, <2>5 DEF Granting, At
    <3> HIDE DEF k, s
    <3>4. /\ h.register = [host.register EXCEPT ![s] = k] /\ h.files = host.files \ {s} /\ h.lines = host.lines
          /\ h.foreign = host.foreign
      BY <1>0 DEF SlotRegister
    <3>5. [host.register EXCEPT ![s] = k] \in SlotLines
      BY <1>0, <3>2 DEF SlotLines, SlotValue
    <3>6. h \in SlotRegister
      BY <1>0, <3>4, <3>5 DEF SlotRegister
    <3> HIDE DEF h
    <3>7. h.register[s] = k /\ \A t \in SlotStack \ {s} : h.register[t] = host.register[t]
      BY <1>0, <3>2, <3>4 DEF SlotLines
    <3>8. SlotRunning("lines", mem, h)
      BY <2>2, <3>3, <3>4, <3>7 DEF SlotRunning, Writing
    <3>9. Granting'
      BY <2>1, <2>3, <3>1, <3>3, <3>4, <3>7 DEF Granting, At, KeyUnused, s
    <3> QED
      BY <2>1, <3>1, <3>6, <3>8, <3>9, SlotMoves DEF Underway, Writing
  <2> QED
    BY <2>4, <2>5
<1>3. CASE LinesWritten
  <2> DEFINE h == [host EXCEPT !.lines = host.register]
  <2>1. at = <<"slots", "lines">> /\ at' = <<"slots", "next">> /\ host' = h
    BY <1>3 DEF LinesWritten, Act, At, Goto
  <2>2. SlotRunning("lines", mem, host)
    BY <2>1 DEF SlotInv, Underway, Writing
  <2>3. h \in SlotRegister /\ h.lines = host.register
    BY <1>0 DEF SlotRegister
  <2> HIDE DEF h
  <2>4. /\ mem' \in SlotRun /\ mem'.by = mem.by /\ mem'.entries = mem.entries
        /\ mem'.grants \subseteq mem.grants
    <3>1. mem \in SlotRun
      BY <2>2 DEF SlotRunning
    <3>2. CASE Revoking
      <4>1. mem' = [mem EXCEPT !.revokes = @ \ {First(@)}]
        BY <1>3, <3>2 DEF LinesWritten
      <4>2. mem.revokes \ {First(mem.revokes)} \in SUBSET SlotStack
        BY <3>1 DEF SlotRun
      <4> QED
        BY <3>1, <4>1, <4>2 DEF SlotRun
    <3>3. CASE ~Revoking
      <4>1. mem' = [mem EXCEPT !.grants = @ \ {First(@)}]
        BY <1>3, <3>3 DEF LinesWritten
      <4>2. mem.grants \ {First(mem.grants)} \in SUBSET Nat
        BY <3>1 DEF SlotRun
      <4> QED
        BY <3>1, <4>1, <4>2 DEF SlotRun
    <3> QED
      BY <3>2, <3>3
  <2>5. SlotRunning("next", mem', h)
    BY <2>2, <2>3, <2>4 DEF SlotRunning, Writing
  <2>6. Granting'
    BY <2>1 DEF Granting, At
  <2> QED
    BY <2>1, <2>3, <2>5, <2>6, SlotMoves DEF Underway
<1> QED
  BY <1>1, <1>2, <1>3

\* A run ends well only when its read-back finds what it declared.
LEMMA ReadBackIsTrue == ASSUME SlotInv, RoleReadsBack PROVE SlotInv'
<1>1. /\ at = <<"slots", "next">> /\ at' = <<"slots", "ended">> /\ host \in SlotRegister
      /\ SlotRunning("next", mem, host) /\ mem.by = "role"
  BY DEF RoleReadsBack, Act, At, Goto, SlotInv, Underway
<1>2. mem \in SlotRun /\ mem.entries \in Entries /\ EntriesValid(mem.entries)
  BY <1>1 DEF SlotRunning, SlotRun
<1>3. CASE BackIsDeclared
  <2> DEFINE d == Declared(mem.entries)
  <2>1. host' = host /\ mem' = [mem EXCEPT !.verdict = "done"]
    BY <1>3 DEF RoleReadsBack, SlotVerdict
  <2>2. Declared(mem'.entries) = d
    BY <1>2, <2>1 DEF SlotRun
  <2>3. /\ host.register = d /\ host.lines = d /\ host.home /\ host.dir
        /\ \A s \in host.files : d[s] = None
        /\ \A s \in SlotStack : d[s] \notin host.foreign
    BY <1>1, <1>2, <1>3, NothingDrifted DEF BackIsDeclared
  <2>4. \A s \in SlotStack : \A t \in SlotStack \ {s} : d[s] # None => d[t] # d[s]
    BY <1>2, DeclaredIsAlone
  <2> HIDE DEF d
  <2>5. SlotTruth'
    BY <2>1, <2>2, <2>3, <2>4 DEF SlotTruth
  <2> QED
    BY <1>1, <2>1, <2>5, SlotRunEnds
<1>4. CASE ~BackIsDeclared
  <2>1. host' = [host EXCEPT !.lines = mem.lines] /\ mem' = [mem EXCEPT !.verdict = "refused"]
    BY <1>4 DEF RoleReadsBack, SlotVerdict
  <2>2. host' \in SlotRegister /\ mem'.verdict = "refused"
    BY <1>1, <1>2, <2>1 DEF SlotRegister, SlotRun
  <2> QED
    BY <1>1, <2>2, SlotRunEnds DEF SlotTruth
<1> QED
  BY <1>3, <1>4

LEMMA SlotWorldKeeps ==
  ASSUME SlotInv, HandEnds \/ SlotBreaks \/ SlotRests \/ SlotEdited
  PROVE  SlotInv'
<1>0. host \in SlotRegister
  BY DEF SlotInv
<1>1. CASE HandEnds
  <2>1. at = <<"slots", "next">> /\ mem \in SlotRun /\ mem.by = "hand"
    BY <1>1 DEF HandEnds, Act, At, SlotInv, SlotRunning, Underway
  <2>2. mem' = [mem EXCEPT !.verdict = "done"] /\ host' = host /\ at' = <<"slots", "ended">>
    BY <1>1 DEF HandEnds, Act, Goto, SlotVerdict
  <2>3. mem'.by = "hand"
    BY <2>1, <2>2 DEF SlotRun
  <2> QED
    BY <1>0, <2>2, <2>3, SlotRunEnds DEF SlotTruth
<1>2. CASE SlotBreaks
  <2>1. mem \in SlotRun
    BY <1>2 DEF SlotBreaks, At, SlotInv, SlotRunning, Underway, Writing
  <2>2. mem' = [mem EXCEPT !.verdict = "broken"] /\ host' = host /\ at' = <<"slots", "ended">>
    BY <1>2 DEF SlotBreaks, Goto, SlotVerdict
  <2>3. mem'.verdict = "broken"
    BY <2>1, <2>2 DEF SlotRun
  <2> QED
    BY <1>0, <2>2, <2>3, SlotRunEnds DEF SlotTruth
<1>3. CASE SlotRests \/ SlotEdited
  <2>1. at' = <<"slots", "idle">>
    BY <1>3 DEF SlotRests, SlotEdited, Act, Goto, At
  <2>2. host' \in SlotRegister
    <3>1. CASE SlotRests
      BY <1>0, <3>1 DEF SlotRests
    <3>2. CASE \E s \in SlotStack, l \in Key \cup {None, Odd} : host' = [host EXCEPT !.lines[s] = l]
      <4>1. PICK s \in SlotStack, l \in SlotValue : host' = [host EXCEPT !.lines[s] = l]
        BY <3>2 DEF SlotValue
      <4>2. [host.lines EXCEPT ![s] = l] \in SlotLines
        BY <1>0 DEF SlotRegister, SlotLines
      <4> QED
        BY <1>0, <4>1, <4>2 DEF SlotRegister
    <3>3. CASE \E s \in SlotStack : host' = [host EXCEPT !.register[s] = Odd]
      <4>1. PICK s \in SlotStack : host' = [host EXCEPT !.register[s] = Odd]
        BY <3>3
      <4>2. [host.register EXCEPT ![s] = Odd] \in SlotLines
        BY <1>0 DEF SlotRegister, SlotLines, SlotValue
      <4> QED
        BY <1>0, <4>1, <4>2 DEF SlotRegister
    <3>4. CASE \E s \in SlotStack : host' = [host EXCEPT !.files = @ \cup {s}]
      <4>1. PICK s \in SlotStack : host' = [host EXCEPT !.files = @ \cup {s}]
        BY <3>4
      <4> DEFINE more == host.files \cup {s}
      <4>2. host' = [host EXCEPT !.files = more] /\ more \in SUBSET SlotStack
        BY <1>0, <4>1 DEF SlotRegister
      <4> HIDE DEF more
      <4> QED
        BY <1>0, <4>2 DEF SlotRegister
    <3>5. CASE \E k \in Key : host' = [host EXCEPT !.foreign = @ \cup {k}]
      <4>1. PICK k \in Key : host' = [host EXCEPT !.foreign = @ \cup {k}]
        BY <3>5
      <4>2. host.foreign \cup {k} \in SUBSET Key
        BY <1>0 DEF SlotRegister
      <4> QED
        BY <1>0, <4>1, <4>2 DEF SlotRegister
    <3>6. CASE host' \in {[host EXCEPT !.home = FALSE], [host EXCEPT !.dir = FALSE]}
      BY <1>0, <3>6 DEF SlotRegister
    <3> QED
      BY <1>3, <3>1, <3>2, <3>3, <3>4, <3>5, <3>6 DEF SlotEdited
  <2> QED
    BY <2>1, <2>2 DEF SlotInv, SlotTruth, At, Underway, Writing
<1> QED
  BY <1>1, <1>2, <1>3

LEMMA SlotsAreInductive ==
  /\ SlotInit => SlotInv
  /\ SlotInv /\ [SlotNext]_programVars => SlotInv'
<1>1. SlotInit => SlotInv
  <2> SUFFICES ASSUME SlotInit PROVE SlotInv
    OBVIOUS
  <2>1. at = <<"slots", "idle">>
    BY DEF SlotInit
  <2>2. host \in SlotRegister
    <3>1. [s \in SlotStack |-> None] \in SlotLines
      BY DEF SlotLines, SlotValue
    <3>2. /\ {{k} : k \in Key} \cup {{}} \subseteq SUBSET Key /\ {{}, SlotStack} \subseteq SUBSET SlotStack
          /\ {FALSE} \subseteq BOOLEAN /\ {{}} \subseteq SUBSET SlotStack
          /\ {[s \in SlotStack |-> None]} \subseteq SlotLines
      BY <3>1
    <3> DEFINE foreigns == {{k} : k \in Key} \cup {{}}
               starts == {[s \in SlotStack |-> None]}
    <3>3. host \in [register : starts, lines : starts, foreign : foreigns, stacks : {{}, SlotStack}, home : {FALSE},
                    dir : {FALSE}, files : {{}}, fit : {"fit", "no account", "untrusted"}]
      BY DEF SlotInit
    <3> HIDE DEF foreigns, starts
    <3>4. foreigns \subseteq SUBSET Key /\ starts \subseteq SlotLines
      BY <3>2 DEF foreigns, starts
    <3> QED
      BY <3>3, <3>4 DEF SlotRegister
  <2> QED
    BY <2>1, <2>2 DEF SlotInv, SlotTruth, At, Underway, Writing
<1>2. SlotInv /\ UNCHANGED programVars => SlotInv'
  BY DEF programVars, SlotInv, SlotTruth, SlotRunning, Granting, Operation, Revoking, KeyUnused, Declared, At
<1>3. SlotInv /\ SlotNext => SlotInv'
  BY HandBegins, RoleBegins, OperationKeeps, ReadBackIsTrue, SlotWorldKeeps DEF SlotNext
<1> QED
  BY <1>1, <1>2, <1>3

\* A run of the role that ends well leaves exactly the declared slots, each key on its own line.
THEOREM SlotsAreDeclared == SlotSpec => []SlotTruth
<1>1. SlotInv => SlotTruth
  BY DEF SlotInv
<1> QED
  BY <1>1, SlotsAreInductive, PTL DEF SlotSpec

\* While a program runs it drops no line that the register does not explain.
LEMMA UnexplainedStays ==
  ASSUME SlotInv, SlotNext, At("slots", "lines") \/ At("slots", "next"),
         NEW s \in SlotStack, host.lines[s] = Odd
  PROVE  host'.lines[s] = Odd
<1>0. host \in SlotRegister
  BY DEF SlotInv
<1>1. at[2] \in Underway /\ SlotRunning(at[2], mem, host)
  BY DEF SlotInv, Underway, Writing, At
<1>2. at[2] \notin Writing /\ mem.by # "role" /\ at = <<"slots", "next">>
  BY <1>1 DEF SlotRunning, Writing, At
<1>3. OperationBegins \/ HandEnds
  BY <1>2 DEF SlotNext, HandGrants, HandRevokes, HandLists, RoleConverges, RegisterWritten, LinesWritten,
              RoleReadsBack, SlotBreaks, SlotRests, SlotEdited, Act, At
<1> QED
  BY <1>0, <1>3 DEF OperationBegins, HandEnds, SlotRegister

\* The key a program writes is on the line of the slot it is granted, and on no other.
LEMMA GrantStandsAlone ==
  ASSUME SlotInv, SlotNext, At("slots", "lines"), ~Revoking, host'.lines # host.lines
  PROVE  LET s == Operation.stack
         IN  /\ host'.lines[s] \notin host'.foreign
             /\ \A t \in SlotStack \ {s} : host'.lines[t] # host'.lines[s]
<1>0. host \in SlotRegister /\ at = <<"slots", "lines">>
  BY DEF SlotInv, At
<1>1. Granting
  BY <1>0 DEF SlotInv, Underway, Writing
<1>2. LinesWritten \/ SlotBreaks
  BY <1>0 DEF SlotNext, HandGrants, HandRevokes, HandLists, RoleConverges, OperationBegins, RegisterWritten,
              HandEnds, RoleReadsBack, SlotRests, SlotEdited, Act, At
<1>3. host' = [host EXCEPT !.lines = host.register]
  BY <1>2 DEF LinesWritten, SlotBreaks
<1>4. host'.lines = host.register /\ host'.foreign = host.foreign
  BY <1>0, <1>3 DEF SlotRegister
<1> QED
  BY <1>1, <1>4 DEF Granting, KeyUnused

LEMMA SlotsKeepLines ==
  SlotInv /\ [SlotNext]_programVars => [UnexplainedKept /\ GrantedKeyIsAlone]_programVars
<1>1. SlotInv /\ SlotNext => UnexplainedKept
  BY UnexplainedStays DEF UnexplainedKept
<1>2. SlotInv /\ SlotNext => GrantedKeyIsAlone
  BY GrantStandsAlone DEF GrantedKeyIsAlone
<1> QED
  BY <1>1, <1>2

\* What no run of either program does to authorized_keys, for any register and any keys.
THEOREM LinesAreKept == SlotSpec => SlotLinesKept
BY SlotsAreInductive, SlotsKeepLines, PTL DEF SlotSpec, SlotLinesKept
=============================================================================
