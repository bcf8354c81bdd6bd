----------------------------- MODULE HostProofs -----------------------------
(***************************************************************************)
(* What the programs that bring a host up and watch it promise: for any    *)
(* locks and packages, any history of main, any blocklists, any links and  *)
(* any inputs.                                                             *)
(***************************************************************************)
EXTENDS HostPrograms, DemoProofs, KeyProofs, MailProofs, TextProofs, SequenceTheorems, FiniteSetTheorems, TLAPS

---------------------------------------------------------------------------
(* The environments. A marker is only ever on an environment that is       *)
(* whole, nothing is taken out of one that has it, and the link names one  *)
(* that has it.                                                            *)

RuntimeRun == [lock : Locks, byRole : BOOLEAN, as : {"given", "other", "unhashed"},
               verdict : {None, "refused", "done"}, failed : BOOLEAN]
Installing == {"read", "root", "venv", "pip", "engine", "link"}

Marked(h) ==
  /\ h \in RuntimeHost
  /\ \A l \in Locks : h.env[l].marker => h.env[l].packages = Packages
  /\ h.link \in Locks => h.env[h.link].marker

\* What a run knows of its environment at a step.
EnvironmentIs(step, e) ==
  /\ step = "pip" => e.venv = "pip"
  /\ step = "engine" => e.packages = Packages
  /\ step = "link" => e.marker

RuntimeInv ==
  /\ at \in {"runtime"} \X (Installing \cup {"idle", "ended"}) /\ Marked(host)
  /\ at[2] \in Installing => mem \in RuntimeRun /\ EnvironmentIs(at[2], host.env[mem.lock])
  /\ HalfMadeIsResumed

LEMMA RuntimeMoves ==
  ASSUME NEW to \in Installing, at' = <<"runtime", to>>, NEW m \in RuntimeRun, mem' = m, NEW h, host' = h,
         Marked(h), EnvironmentIs(to, h.env[m.lock])
  PROVE  RuntimeInv'
<1>1. to # "ended"
  BY DEF Installing
<1> QED
  BY <1>1 DEF RuntimeInv, HalfMadeIsResumed

LEMMA RuntimeRunEnds ==
  ASSUME NEW to \in {"idle", "ended"}, at' = <<"runtime", to>>, Marked(host'), HalfMadeIsResumed'
  PROVE  RuntimeInv'
  BY DEF RuntimeInv, Installing

LEMMA OneEnvironmentChanges ==
  ASSUME NEW h, Marked(h), NEW l \in Locks, NEW e \in Environment,
         e.marker => e.packages = Packages, h.env[l].marker => e.marker
  PROVE  LET k == [h EXCEPT !.env[l] = e]
         IN  Marked(k) /\ k.env[l] = e /\ k.link = h.link /\ k.rootTrusted = h.rootTrusted
<1> DEFINE k == [h EXCEPT !.env[l] = e]
<1>1. h \in RuntimeHost /\ h.env \in [Locks -> Environment]
  BY DEF Marked, RuntimeHost
<1>2. k.env = [h.env EXCEPT ![l] = e] /\ k.link = h.link /\ k.rootTrusted = h.rootTrusted
  BY <1>1 DEF RuntimeHost
<1>3. [h.env EXCEPT ![l] = e] \in [Locks -> Environment]
  BY <1>1
<1>4. k \in RuntimeHost
  BY <1>1, <1>2, <1>3 DEF RuntimeHost
<1> HIDE DEF k
<1>5. \A q \in Locks : k.env[q] = IF q = l THEN e ELSE h.env[q]
  BY <1>1, <1>2
<1>6. \A q \in Locks : k.env[q].marker => k.env[q].packages = Packages
  BY <1>5 DEF Marked
<1>7. k.link \in Locks => k.env[k.link].marker
  BY <1>2, <1>5 DEF Marked
<1> QED
  BY <1>2, <1>4, <1>5, <1>6, <1>7 DEF Marked, k

LEMMA ReadingKeeps == ASSUME RuntimeInv, StartInstall \/ ReadLock \/ CheckRoot PROVE RuntimeInv'
<1>0. Marked(host) /\ host \in RuntimeHost
  BY DEF RuntimeInv, Marked
<1>1. CASE StartInstall
  <2>1. PICK l \in Locks, byRole \in BOOLEAN, as \in {"given", "other", "unhashed"} :
          mem' = [lock |-> l, byRole |-> byRole, as |-> as, verdict |-> None, failed |-> FALSE]
    BY <1>1 DEF StartInstall
  <2>2. at' = <<"runtime", "read">> /\ host' = host /\ mem' \in RuntimeRun
    BY <1>1, <2>1 DEF StartInstall, Act, Goto, RuntimeRun
  <2> QED
    BY <1>0, <2>2, RuntimeMoves DEF Installing, EnvironmentIs
<1>2. CASE ReadLock
  <2>1. at = <<"runtime", "read">> /\ host' = host /\ mem \in RuntimeRun
    BY <1>2 DEF ReadLock, At, RuntimeInv, Installing
  <2>2. CASE mem.byRole /\ Env.marker
    BY <1>0, <1>2, <2>1, <2>2, RuntimeMoves DEF ReadLock, Act, Goto, Installing, EnvironmentIs, Env
  <2>3. CASE ~(mem.byRole /\ Env.marker) /\ mem.as = "given"
    BY <1>0, <1>2, <2>1, <2>3, RuntimeMoves DEF ReadLock, Act, Goto, Installing, EnvironmentIs
  <2>4. CASE ~(mem.byRole /\ Env.marker) /\ mem.as # "given"
    <3>1. at' = <<"runtime", "ended">> /\ mem' = [mem EXCEPT !.verdict = "refused"]
      BY <1>2, <2>4 DEF ReadLock, RuntimeEnds, Act, Goto
    <3>2. mem'.as = mem.as
      BY <2>1, <3>1 DEF RuntimeRun
    <3> QED
      BY <1>0, <2>1, <2>4, <3>1, <3>2, RuntimeRunEnds DEF HalfMadeIsResumed
  <2> QED
    BY <2>2, <2>3, <2>4
<1>3. CASE CheckRoot
  <2>1. at = <<"runtime", "root">> /\ mem \in RuntimeRun
    BY <1>3 DEF CheckRoot, At, RuntimeInv, Installing
  <2>2. CASE host.rootTrusted
    <3> DEFINE h == [host EXCEPT !.copy[mem.lock] = TRUE]
    <3>1. at' = <<"runtime", "venv">> /\ mem' = mem /\ host' = h
      BY <1>3, <2>2 DEF CheckRoot, Act, Goto
    <3>2. h.env = host.env /\ h.link = host.link
      BY <1>0 DEF RuntimeHost
    <3>3. h \in RuntimeHost
      <4>1. [host.copy EXCEPT ![mem.lock] = TRUE] \in [Locks -> BOOLEAN]
        BY <1>0 DEF RuntimeHost
      <4> QED
        BY <1>0, <4>1 DEF RuntimeHost
    <3> HIDE DEF h
    <3>4. Marked(h)
      BY <1>0, <3>2, <3>3 DEF Marked
    <3> QED
      BY <2>1, <3>1, <3>4, RuntimeMoves DEF Installing, EnvironmentIs
  <2>3. CASE ~host.rootTrusted
    <3>1. at' = <<"runtime", "ended">> /\ host' = host
      BY <1>3, <2>3 DEF CheckRoot, RuntimeEnds, Act, Goto
    <3> QED
      BY <1>0, <2>3, <3>1, RuntimeRunEnds DEF HalfMadeIsResumed
  <2> QED
    BY <2>2, <2>3
<1> QED
  BY <1>1, <1>2, <1>3

\* A venv is cleared only where there is no marker.
LEMMA VenvKeeps == ASSUME RuntimeInv, MakeVenv PROVE RuntimeInv'
<1>0. at = <<"runtime", "venv">> /\ mem \in RuntimeRun /\ Marked(host) /\ host.env \in [Locks -> Environment]
  BY DEF MakeVenv, VenvIsMade, At, RuntimeInv, Installing, Marked, RuntimeHost
<1> DEFINE l == mem.lock
<1>1. l \in Locks /\ Env = host.env[l] /\ Env \in Environment /\ Env.venv \in {"none", "python", "pip", "link"}
  BY <1>0 DEF RuntimeRun, Env, Environment
<1>2. CASE Env.marker
  BY <1>0, <1>1, <1>2, RuntimeMoves DEF MakeVenv, VenvIsMade, Act, Goto, Installing, EnvironmentIs
<1>3. CASE ~Env.marker /\ Env.venv = "link"
  <2>1. at' = <<"runtime", "ended">> /\ host' = host /\ mem' = [mem EXCEPT !.verdict = "refused"]
    BY <1>3 DEF MakeVenv, VenvIsMade, RuntimeEnds, Act, Goto
  <2>2. mem'.lock = mem.lock
    BY <1>0, <2>1 DEF RuntimeRun
  <2> QED
    BY <1>0, <1>3, <2>1, <2>2, RuntimeRunEnds DEF HalfMadeIsResumed, Env
<1>4. CASE ~Env.marker /\ Env.venv = "pip"
  BY <1>0, <1>1, <1>4, RuntimeMoves DEF MakeVenv, VenvIsMade, Act, Goto, Installing, EnvironmentIs
<1>5. CASE ~Env.marker /\ Env.venv \in {"none", "python"}
  <2> DEFINE E(v) == [NoEnvironment EXCEPT !.venv = v]
  <2>1. \A v \in {"none", "python", "pip"} : E(v) \in Environment /\ ~E(v).marker /\ E(v).venv = v
    BY DEF NoEnvironment, Environment
  <2> HIDE DEF E
  <2>2. \A v \in {"none", "python", "pip"} :
          LET k == [host EXCEPT !.env[l] = E(v)] IN Marked(k) /\ k.env[l] = E(v)
    BY <1>0, <1>1, <1>5, <2>1, OneEnvironmentChanges
  <2>3. CASE /\ Act("runtime", "venv", "pip") /\ UNCHANGED mem
             /\ host' = [host EXCEPT !.env[mem.lock] = [NoEnvironment EXCEPT !.venv = "pip"]]
    <3>1. host' = [host EXCEPT !.env[l] = E("pip")] /\ at' = <<"runtime", "pip">> /\ mem' = mem
      BY <2>3 DEF E, Act, Goto
    <3>2. Marked(host') /\ host'.env[l].venv = "pip"
      BY <2>1, <2>2, <3>1
    <3> QED
      BY <1>0, <3>1, <3>2, RuntimeMoves DEF Installing, EnvironmentIs
  <2>4. CASE /\ Fault /\ Goto("runtime", "ended")
             /\ mem' = [mem EXCEPT !.verdict = "refused", !.failed = TRUE]
             /\ \E left \in {"none", "python"} :
                  host' = [host EXCEPT !.env[mem.lock] = [NoEnvironment EXCEPT !.venv = left]]
    <3>1. PICK left \in {"none", "python"} : host' = [host EXCEPT !.env[l] = E(left)]
      BY <2>4 DEF E
    <3>2. Marked(host')
      BY <2>2, <3>1
    <3>3. mem'.failed /\ at' = <<"runtime", "ended">>
      BY <1>0, <2>4 DEF RuntimeRun, Goto
    <3> QED
      BY <3>2, <3>3, RuntimeRunEnds DEF HalfMadeIsResumed
  <2> QED
    BY <1>5, <2>3, <2>4 DEF MakeVenv, VenvIsMade
<1> QED
  BY <1>1, <1>2, <1>3, <1>4, <1>5

\* pip adds; an environment that is whole stays so.
LEMMA PipKeeps == ASSUME RuntimeInv, InstallLock \/ MarkInstalled PROVE RuntimeInv'
<1>0. /\ at \in {<<"runtime", "pip">>, <<"runtime", "engine">>} /\ mem \in RuntimeRun /\ Marked(host)
      /\ host.env \in [Locks -> Environment] /\ EnvironmentIs(at[2], host.env[mem.lock])
  BY DEF InstallLock, PipInstalls, MarkInstalled, At, RuntimeInv, Installing, Marked, RuntimeHost
<1> DEFINE l == mem.lock
<1>1. /\ l \in Locks /\ Env = host.env[l] /\ Env \in Environment
      /\ Env.marker => Env.packages = Packages
  BY <1>0 DEF RuntimeRun, Env, Marked
<1>2. ASSUME NEW p \in SUBSET Packages, Env.marker => p = Packages
      PROVE  LET k == [host EXCEPT !.env[l].packages = p]
             IN  Marked(k) /\ k.env[l].packages = p
  <2> DEFINE e == [host.env[l] EXCEPT !.packages = p]
  <2>1. e \in Environment /\ e.packages = p /\ e.marker = Env.marker
    BY <1>1, <1>2 DEF Environment
  <2>2. [host EXCEPT !.env[l].packages = p] = [host EXCEPT !.env[l] = e]
    OBVIOUS
  <2> HIDE DEF e
  <2> QED
    BY <1>0, <1>1, <1>2, <2>1, <2>2, OneEnvironmentChanges
<1>3. CASE InstallLock
  <2>0. at = <<"runtime", "pip">> /\ Env.venv = "pip"
    BY <1>0, <1>1, <1>3 DEF InstallLock, PipInstalls, At, EnvironmentIs
  <2>1. CASE Act("runtime", "pip", "engine") /\ UNCHANGED mem /\ host' = [host EXCEPT !.env[mem.lock].packages = Packages]
    <3>1. Marked(host') /\ host'.env[l].packages = Packages
      BY <1>2, <2>1
    <3> QED
      BY <1>0, <2>1, <3>1, RuntimeMoves DEF Act, Goto, Installing, EnvironmentIs
  <2>2. CASE /\ Goto("runtime", "ended") /\ mem' = [mem EXCEPT !.verdict = "refused", !.failed = TRUE]
             /\ \E part \in SUBSET Packages : host' = [host EXCEPT !.env[mem.lock].packages = @ \cup part]
    <3>1. PICK part \in SUBSET Packages : host' = [host EXCEPT !.env[l].packages = @ \cup part]
      BY <2>2
    <3> DEFINE p == host.env[l].packages \cup part
    <3>2. p \in SUBSET Packages /\ (Env.marker => p = Packages)
      BY <1>1 DEF Environment
    <3>3. host' = [host EXCEPT !.env[l].packages = p]
      BY <3>1
    <3> HIDE DEF p
    <3>4. Marked(host')
      BY <1>2, <3>2, <3>3
    <3>5. mem'.failed /\ at' = <<"runtime", "ended">>
      BY <1>0, <2>2 DEF RuntimeRun, Goto
    <3> QED
      BY <3>4, <3>5, RuntimeRunEnds DEF HalfMadeIsResumed
  <2> QED
    BY <1>3, <2>0, <2>1, <2>2 DEF InstallLock, PipInstalls
<1>4. CASE MarkInstalled
  <2>1. at = <<"runtime", "engine">> /\ Env.packages = Packages
    BY <1>0, <1>1, <1>4 DEF MarkInstalled, At, EnvironmentIs
  <2>2. /\ at' = <<"runtime", "link">> /\ mem' = mem
        /\ host' = [host EXCEPT !.env[l].marker = TRUE]
    BY <1>4, <2>1, RuntimeAssumption DEF MarkInstalled, Act, Goto
  <2> DEFINE e == [host.env[l] EXCEPT !.marker = TRUE]
  <2>3. e \in Environment /\ e.packages = Packages /\ e.marker
    BY <1>1, <2>1 DEF Environment
  <2>4. host' = [host EXCEPT !.env[l] = e]
    BY <2>2
  <2> HIDE DEF e
  <2>5. (e.marker => e.packages = Packages) /\ (host.env[l].marker => e.marker)
    BY <2>3
  <2>6. Marked(host') /\ host'.env[l] = e
    BY <1>0, <1>1, <2>3, <2>4, <2>5, OneEnvironmentChanges
  <2> QED
    BY <1>0, <2>2, <2>3, <2>6, RuntimeMoves DEF Installing, EnvironmentIs
<1> QED
  BY <1>3, <1>4

LEMMA LinkKeeps == ASSUME RuntimeInv, PointLink PROVE RuntimeInv'
<1>0. /\ at = <<"runtime", "link">> /\ mem \in RuntimeRun /\ Marked(host) /\ host \in RuntimeHost
      /\ host.env[mem.lock].marker /\ mem.lock \in Locks /\ at' = <<"runtime", "ended">>
  BY DEF PointLink, RuntimeEnds, Act, Goto, At, RuntimeInv, Installing, Marked, RuntimeRun, EnvironmentIs
<1> DEFINE l == IF host.link = "directory" THEN host.link ELSE mem.lock
           h == [host EXCEPT !.link = l]
<1>1. /\ host' = h
      /\ mem' = [mem EXCEPT !.verdict = IF host.link = "directory" THEN "refused" ELSE "done"]
  BY DEF PointLink, RuntimeEnds
<1>2. h \in RuntimeHost /\ h.env = host.env /\ h.link = l
  BY <1>0 DEF RuntimeHost
<1> HIDE DEF h
<1>3. Marked(h)
  BY <1>0, <1>2 DEF Marked
<1>4. mem'.verdict = "refused" => h.link = "directory"
  BY <1>0, <1>1, <1>2 DEF RuntimeRun
<1> QED
  BY <1>0, <1>1, <1>3, <1>4, RuntimeRunEnds DEF HalfMadeIsResumed

LEMMA RuntimeDeathKeeps == ASSUME RuntimeInv, RuntimeForget \/ RuntimeDies PROVE RuntimeInv'
<1>0. Marked(host) /\ at' = <<"runtime", "idle">> /\ host.env \in [Locks -> Environment]
  BY DEF RuntimeForget, RuntimeDies, Act, Goto, RuntimeInv, Marked, RuntimeHost
<1>1. CASE host' = host
  BY <1>0, <1>1, RuntimeRunEnds DEF HalfMadeIsResumed
<1>2. ASSUME RuntimeDies, host' # host PROVE Marked(host')
  <2>1. mem \in RuntimeRun
    BY <1>2 DEF RuntimeDies, RuntimeInv, Installing
  <2> DEFINE l == mem.lock
  <2>2. l \in Locks /\ Env = host.env[l] /\ Env \in Environment /\ (Env.marker => Env.packages = Packages)
    BY <1>0, <2>1 DEF RuntimeRun, Env, Marked
  <2>3. CASE ~Env.marker /\ host' = [host EXCEPT !.env[mem.lock].venv = "python"]
    <3> DEFINE e == [host.env[l] EXCEPT !.venv = "python"]
    <3>1. e \in Environment /\ ~e.marker
      BY <2>2, <2>3 DEF Environment
    <3>2. host' = [host EXCEPT !.env[l] = e]
      BY <2>3
    <3> HIDE DEF e
    <3> QED
      BY <1>0, <2>2, <2>3, <3>1, <3>2, OneEnvironmentChanges
  <2>4. CASE \E p \in SUBSET Packages : host' = [host EXCEPT !.env[mem.lock].packages = @ \cup p]
    <3>1. PICK p \in SUBSET Packages : host' = [host EXCEPT !.env[l].packages = @ \cup p]
      BY <2>4
    <3> DEFINE e == [host.env[l] EXCEPT !.packages = @ \cup p]
    <3>2. e \in Environment /\ (e.marker => e.packages = Packages) /\ e.marker = Env.marker
      BY <2>2 DEF Environment
    <3>3. host' = [host EXCEPT !.env[l] = e]
      BY <3>1
    <3> HIDE DEF e
    <3> QED
      BY <1>0, <2>2, <3>2, <3>3, OneEnvironmentChanges
  <2> QED
    BY <1>2, <2>3, <2>4 DEF RuntimeDies
<1>3. CASE RuntimeForget
  BY <1>1, <1>3 DEF RuntimeForget
<1>4. CASE RuntimeDies
  BY <1>0, <1>1, <1>2, <1>4, RuntimeRunEnds DEF HalfMadeIsResumed
<1> QED
  BY <1>3, <1>4

LEMMA RuntimeIsInductive ==
  /\ RuntimeInit => RuntimeInv
  /\ RuntimeInv /\ [RuntimeNext]_programVars => RuntimeInv'
<1>1. RuntimeInit => RuntimeInv
  <2> SUFFICES ASSUME RuntimeInit PROVE RuntimeInv
    OBVIOUS
  <2>1. PICK trusted \in BOOLEAN, linkWas \in {None, "directory"}, v \in {"none", "link"} :
          host = [env |-> [l \in Locks |-> [NoEnvironment EXCEPT !.venv = v]],
                  copy |-> [l \in Locks |-> FALSE], rootTrusted |-> trusted, link |-> linkWas]
    BY DEF RuntimeInit
  <2> DEFINE e == [NoEnvironment EXCEPT !.venv = v]
  <2>2. e \in Environment /\ ~e.marker
    BY DEF NoEnvironment, Environment
  <2>3. host = [env |-> [l \in Locks |-> e],
                copy |-> [l \in Locks |-> FALSE], rootTrusted |-> trusted, link |-> linkWas]
    BY <2>1
  <2> HIDE DEF e
  <2>4. Marked(host)
    BY <2>2, <2>3, RuntimeAssumption DEF Marked, RuntimeHost
  <2> QED
    BY <2>4 DEF RuntimeInit, RuntimeInv, Installing, HalfMadeIsResumed
<1>2. RuntimeInv /\ UNCHANGED programVars => RuntimeInv'
  BY DEF programVars, RuntimeInv, HalfMadeIsResumed, Env
<1>3. RuntimeInv /\ RuntimeNext => RuntimeInv'
  BY ReadingKeeps, VenvKeeps, PipKeeps, LinkKeeps, RuntimeDeathKeeps DEF RuntimeNext
<1> QED
  BY <1>1, <1>2, <1>3

\* The environment in service is the whole of the lock it is named for, however many runs failed
\* or died, and what they left stops no later one.
THEOREM RuntimeIsWhole == RuntimeSpec => []RuntimeHolds
<1>1. RuntimeInv => RuntimeHolds
  BY DEF RuntimeInv, Marked, RuntimeHolds, LinkIsWhole
<1> QED
  BY <1>1, RuntimeIsInductive, PTL DEF RuntimeSpec

---------------------------------------------------------------------------
(* The bootstrap's record. main only grows, so what a commit holds and     *)
(* which one last changed a file before it stay; and as long as no hand    *)
(* has touched the record it is main's at the commit it was built from.    *)

\* A file's commits in a history, as the model reads them in host.main.
Moved(main, f, n) == n = 1 \/ main[n][f] # main[n - 1][f]
Last(main, f, n) == CHOOSE m \in 1..n : Moved(main, f, m) /\ \A k \in m + 1..n : ~Moved(main, f, k)

LEMMA HistoryIs ==
  ASSUME NEW f, NEW n
  PROVE  /\ Changed(f, n) = Moved(host.main, f, n) /\ LastChange(f, n) = Last(host.main, f, n)
         /\ Changed(f, n)' = Moved(host'.main, f, n) /\ LastChange(f, n)' = Last(host'.main, f, n)
  BY DEF Changed, LastChange, Moved, Last

\* A file has a last change: its first commit is one.
LEMMA LastIsOne ==
  ASSUME NEW main, NEW f, NEW n \in Nat, n >= 1
  PROVE  /\ Last(main, f, n) \in 1..n /\ Moved(main, f, Last(main, f, n))
         /\ \A k \in Last(main, f, n) + 1..n : ~Moved(main, f, k)
<1> DEFINE S == {j \in 0..n - 1 : Moved(main, f, n - j)}
<1>1. n - 1 \in S
  BY DEF Moved
<1>2. S \in SUBSET Nat
  OBVIOUS
<1>3. PICK j \in S : \A i \in S : j <= i
  BY <1>1, <1>2, LeastOf
<1> DEFINE m == n - j
<1>4. m \in 1..n /\ Moved(main, f, m)
  BY <1>3
<1>5. ASSUME NEW k \in m + 1..n, Moved(main, f, k) PROVE FALSE
  <2>1. n - k \in 0..n - 1 /\ n - (n - k) = k /\ j \in 0..n - 1
    BY <1>4, <1>5
  <2>2. n - k \in S
    BY <1>5, <2>1
  <2>3. j <= n - k
    BY <1>3, <2>2
  <2> QED
    BY <1>5, <2>1, <2>3
<1> HIDE DEF m, S
<1>6. \E x \in 1..n : Moved(main, f, x) /\ \A k \in x + 1..n : ~Moved(main, f, k)
  BY <1>4, <1>5
<1> QED
  BY <1>6 DEF Last

LEMMA OnlyOneLast ==
  ASSUME NEW main, NEW f, NEW n \in Nat, n >= 1, NEW m \in 1..n, Moved(main, f, m), \A k \in m + 1..n : ~Moved(main, f, k)
  PROVE  m = Last(main, f, n)
<1> DEFINE l == Last(main, f, n)
<1>1. l \in 1..n /\ Moved(main, f, l) /\ \A k \in l + 1..n : ~Moved(main, f, k)
  BY LastIsOne
<1> HIDE DEF l
<1>2. ~(l < m) /\ ~(m < l)
  BY <1>1
<1>3. m = l
  BY <1>1, <1>2
<1> QED
  BY <1>3 DEF l

\* What no commit has changed since is what it was.
LEMMA UnchangedSince ==
  ASSUME NEW main, NEW f, NEW m \in Nat, NEW n \in Nat, m <= n, \A k \in m + 1..n : ~Moved(main, f, k)
  PROVE  main[n][f] = main[m][f]
<1> SUFFICES ASSUME main[n][f] # main[m][f] PROVE FALSE
  OBVIOUS
<1> DEFINE S == {k \in m..n : main[k][f] # main[m][f]}
<1>1. n \in S /\ S \in SUBSET Nat
  OBVIOUS
<1>2. PICK k \in S : \A i \in S : k <= i
  BY <1>1, LeastOf
<1>3. k \in m..n /\ k # m /\ main[k][f] # main[m][f]
  BY <1>2
<1>4. k \in m + 1..n /\ k - 1 \in m..n /\ k - 1 < k
  BY <1>3
<1>5. k - 1 \notin S
  BY <1>2, <1>4
<1>6. main[k - 1][f] = main[m][f]
  BY <1>4, <1>5
<1>7. main[k][f] = main[k - 1][f]
  BY <1>4 DEF Moved
<1> QED
  BY <1>3, <1>6, <1>7

\* A commit that is added changes nothing of what was there.
LEMMA HistoryStays ==
  ASSUME NEW main, NEW more, NEW f, NEW n \in Nat, n >= 1, \A k \in 1..n : more[k] = main[k]
  PROVE  Last(more, f, n) = Last(main, f, n) /\ \A k \in 1..n : Moved(more, f, k) = Moved(main, f, k)
<1>1. \A k \in 1..n : Moved(more, f, k) = Moved(main, f, k)
  <2>1. ASSUME NEW k \in 1..n PROVE Moved(more, f, k) = Moved(main, f, k)
    <3>1. CASE k = 1
      BY <3>1 DEF Moved
    <3>2. CASE k # 1
      <4>1. k - 1 \in 1..n
        BY <3>2
      <4> QED
        BY <3>2, <4>1 DEF Moved
    <3> QED
      BY <3>1, <3>2
  <2> QED
    BY <2>1
<1> DEFINE m == Last(main, f, n)
<1>2. m \in 1..n /\ Moved(main, f, m) /\ \A k \in m + 1..n : ~Moved(main, f, k)
  BY LastIsOne
<1> HIDE DEF m
<1>3. Moved(more, f, m) /\ \A k \in m + 1..n : ~Moved(more, f, k)
  BY <1>1, <1>2
<1>4. m = Last(more, f, n)
  BY <1>2, <1>3, OnlyOneLast
<1> QED
  BY <1>1, <1>4 DEF m

BootEntry == [pin : Nat \cup {None}, sha256 : Content \cup {None, Odd}]
BootState == [main : Seq(Tree), record : [Fetched -> BootEntry], config : Content \cup {None, Odd}, built : Nat]
BootRun == [clone : Clone, verify : BOOLEAN, tip : Nat, verdict : {None, "refused", "current"}]
Booting == {"history", "fetch", "head", "read", "ended"}

\* The record and the configuration of h are what main has at its commit n.
Describes(h, n) ==
  /\ h.config = h.main[n]["inputs"] /\ h.config # Odd
  /\ \A f \in Fetched : h.record[f] = [pin |-> Last(h.main, f, n), sha256 |-> h.main[n][f]]

BootKnows(step, m, h) ==
  /\ m \in BootRun /\ m.tip <= Len(h.main)
  /\ m.verify => h.built # 0
  /\ step \in {"fetch", "head", "read"} => ~m.clone.shallow
  /\ step \in {"head", "read"} => m.tip >= 1 /\ h.built <= m.tip
  /\ step = "read" => m.clone.head = m.tip
  /\ step = "ended" /\ m.verdict = "current" => m.tip >= 1

HistoryTyped == host \in BootState /\ Len(host.main) >= 1 /\ host.built <= Len(host.main) /\ faults \in Nat

BootInv ==
  /\ at \in {"boot"} \X ({"idle"} \cup Booting) /\ HistoryTyped
  /\ at[2] \in Booting => BootKnows(at[2], mem, host)
  /\ faults = 0 /\ host.built # 0 => Describes(host, host.built)
  /\ VerdictIsMains /\ RecordLasts

LEMMA DescribesIs ==
  VerdictIsMains <=> (at[1] = "boot" /\ at[2] = "ended" /\ mem.verdict = "current" => Describes(host, mem.tip))
  BY HistoryIs DEF VerdictIsMains, Describes

\* A run goes on and leaves the host as it is.
LEMMA BootGoesOn ==
  ASSUME BootInv, NEW to \in {"idle"} \cup Booting, at' = <<"boot", to>>, to # "ended", UNCHANGED <<host, faults>>,
         to # "idle" => BootKnows(to, mem', host')
  PROVE  BootInv'
<1>1. HistoryTyped' /\ (faults' = 0 /\ host'.built # 0 => Describes(host', host'.built))
  BY DEF BootInv, HistoryTyped
<1> QED
  BY <1>1 DEF BootInv, VerdictIsMains, RecordLasts, Booting

\* A run ends with a verdict that its properties allow.
LEMMA BootRunEnds ==
  ASSUME BootInv, at' = <<"boot", "ended">>, UNCHANGED <<host, faults>>, BootKnows("ended", mem', host'),
         VerdictIsMains', RecordLasts'
  PROVE  BootInv'
<1>1. HistoryTyped' /\ (faults' = 0 /\ host'.built # 0 => Describes(host', host'.built))
  BY DEF BootInv, HistoryTyped
<1> QED
  BY <1>1 DEF BootInv, Booting

\* main grows by one commit: all that was said of its earlier ones still holds.
LEMMA CommitKeeps == ASSUME BootInv, CommitToMain PROVE BootInv'
<1>0. HistoryTyped /\ host.main \in Seq(Tree) /\ Tip = Len(host.main) /\ Tip \in Nat /\ Tip >= 1
  BY DEF BootInv, HistoryTyped, BootState, Tip
<1>1. PICK f \in DOMAIN host.main[Tip], c \in Content \cup {Odd} :
        host' = [host EXCEPT !.main = Append(@, [host.main[Tip] EXCEPT ![f] = c])]
  BY DEF CommitToMain
<1> DEFINE t == [host.main[Tip] EXCEPT ![f] = c]
           more == Append(host.main, t)
<1>2. t \in Tree
  <2>1. host.main[Tip] \in Tree
    BY <1>0
  <2> QED
    BY <2>1 DEF Tree
<1>3. more \in Seq(Tree) /\ Len(more) = Tip + 1 /\ \A k \in 1..Tip : more[k] = host.main[k]
  BY <1>0, <1>2
<1> HIDE DEF t
<1>4. host' = [host EXCEPT !.main = more]
  BY <1>1 DEF t
<1> HIDE DEF more
<1>5. /\ host' \in BootState /\ host'.main = more /\ host'.record = host.record /\ host'.config = host.config
      /\ host'.built = host.built
  BY <1>0, <1>3, <1>4 DEF HistoryTyped, BootState
<1>7. at' = at /\ mem' = mem /\ faults' = faults
  BY DEF CommitToMain
<1>6. HistoryTyped'
  <2>1. host.built \in Nat /\ host.built <= Tip /\ faults \in Nat
    BY <1>0 DEF HistoryTyped, BootState
  <2>2. Len(host'.main) = Tip + 1
    BY <1>3, <1>5
  <2>3. Len(host'.main) >= 1 /\ host'.built <= Len(host'.main)
    BY <1>0, <1>5, <2>1, <2>2
  <2> QED
    BY <1>5, <1>7, <2>1, <2>3 DEF HistoryTyped
<1>8. ASSUME NEW n \in 1..Tip, Describes(host, n) PROVE Describes(host', n)
  <2>1. more[n] = host.main[n]
    BY <1>3
  <2>2. ASSUME NEW g \in Fetched PROVE Last(more, g, n) = Last(host.main, g, n)
    <3>1. n \in Nat /\ n >= 1 /\ \A k \in 1..n : more[k] = host.main[k]
      BY <1>0, <1>3
    <3> QED
      BY <3>1, HistoryStays
  <2> QED
    BY <1>5, <1>8, <2>1, <2>2 DEF Describes
<1>9. at[2] \in Booting => BootKnows(at[2], mem, host')
  <2> SUFFICES ASSUME at[2] \in Booting PROVE BootKnows(at[2], mem, host')
    OBVIOUS
  <2>1. BootKnows(at[2], mem, host)
    BY DEF BootInv
  <2>2. mem.tip \in Nat
    BY <2>1 DEF BootKnows, BootRun
  <2> QED
    BY <1>0, <1>3, <1>5, <1>7, <2>1, <2>2 DEF BootKnows
<1>10. faults' = 0 /\ host'.built # 0 => Describes(host', host'.built)
  <2> SUFFICES ASSUME faults = 0, host.built # 0 PROVE Describes(host', host.built)
    BY <1>5, <1>7
  <2>1. host.built \in 1..Tip
    BY <1>0 DEF HistoryTyped, BootState
  <2> QED
    BY <1>8, <2>1 DEF BootInv
<1>11. VerdictIsMains'
  <2> SUFFICES ASSUME at = <<"boot", "ended">>, mem.verdict = "current" PROVE Describes(host', mem.tip)
    <3>1. at \in {"boot"} \X ({"idle"} \cup Booting)
      BY DEF BootInv
    <3> QED
      BY <1>7, <3>1, HistoryIs DEF VerdictIsMains, Describes
  <2>1. mem.tip \in 1..Tip
    BY <1>0 DEF BootInv, BootKnows, BootRun, Booting
  <2>2. Describes(host, mem.tip)
    BY DescribesIs DEF BootInv
  <2> QED
    BY <1>8, <2>1, <2>2
<1>12. RecordLasts'
  <2> SUFFICES ASSUME at[1] = "boot", at[2] = "ended", mem.verify, mem.verdict = "refused", faults = 0,
                      ~mem.clone.shallow, ~mem.clone.edited, mem.clone.head = mem.tip
               PROVE  \E g \in Fetched \cup {"inputs"} : \E n \in host.built + 1..mem.tip : Changed(g, n)'
    BY <1>5, <1>7, HistoryIs DEF RecordLasts
  <2>1. PICK g \in Fetched \cup {"inputs"} : \E n \in host.built + 1..mem.tip : Changed(g, n)
    BY DEF BootInv, RecordLasts
  <2>2. PICK n \in host.built + 1..mem.tip : Changed(g, n)
    BY <2>1
  <2>3. BootKnows("ended", mem, host)
    BY DEF BootInv, Booting
  <2>4. n \in 1..Tip /\ host.built \in Nat /\ mem.tip \in Nat
    BY <1>0, <2>2, <2>3 DEF BootKnows, BootRun, HistoryTyped, BootState
  <2>5. Moved(more, g, n) = Moved(host.main, g, n)
    <3>1. \A k \in 1..n : more[k] = host.main[k]
      BY <1>0, <1>3, <2>4
    <3>2. n \in Nat /\ n >= 1 /\ n \in 1..n
      BY <1>0, <2>4
    <3> HIDE DEF more
    <3>3. \A k \in 1..n : Moved(more, g, k) = Moved(host.main, g, k)
      BY <3>1, <3>2, HistoryStays
    <3> QED
      BY <3>2, <3>3
  <2>6. Moved(host.main, g, n)
    BY <2>2, HistoryIs
  <2>7. Changed(g, n)'
    BY <1>5, <2>5, <2>6, HistoryIs
  <2> QED
    BY <2>2, <2>7
<1> QED
  BY <1>6, <1>7, <1>9, <1>10, <1>11, <1>12 DEF BootInv

LEMMA AskingKeeps ==
  ASSUME BootInv, StartBoot \/ RefuseShallow \/ FetchMain \/ CheckedOutTip \/ BootForget
  PROVE  BootInv'
<1>0. HistoryTyped /\ Tip = Len(host.main) /\ Tip \in Nat /\ host.built \in Nat /\ host.built <= Tip
  BY DEF BootInv, HistoryTyped, BootState, Tip
<1>1. CASE StartBoot
  <2>1. PICK clone \in Clone, verify \in BOOLEAN :
          (verify => host.built # 0) /\ mem' = [clone |-> clone, verify |-> verify, tip |-> 0, verdict |-> None]
    BY <1>1 DEF StartBoot
  <2>2. at' = <<"boot", "history">> /\ host' = host /\ faults' = faults /\ mem' \in BootRun
    BY <1>1, <2>1 DEF StartBoot, Act, Goto, BootRun
  <2>3. BootKnows("history", mem', host')
    BY <1>0, <2>1, <2>2 DEF BootKnows
  <2> QED
    BY <2>2, <2>3, BootGoesOn DEF Booting
<1>2. ASSUME NEW from \in {"history", "head"}, BootEnds(from, "refused"), UNCHANGED host,
             mem.clone.shallow \/ mem.clone.head # mem.tip
      PROVE  BootInv'
  <2>1. at = <<"boot", from>> /\ at' = <<"boot", "ended">> /\ faults' = faults /\ host' = host
        /\ mem' = [mem EXCEPT !.verdict = "refused"]
    BY <1>2 DEF BootEnds, Act, At, Goto
  <2>2. BootKnows(from, mem, host)
    BY <2>1 DEF BootInv, Booting
  <2>3. /\ mem' \in BootRun /\ mem'.verdict = "refused" /\ mem'.clone = mem.clone /\ mem'.tip = mem.tip
        /\ mem'.verify = mem.verify
    BY <2>1, <2>2 DEF BootKnows, BootRun
  <2>4. BootKnows("ended", mem', host')
    BY <2>1, <2>2, <2>3 DEF BootKnows
  <2>5. VerdictIsMains' /\ RecordLasts'
    BY <1>2, <2>3 DEF VerdictIsMains, RecordLasts
  <2> QED
    BY <2>1, <2>4, <2>5, BootRunEnds
<1>3. CASE RefuseShallow
  <2>1. CASE mem.clone.shallow
    BY <1>2, <1>3, <2>1 DEF RefuseShallow
  <2>2. CASE ~mem.clone.shallow
    <3>1. /\ at = <<"boot", "history">> /\ at' = <<"boot", "fetch">> /\ faults' = faults /\ host' = host /\ mem' = mem
      BY <1>3, <2>2 DEF RefuseShallow, Act, At, Goto
    <3>2. BootKnows("fetch", mem', host')
      BY <2>2, <3>1 DEF BootInv, Booting, BootKnows
    <3> QED
      BY <3>1, <3>2, BootGoesOn DEF Booting
  <2> QED
    BY <2>1, <2>2
<1>4. CASE FetchMain
  <2>1. /\ at = <<"boot", "fetch">> /\ at' = <<"boot", "head">> /\ faults' = faults /\ host' = host
        /\ mem' = [mem EXCEPT !.tip = Tip]
    BY <1>4 DEF FetchMain, Act, At, Goto
  <2>2. BootKnows("fetch", mem, host)
    BY <2>1 DEF BootInv, Booting
  <2>3. mem' \in BootRun /\ mem'.tip = Tip /\ mem'.clone = mem.clone /\ mem'.verify = mem.verify
    BY <1>0, <2>1, <2>2 DEF BootKnows, BootRun
  <2>4. BootKnows("head", mem', host')
    BY <1>0, <2>1, <2>2, <2>3 DEF BootKnows, HistoryTyped
  <2> QED
    BY <2>1, <2>4, BootGoesOn DEF Booting
<1>5. CASE CheckedOutTip
  <2>1. CASE mem.clone.head # mem.tip
    BY <1>2, <1>5, <2>1 DEF CheckedOutTip
  <2>2. CASE mem.clone.head = mem.tip
    <3>1. /\ at = <<"boot", "head">> /\ at' = <<"boot", "read">> /\ faults' = faults /\ host' = host /\ mem' = mem
      BY <1>5, <2>2 DEF CheckedOutTip, Act, At, Goto
    <3>2. BootKnows("read", mem', host')
      BY <2>2, <3>1 DEF BootInv, Booting, BootKnows
    <3> QED
      BY <3>1, <3>2, BootGoesOn DEF Booting
  <2> QED
    BY <2>1, <2>2
<1>6. CASE BootForget
  BY <1>6, BootGoesOn DEF BootForget, Act, Goto, Booting
<1> QED
  BY <1>1, <1>3, <1>4, <1>5, <1>6

\* What the checked-out tip has of a file: its last change, and what that change left.
LEMMA TipIsRead ==
  ASSUME BootInv, At("boot", "read")
  PROVE  /\ BootKnows("read", mem, host) /\ mem.tip \in 1..Len(host.main) /\ HeadCommit = mem.tip
         /\ \A f : /\ LastCommit(f) = Last(host.main, f, mem.tip) /\ LastCommit(f) \in 1..mem.tip
                   /\ host.main[LastCommit(f)][f] = host.main[mem.tip][f]
<1>1. BootKnows("read", mem, host) /\ HistoryTyped /\ mem.clone.head = mem.tip /\ ~mem.clone.shallow
  BY DEF BootInv, At, Booting, BootKnows
<1>2. mem.tip \in Nat /\ mem.tip >= 1 /\ mem.tip <= Len(host.main) /\ Len(host.main) \in Nat
  BY <1>1 DEF BootKnows, BootRun, HistoryTyped, BootState
<1>3. ASSUME NEW f
      PROVE  /\ LastCommit(f) = Last(host.main, f, mem.tip) /\ LastCommit(f) \in 1..mem.tip
             /\ host.main[LastCommit(f)][f] = host.main[mem.tip][f]
  <2> DEFINE m == Last(host.main, f, mem.tip)
  <2>1. LastCommit(f) = m
    BY <1>1, HistoryIs DEF LastCommit, HeadCommit
  <2>2. m \in 1..mem.tip /\ \A k \in m + 1..mem.tip : ~Moved(host.main, f, k)
    BY <1>2, LastIsOne
  <2> HIDE DEF m
  <2>3. host.main[mem.tip][f] = host.main[m][f]
    BY <1>2, <2>2, UnchangedSince
  <2> QED
    BY <2>1, <2>2, <2>3 DEF m
<1> QED
  BY <1>1, <1>2, <1>3 DEF HeadCommit

LEMMA BuildKeeps == ASSUME BootInv, BuildRecord PROVE BootInv'
<1>0. at = <<"boot", "read">> /\ ~mem.verify /\ At("boot", "read")
  BY DEF BuildRecord, At
<1>1. /\ BootKnows("read", mem, host) /\ mem.tip \in 1..Len(host.main) /\ HeadCommit = mem.tip
      /\ HistoryTyped /\ mem \in BootRun /\ mem.tip \in Nat /\ Len(host.main) \in Nat
  BY <1>0, TipIsRead DEF BootInv, BootKnows, BootRun, HistoryTyped, BootState
<1>2. CASE ConfigOf = None
  <2>1. at' = <<"boot", "ended">> /\ host' = host /\ faults' = faults /\ mem' = [mem EXCEPT !.verdict = "refused"]
    BY <1>2 DEF BuildRecord, BootEnds, Act, Goto
  <2>2. mem' \in BootRun /\ mem'.verdict = "refused" /\ mem'.tip = mem.tip /\ mem'.verify = mem.verify
    BY <1>1, <2>1 DEF BootRun
  <2>3. BootKnows("ended", mem', host')
    BY <1>1, <2>1, <2>2 DEF BootKnows
  <2> QED
    BY <1>0, <2>1, <2>2, <2>3, BootRunEnds DEF VerdictIsMains, RecordLasts
<1>3. CASE ConfigOf # None
  <2> DEFINE record == [f \in Fetched |-> [pin |-> LastCommit(f), sha256 |-> host.main[LastCommit(f)][f]]]
             h == [host EXCEPT !.record = record, !.config = ConfigOf, !.built = mem.tip]
  <2>1. /\ at' = <<"boot", "ended">> /\ host' = h /\ faults' = faults /\ mem' = [mem EXCEPT !.verdict = "current"]
    BY <1>3 DEF BuildRecord, BootEnds, Act, Goto
  <2>2. mem' \in BootRun /\ mem'.verdict = "current" /\ mem'.tip = mem.tip /\ mem'.verify = mem.verify
    BY <1>1, <2>1 DEF BootRun
  <2>3. ConfigOf = host.main[mem.tip]["inputs"] /\ ConfigOf # Odd /\ ConfigOf \in Content \cup {None, Odd}
    <3>1. host.main[mem.tip] \in Tree
      BY <1>1 DEF HistoryTyped, BootState
    <3> QED
      BY <1>1, <1>3, <3>1 DEF ConfigOf, Tree
  <2>4. \A f \in Fetched : record[f] = [pin |-> Last(host.main, f, mem.tip), sha256 |-> host.main[mem.tip][f]]
    BY <1>0, TipIsRead
  <2>5. record \in [Fetched -> BootEntry]
    <3>1. ASSUME NEW f \in Fetched
          PROVE  Last(host.main, f, mem.tip) \in Nat /\ host.main[mem.tip][f] \in Content \cup {Odd}
      <4>1. host.main[mem.tip] \in Tree
        BY <1>1 DEF HistoryTyped, BootState
      <4> QED
        BY <1>0, <4>1, TipIsRead DEF Tree
    <3>2. ASSUME NEW f \in Fetched PROVE record[f] \in BootEntry
      BY <2>4, <3>1 DEF BootEntry
    <3> QED
      BY <3>2
  <2>6. record = [f \in Fetched |-> record[f]]
    OBVIOUS
  <2> HIDE DEF record
  <2>7. /\ h \in BootState /\ h.main = host.main /\ h.record = record /\ h.config = ConfigOf /\ h.built = mem.tip
    BY <1>1, <2>3, <2>5 DEF HistoryTyped, BootState
  <2> HIDE DEF h
  <2>8. Describes(h, mem.tip)
    BY <2>3, <2>4, <2>7 DEF Describes
  <2>9. HistoryTyped'
    BY <1>1, <2>1, <2>7 DEF HistoryTyped
  <2>10. BootKnows("ended", mem', host')
    BY <1>1, <2>1, <2>2, <2>7 DEF BootKnows
  <2>11. VerdictIsMains'
    BY <2>1, <2>2, <2>8, HistoryIs DEF VerdictIsMains, Describes
  <2> QED
    BY <2>1, <2>2, <2>7, <2>8, <2>9, <2>10, <2>11 DEF BootInv, Booting, RecordLasts
<1> QED
  BY <1>2, <1>3

\* A record is refused only for what has changed, or where a hand has been on it.
LEMMA VerifyKeeps == ASSUME BootInv, VerifyRecord PROVE BootInv'
<1>0. at = <<"boot", "read">> /\ mem.verify /\ At("boot", "read") /\ host' = host
  BY DEF VerifyRecord, At
<1>1. /\ BootKnows("read", mem, host) /\ mem.tip \in 1..Len(host.main) /\ HeadCommit = mem.tip
      /\ HistoryTyped /\ mem \in BootRun /\ mem.tip \in Nat /\ Len(host.main) \in Nat /\ host.built \in Nat
      /\ host.built <= mem.tip /\ host.built # 0
  BY <1>0, TipIsRead DEF BootInv, BootKnows, BootRun, HistoryTyped, BootState
<1> DEFINE good == (\A f \in Fetched : EntryIsCurrent(f)) /\ ConfigOf # None /\ host.config = ConfigOf
<1>2. /\ at' = <<"boot", "ended">> /\ faults' = faults
      /\ mem' = [mem EXCEPT !.verdict = IF good THEN "current" ELSE "refused"]
  BY DEF VerifyRecord, BootEnds, Act, Goto
<1>3. /\ mem' \in BootRun /\ mem'.tip = mem.tip /\ mem'.verify = mem.verify /\ mem'.clone = mem.clone
      /\ mem'.verdict = (IF good THEN "current" ELSE "refused")
  BY <1>1, <1>2 DEF BootRun
<1>4. BootKnows("ended", mem', host')
  BY <1>0, <1>1, <1>3 DEF BootKnows
<1>5. good => Describes(host, mem.tip)
  <2> SUFFICES ASSUME good PROVE Describes(host, mem.tip)
    OBVIOUS
  <2>1. host.config = host.main[mem.tip]["inputs"] /\ host.config # Odd
    BY <1>1 DEF ConfigOf
  <2>2. ASSUME NEW f \in Fetched
        PROVE  host.record[f] = [pin |-> Last(host.main, f, mem.tip), sha256 |-> host.main[mem.tip][f]]
    <3>1. host.record[f] \in BootEntry /\ EntryIsCurrent(f)
      BY <1>1 DEF HistoryTyped, BootState
    <3>2. host.record[f].pin = Last(host.main, f, mem.tip) /\ host.record[f].sha256 = host.main[mem.tip][f]
      BY <1>0, <3>1, TipIsRead DEF EntryIsCurrent
    <3> QED
      BY <3>1, <3>2 DEF BootEntry
  <2> QED
    BY <2>1, <2>2 DEF Describes
<1>6. VerdictIsMains'
  BY <1>0, <1>3, <1>5, HistoryIs DEF VerdictIsMains, Describes
<1>7. ASSUME faults = 0, ~mem.clone.edited,
             \A f \in Fetched \cup {"inputs"} : \A n \in host.built + 1..mem.tip : ~Changed(f, n)
      PROVE  good
  <2>1. Describes(host, host.built) /\ host.built >= 1
    BY <1>1, <1>7 DEF BootInv
  <2>2. ASSUME NEW f \in Fetched \cup {"inputs"} PROVE host.main[mem.tip][f] = host.main[host.built][f]
    <3>1. \A n \in host.built + 1..mem.tip : ~Moved(host.main, f, n)
      BY <1>7, HistoryIs
    <3> DEFINE from == host.built
               to == mem.tip
    <3>2. from \in Nat /\ to \in Nat /\ from <= to
      BY <1>1
    <3>3. \A n \in from + 1..to : ~Moved(host.main, f, n)
      BY <3>1
    <3> HIDE DEF from, to
    <3>4. host.main[to][f] = host.main[from][f]
      BY <3>2, <3>3, UnchangedSince
    <3> QED
      BY <3>4 DEF from, to
  <2>3. host.config = ConfigOf
    BY <1>1, <1>7, <2>1, <2>2 DEF Describes, ConfigOf
  <2>4. ConfigOf # None
    <3>1. host.main[mem.tip] \in Tree
      BY <1>1 DEF HistoryTyped, BootState
    <3> QED
      BY <1>1, <1>7, <2>1, <2>2, <3>1, BootAssumption, ValueAssumption DEF Describes, ConfigOf, Tree
  <2>5. ASSUME NEW f \in Fetched PROVE EntryIsCurrent(f)
    <3> DEFINE m == Last(host.main, f, host.built)
    <3>1. m \in 1..host.built /\ Moved(host.main, f, m) /\ \A k \in m + 1..host.built : ~Moved(host.main, f, k)
      BY <1>1, <2>1, LastIsOne
    <3>0. host.record[f] = [pin |-> m, sha256 |-> host.main[host.built][f]]
      BY <2>1 DEF Describes
    <3> HIDE DEF m
    <3>2. host.record[f].pin = m /\ host.record[f].sha256 = host.main[host.built][f]
      BY <3>0
    <3>3. \A k \in m + 1..mem.tip : ~Moved(host.main, f, k)
      <4>1. \A k \in host.built + 1..mem.tip : ~Moved(host.main, f, k)
        BY <1>7, HistoryIs
      <4>2. ASSUME NEW k \in m + 1..mem.tip PROVE k \in m + 1..host.built \/ k \in host.built + 1..mem.tip
        BY <1>1, <3>1
      <4> QED
        BY <3>1, <4>1, <4>2
    <3>4. m \in 1..mem.tip /\ mem.tip >= 1
      BY <1>1, <3>1
    <3>5. m = LastCommit(f)
      <4>1. m = Last(host.main, f, mem.tip)
        BY <1>1, <3>1, <3>3, <3>4, OnlyOneLast
      <4> QED
        BY <1>0, <4>1, TipIsRead
    <3>6. host.main[m][f] = host.main[host.built][f]
      <4> DEFINE to == host.built
                 main == host.main
      <4>1. m \in Nat /\ to \in Nat /\ m <= to
        BY <1>1, <3>1
      <4>2. \A k \in m + 1..to : ~Moved(main, f, k)
        BY <3>1
      <4> HIDE DEF to, main
      <4>3. main[to][f] = main[m][f]
        BY <4>1, <4>2, UnchangedSince
      <4> QED
        BY <4>3 DEF to, main
    <3> QED
      BY <1>1, <3>2, <3>4, <3>5, <3>6 DEF EntryIsCurrent, Ancestor
  <2> QED
    BY <2>3, <2>4, <2>5
<1> HIDE DEF good
<1>8. RecordLasts'
  <2> SUFFICES ASSUME ~good, faults = 0, ~mem.clone.edited
               PROVE  \E f \in Fetched \cup {"inputs"} : \E n \in host.built + 1..mem.tip : Changed(f, n)'
    BY <1>0, <1>2, <1>3 DEF RecordLasts
  <2>1. \E f \in Fetched \cup {"inputs"} : \E n \in host.built + 1..mem.tip : Changed(f, n)
    BY <1>7
  <2> QED
    BY <1>0, <2>1, HistoryIs
<1> QED
  BY <1>0, <1>2, <1>4, <1>6, <1>8, BootRunEnds

LEMMA EditKeeps == ASSUME BootInv, EditRecord PROVE BootInv'
<1>0. HistoryTyped /\ at = <<"boot", "idle">> /\ at' = at /\ faults' = faults + 1 /\ faults \in Nat
  BY DEF BootInv, HistoryTyped, EditRecord, Fault, At
<1>1. PICK f \in Fetched, n \in 1..Tip :
        host' \in {[host EXCEPT !.record[f].pin = n], [host EXCEPT !.record[f].sha256 = host.main[n][f]],
                   [host EXCEPT !.config = host.main[n]["inputs"]]}
  BY DEF EditRecord
<1>2. host \in BootState /\ host.main[n] \in Tree /\ host.record[f] \in BootEntry /\ n \in Nat
  BY <1>0 DEF HistoryTyped, BootState, Tip
<1>3. host.main[n][f] \in Content \cup {Odd} /\ host.main[n]["inputs"] \in Content \cup {Odd}
  BY <1>2 DEF Tree
<1>4. ASSUME NEW e \in BootEntry
      PROVE  LET h == [host EXCEPT !.record[f] = e] IN h \in BootState /\ h.main = host.main /\ h.built = host.built
  <2>1. [host.record EXCEPT ![f] = e] \in [Fetched -> BootEntry]
    BY <1>2 DEF BootState
  <2> QED
    BY <1>2, <2>1 DEF BootState
<1>5. host' \in BootState /\ host'.main = host.main /\ host'.built = host.built
  <2>1. CASE host' = [host EXCEPT !.record[f].pin = n]
    <3> DEFINE e == [host.record[f] EXCEPT !.pin = n]
    <3>1. e \in BootEntry /\ host' = [host EXCEPT !.record[f] = e]
      BY <1>2, <2>1 DEF BootEntry
    <3> HIDE DEF e
    <3> QED
      BY <1>4, <3>1
  <2>2. CASE host' = [host EXCEPT !.record[f].sha256 = host.main[n][f]]
    <3> DEFINE e == [host.record[f] EXCEPT !.sha256 = host.main[n][f]]
    <3>1. e \in BootEntry /\ host' = [host EXCEPT !.record[f] = e]
      BY <1>2, <1>3, <2>2 DEF BootEntry
    <3> HIDE DEF e
    <3> QED
      BY <1>4, <3>1
  <2>3. CASE host' = [host EXCEPT !.config = host.main[n]["inputs"]]
    BY <1>2, <1>3, <2>3 DEF BootState
  <2> QED
    BY <1>1, <2>1, <2>2, <2>3
<1>6. HistoryTyped' /\ faults' # 0
  BY <1>0, <1>5 DEF HistoryTyped
<1> QED
  BY <1>0, <1>6 DEF BootInv, VerdictIsMains, RecordLasts, Booting

LEMMA BootIsInductive ==
  /\ BootInit => BootInv
  /\ BootInv /\ [BootNext]_programVars => BootInv'
<1>1. BootInit => BootInv
  <2> SUFFICES ASSUME BootInit PROVE BootInv
    OBVIOUS
  <2>1. PICK t \in Tree : host = [main |-> <<t>>, record |-> NoRecord, config |-> None, built |-> 0]
    BY DEF BootInit
  <2>2. <<t>> \in Seq(Tree) /\ Len(<<t>>) = 1
    OBVIOUS
  <2>3. NoRecord \in [Fetched -> BootEntry]
    BY DEF NoRecord, BootEntry
  <2>4. HistoryTyped
    BY <2>1, <2>2, <2>3 DEF BootInit, HistoryTyped, BootState
  <2> QED
    BY <2>1, <2>4 DEF BootInit, BootInv, Booting, VerdictIsMains, RecordLasts
<1>2. BootInv /\ UNCHANGED programVars => BootInv'
  <2> SUFFICES ASSUME BootInv, UNCHANGED programVars PROVE BootInv'
    OBVIOUS
  <2>1. UNCHANGED <<at, mem, host, faults>>
    BY DEF programVars
  <2> QED
    BY <2>1, HistoryIs DEF BootInv, HistoryTyped, VerdictIsMains, RecordLasts
<1>3. BootInv /\ BootNext => BootInv'
  BY CommitKeeps, AskingKeeps, BuildKeeps, VerifyKeeps, EditKeeps DEF BootNext
<1> QED
  BY <1>1, <1>2, <1>3

\* A record that was built or found current is main's, and it stays current for as long as main
\* holds what it was built from: whatever is committed meanwhile.
THEOREM RecordIsMains == BootSpec => []BootHolds
<1>1. BootInv => BootHolds
  BY DEF BootInv, BootHolds
<1> QED
  BY <1>1, BootIsInductive, PTL DEF BootSpec

---------------------------------------------------------------------------
(* The blocklists. What a run has been told of a zone it has asked is what *)
(* its verdict goes by, and the check is not green from when a run starts  *)
(* to when it reports.                                                     *)

Answer == {"listed", "not listed", "query error", "failed", "unresponsive"}
ZoneHost == [zone : [ZoneSet -> ZoneState], url : {"set", "unset", "refused"}, addresses : {1, 2},
             state : [ZoneSet -> Answer] \cup {Odd}, check : {None, "stale", "up", "down"}]
Marker == {"new", "still", "inconclusive"}
CheckRun == [next : Nat, sentinel : Answer \cup {None}, previous : [ZoneSet -> Answer], verdict : [ZoneSet -> Answer],
             truth : [ZoneSet -> Answer \cup {"unasked", "untested", "turned"}], crashed : BOOLEAN,
             errors : SUBSET ((ZoneSet \X Marker) \cup {"crash"}), exit : {None, 0, 1}]
Checking == {"sentinel", "target", "report", "ended"}

\* What a run that has asked the first zones of the list knows of them.
Knowing(step, m) ==
  /\ m \in CheckRun /\ m.next >= 1 /\ m.next <= Len(Zones) + 1
  /\ step = "target" => m.next <= Len(Zones)
  /\ step \in {"sentinel", "target"} => ~m.crashed
  /\ \A i \in 1..m.next - 1 : m.verdict[Zones[i]] = "not listed" => m.truth[Zones[i]] \in {"not listed", "turned"}
  /\ step = "report" /\ ~m.crashed => m.next = Len(Zones) + 1
  /\ step # "ended" => m.exit = None

BlocklistInv ==
  /\ at \in {"dnsbl"} \X ({"idle"} \cup Checking) /\ host \in ZoneHost
  /\ at[2] \in Checking => Knowing(at[2], mem)
  /\ at[2] \in Checking \ {"ended"} => host.check \in {None, "stale"}
  /\ CleanIsClean /\ FindingIsHeard

AnswerInv ==
  /\ at \in {"answer"} \X {"read", "ended"}
  /\ host \in Responses
  /\ UnprovenIsNotClean

LEMMA CheckMoves ==
  ASSUME NEW to \in Checking \ {"ended"}, at' = <<"dnsbl", to>>, host' \in ZoneHost, Knowing(to, mem'),
         host'.check \in {None, "stale"}
  PROVE  BlocklistInv'
  BY DEF BlocklistInv, CleanIsClean, FindingIsHeard, Checking

LEMMA CheckRests == ASSUME at' = <<"dnsbl", "idle">>, host' \in ZoneHost PROVE BlocklistInv'
  BY DEF BlocklistInv, CleanIsClean, FindingIsHeard, Checking

LEMMA NobodyIs == Nobody \in [ZoneSet -> Answer]
  BY DEF Nobody, Answer

LEMMA LengthIs == Len(Zones) \in Nat
  BY ZonesAssumption

LEMMA ZonesAre == DOMAIN Zones = 1..Len(Zones) /\ \A i \in 1..Len(Zones) : Zones[i] \in ZoneSet
  BY ZonesAssumption

LEMMA StartCheckKeeps == ASSUME BlocklistInv, StartCheck PROVE BlocklistInv'
<1>1. host \in ZoneHost /\ host' = [host EXCEPT !.check = IF @ = None THEN None ELSE "stale"]
  BY DEF BlocklistInv, StartCheck
<1>2. host' \in ZoneHost /\ host'.check \in {None, "stale"}
  BY <1>1 DEF ZoneHost
<1> DEFINE to == IF host.addresses = 1 THEN "sentinel" ELSE "report"
           before == IF host.state = Odd THEN Nobody ELSE host.state
           unasked == [z \in ZoneSet |-> "unasked"]
<1>3. /\ at' = <<"dnsbl", to>> /\ to \in Checking \ {"ended"}
      /\ mem' = [next |-> 1, sentinel |-> None, previous |-> before, verdict |-> Nobody,
                 truth |-> unasked, crashed |-> host.addresses # 1, errors |-> {}, exit |-> None]
  BY DEF StartCheck, Act, Goto, Checking
<1>4. before \in [ZoneSet -> Answer] /\ unasked \in [ZoneSet -> Answer \cup {"unasked", "untested", "turned"}]
  BY <1>1, NobodyIs DEF ZoneHost
<1>5. mem'.crashed = (host.addresses # 1) /\ mem'.next = 1 /\ mem'.exit = None
  BY <1>3
<1> HIDE DEF before, unasked
<1>6. mem' \in CheckRun
  BY <1>3, <1>4, NobodyIs DEF CheckRun
<1>7. /\ mem'.next >= 1 /\ mem'.next <= Len(Zones) + 1 /\ to # "target" /\ to # "ended"
      /\ \A i \in 1..mem'.next - 1 : FALSE
  BY <1>5, LengthIs
<1>8. (to = "sentinel" => ~mem'.crashed) /\ (to = "report" => mem'.crashed)
  BY <1>5
<1> HIDE DEF to
<1>9. Knowing(to, mem')
  BY <1>5, <1>6, <1>7, <1>8 DEF Knowing
<1> QED
  BY <1>2, <1>3, <1>9, CheckMoves

LEMMA LookupIs == ASSUME host \in ZoneHost, NEW z \in ZoneSet, NEW listed \in BOOLEAN PROVE Lookup(z, listed) \in Answer
<1>1. host.zone[z].mood \in {"answers", "dead", "blocked", "silent"}
  BY DEF ZoneHost, ZoneState
<1> QED
  BY <1>1 DEF Lookup, Answer

LEMMA AskKeeps == ASSUME BlocklistInv, AskSentinel \/ AskTarget PROVE BlocklistInv'
<1>0. host \in ZoneHost /\ host' = host
  BY DEF BlocklistInv, AskSentinel, AskTarget
<1>1. CASE AskSentinel
  <2> DEFINE l == Lookup(Asked, TRUE)
  <2>1. at = <<"dnsbl", "sentinel">> /\ at' = <<"dnsbl", "target">> /\ mem' = [mem EXCEPT !.sentinel = l]
    BY <1>1 DEF AskSentinel, Act, At, Goto
  <2>2. Knowing("sentinel", mem) /\ host.check \in {None, "stale"} /\ mem.next \in 1..Len(Zones)
    BY <1>1, <2>1, ZonesAre DEF BlocklistInv, Checking, AskSentinel
  <2>3. l \in Answer
    BY <1>0, <2>2, LookupIs, ZonesAre DEF Asked
  <2> HIDE DEF l
  <2>4. /\ mem' \in CheckRun /\ mem'.next = mem.next /\ mem'.crashed = mem.crashed /\ mem'.verdict = mem.verdict
        /\ mem'.truth = mem.truth /\ mem'.exit = mem.exit
    BY <2>1, <2>2, <2>3 DEF Knowing, CheckRun
  <2>5. mem.next <= Len(Zones)
    BY <2>2, LengthIs
  <2>6. Knowing("target", mem')
    BY <2>2, <2>4, <2>5 DEF Knowing
  <2> QED
    BY <1>0, <2>1, <2>2, <2>6, CheckMoves DEF Checking
<1>2. CASE AskTarget
  <2> DEFINE answer == Lookup(Asked, host.zone[Asked].listing)
             v == Evaluate(mem.sentinel, answer)
             t == IF mem.sentinel # "listed" THEN "untested"
                  ELSE IF host.zone[Asked].mood # "answers" THEN "turned" ELSE answer
  <2>1. /\ at = <<"dnsbl", "target">> /\ at' = <<"dnsbl", "sentinel">>
        /\ mem' = [mem EXCEPT !.next = @ + 1, !.verdict[Asked] = v, !.truth[Asked] = t]
    BY <1>2 DEF AskTarget, Act, At, Goto
  <2>2. Knowing("target", mem) /\ host.check \in {None, "stale"}
    BY <2>1 DEF BlocklistInv, Checking
  <2>a. mem \in CheckRun /\ mem.next >= 1 /\ mem.next <= Len(Zones)
    BY <2>2 DEF Knowing
  <2>b. mem.next \in Nat
    BY <2>a DEF CheckRun
  <2>3. mem.next \in 1..Len(Zones) /\ Asked = Zones[mem.next] /\ Asked \in ZoneSet /\ mem \in CheckRun
    BY <2>a, <2>b, LengthIs, ZonesAre DEF Asked
  <2>4. answer \in Answer
    <3>1. host.zone[Asked].listing \in BOOLEAN
      BY <1>0, <2>3 DEF ZoneHost, ZoneState
    <3> QED
      BY <1>0, <2>3, <3>1, LookupIs
  <2> HIDE DEF answer
  <2>5. v \in Answer /\ t \in Answer \cup {"unasked", "untested", "turned"}
    BY <2>4 DEF Evaluate, Answer
  <2>6. v = "not listed" => t \in {"not listed", "turned"}
    BY <2>4 DEF Evaluate
  <2> HIDE DEF v, t
  <2>7. /\ mem'.next = mem.next + 1 /\ mem'.crashed = mem.crashed /\ mem'.exit = mem.exit
        /\ mem'.verdict = [mem.verdict EXCEPT ![Asked] = v] /\ mem'.truth = [mem.truth EXCEPT ![Asked] = t]
    BY <2>1, <2>3 DEF CheckRun
  <2>8. /\ mem'.verdict \in [ZoneSet -> Answer]
        /\ mem'.truth \in [ZoneSet -> Answer \cup {"unasked", "untested", "turned"}]
        /\ \A z \in ZoneSet : /\ mem'.verdict[z] = IF z = Asked THEN v ELSE mem.verdict[z]
                              /\ mem'.truth[z] = IF z = Asked THEN t ELSE mem.truth[z]
    BY <2>3, <2>5, <2>7 DEF CheckRun
  <2>9. mem' \in CheckRun
    <3>1. mem.next + 1 \in Nat
      BY <2>3 DEF CheckRun
    <3> DEFINE n == mem.next + 1
               vs == [mem.verdict EXCEPT ![Asked] = v]
               ts == [mem.truth EXCEPT ![Asked] = t]
    <3>2. mem' = [mem EXCEPT !.next = n, !.verdict = vs, !.truth = ts]
      BY <2>1, <2>3 DEF CheckRun
    <3>3. n \in Nat /\ vs \in [ZoneSet -> Answer] /\ ts \in [ZoneSet -> Answer \cup {"unasked", "untested", "turned"}]
      BY <2>7, <2>8, <3>1
    <3> HIDE DEF n, vs, ts
    <3> QED
      BY <2>3, <3>2, <3>3 DEF CheckRun
  <2>10. ASSUME NEW i \in 1..mem'.next - 1, mem'.verdict[Zones[i]] = "not listed"
         PROVE  mem'.truth[Zones[i]] \in {"not listed", "turned"}
    <3>a. mem'.next = mem.next + 1
      BY <2>7
    <3>0. i \in 1..mem.next /\ i \in 1..Len(Zones)
      BY <2>a, <2>b, <3>a, LengthIs
    <3>1. i \in 1..mem.next /\ Zones[i] \in ZoneSet
      BY <3>0, ZonesAre
    <3>2. CASE Zones[i] = Asked
      BY <2>6, <2>8, <2>10, <3>1, <3>2
    <3>3. CASE Zones[i] # Asked
      <4>1. i \in 1..mem.next - 1
        BY <2>b, <2>3, <3>1, <3>3
      <4> QED
        BY <2>2, <2>8, <2>10, <3>1, <3>3, <4>1 DEF Knowing
    <3> QED
      BY <3>2, <3>3
  <2>11. Knowing("sentinel", mem')
    <3>1. mem'.next >= 1 /\ mem'.next <= Len(Zones) + 1
      BY <2>a, <2>b, <2>7, LengthIs
    <3>2. ~mem'.crashed /\ mem'.exit = None
      BY <2>2, <2>7 DEF Knowing
    <3> QED
      BY <2>9, <2>10, <3>1, <3>2 DEF Knowing
  <2> QED
    BY <1>0, <2>1, <2>2, <2>11, CheckMoves DEF Checking
<1> QED
  BY <1>1, <1>2

LEMMA SaveKeeps == ASSUME BlocklistInv, SaveState PROVE BlocklistInv'
<1>1. /\ at = <<"dnsbl", "sentinel">> /\ at' = <<"dnsbl", "report">> /\ mem.next \notin DOMAIN Zones
  BY DEF SaveState, Act, At, Goto
<1>2. host \in ZoneHost /\ Knowing("sentinel", mem) /\ host.check \in {None, "stale"} /\ mem \in CheckRun
  BY <1>1 DEF BlocklistInv, Checking, Knowing
<1>3. mem.next = Len(Zones) + 1
  <2>1. mem.next >= 1 /\ mem.next <= Len(Zones) + 1
    BY <1>2 DEF Knowing
  <2>2. mem.next \in Nat
    BY <1>2 DEF CheckRun
  <2> QED
    BY <1>1, <2>1, <2>2, LengthIs, ZonesAre
<1>4. CASE host' = [host EXCEPT !.state = mem.verdict] /\ mem' = mem
  <2>1. host' \in ZoneHost /\ host'.check = host.check
    BY <1>2, <1>4 DEF ZoneHost, CheckRun
  <2>2. Knowing("report", mem')
    BY <1>2, <1>3, <1>4 DEF Knowing
  <2> QED
    BY <1>1, <1>2, <2>1, <2>2, CheckMoves DEF Checking
<1>5. CASE host' = host /\ mem' = [mem EXCEPT !.crashed = TRUE]
  <2>1. /\ mem' \in CheckRun /\ mem'.next = mem.next /\ mem'.crashed /\ mem'.verdict = mem.verdict
        /\ mem'.truth = mem.truth /\ mem'.exit = mem.exit
    BY <1>2, <1>5 DEF CheckRun
  <2>2. Knowing("report", mem')
    BY <1>2, <2>1 DEF Knowing
  <2> QED
    BY <1>1, <1>2, <1>5, <2>2, CheckMoves DEF Checking
<1> QED
  BY <1>4, <1>5 DEF SaveState

\* The report: every finding has its line, and the ping says what the exit status says.
LEMMA ReportKeeps == ASSUME BlocklistInv, ReportRun PROVE BlocklistInv'
<1> DEFINE found == IF mem.crashed THEN {"crash"} ELSE Alerts
           x == IF found = {} THEN 0 ELSE 1
<1>1. /\ at = <<"dnsbl", "report">> /\ at' = <<"dnsbl", "ended">> /\ Forward(found # {})
      /\ mem' = [mem EXCEPT !.errors = found, !.exit = x]
  BY DEF ReportRun, At, Goto
<1>2. host \in ZoneHost /\ Knowing("report", mem) /\ host.check \in {None, "stale"} /\ mem \in CheckRun
  BY <1>1 DEF BlocklistInv, Checking, Knowing
<1> DEFINE marker(z) == CASE mem.verdict[z] # "listed" -> "inconclusive"
                          [] mem.previous[z] = "listed" -> "still"
                          [] OTHER -> "new"
           flagged == {z \in ZoneSet : mem.verdict[z] # "not listed"}
<1>3. Alerts = {<<z, marker(z)>> : z \in flagged}
  BY DEF Alerts
<1>4. \A z : marker(z) \in Marker
  BY DEF Marker
<1> HIDE DEF marker
<1>5. found \in SUBSET ((ZoneSet \X Marker) \cup {"crash"}) /\ x \in {None, 0, 1}
  <2>1. Alerts \in SUBSET (ZoneSet \X Marker)
    <3> SUFFICES ASSUME NEW y \in Alerts PROVE y \in ZoneSet \X Marker
      OBVIOUS
    <3>1. PICK z \in flagged : y = <<z, marker(z)>>
      BY <1>3
    <3> QED
      BY <1>4, <3>1
  <2> HIDE DEF flagged
  <2> QED
    BY <2>1
<1>6. ~mem.crashed => \A z \in ZoneSet : mem.verdict[z] # "not listed" => <<z, marker(z)>> \in found
  BY <1>3
<1>7. found = {} => ~mem.crashed /\ \A z \in ZoneSet : mem.verdict[z] = "not listed"
  BY <1>6
<1> HIDE DEF found
<1>8. (x = 1 <=> found # {}) /\ (x = 0 => found = {})
  <2>1. CASE found = {}
    BY <2>1
  <2>2. CASE found # {}
    BY <2>2
  <2> QED
    BY <2>1, <2>2
<1> HIDE DEF x
<1>9. /\ mem' \in CheckRun /\ mem'.errors = found /\ mem'.exit = x /\ mem'.crashed = mem.crashed
      /\ mem'.verdict = mem.verdict /\ mem'.truth = mem.truth /\ mem'.next = mem.next
  BY <1>1, <1>2, <1>5 DEF CheckRun
<1>10. Knowing("ended", mem')
  BY <1>2, <1>9 DEF Knowing
<1>11. CleanIsClean'
  <2> SUFFICES ASSUME x = 0, NEW z \in ZoneSet PROVE mem.truth[z] \in {"not listed", "turned"}
    BY <1>9 DEF CleanIsClean
  <2>1. PICK i \in 1..Len(Zones) : z = Zones[i]
    BY ZonesAre DEF ZoneSet
  <2>2. mem.verdict[z] = "not listed" /\ ~mem.crashed
    BY <1>7, <1>8
  <2>3. mem.next = Len(Zones) + 1
    BY <1>2, <2>2 DEF Knowing
  <2>4. i \in 1..mem.next - 1
    BY <2>1, <2>3, LengthIs
  <2> QED
    BY <1>2, <2>1, <2>2, <2>4 DEF Knowing
<1>12. host' \in ZoneHost /\ (found # {} => host'.check # "up")
  <2>0. "stale" # "up" /\ None # "up" /\ "down" # "up"
    BY SignalAssumption
  <2>1. CASE host' = [host EXCEPT !.check = IF found # {} THEN "down" ELSE "up"]
    BY <1>2, <2>0, <2>1 DEF ZoneHost
  <2>2. CASE host' = host
    BY <1>2, <2>0, <2>2
  <2> QED
    BY <1>1, <2>1, <2>2 DEF Forward
<1>13. FindingIsHeard'
  <2>1. (mem'.exit = 1) = (mem'.errors # {}) /\ (mem'.exit = 1 => host'.check # "up")
    BY <1>8, <1>9, <1>12
  <2>2. ~mem'.crashed => \A z \in ZoneSet : mem'.verdict[z] # "not listed" =>
          \E m \in {"new", "still", "inconclusive"} : <<z, m>> \in mem'.errors
    <3> SUFFICES ASSUME ~mem.crashed, NEW z \in ZoneSet, mem.verdict[z] # "not listed"
                 PROVE  \E m \in {"new", "still", "inconclusive"} : <<z, m>> \in found
      BY <1>9
    <3>1. <<z, marker(z)>> \in found /\ marker(z) \in {"new", "still", "inconclusive"}
      BY <1>4, <1>6 DEF Marker
    <3> QED
      BY <3>1
  <2> QED
    BY <2>1, <2>2 DEF FindingIsHeard
<1> QED
  BY <1>1, <1>10, <1>11, <1>12, <1>13 DEF BlocklistInv, Checking

\* What the world does to the zones, and to the state file, is of no account to what a run knows.
LEMMA WorldKeeps ==
  ASSUME BlocklistInv, CheckForget \/ CheckDies \/ ZoneTurns \/ UNCHANGED programVars
  PROVE  BlocklistInv'
<1>1. host \in ZoneHost
  BY DEF BlocklistInv
<1>2. CASE CheckForget \/ CheckDies
  BY <1>1, <1>2, CheckRests DEF CheckForget, CheckDies, Act, Goto
<1>3. CASE UNCHANGED programVars
  <2>1. UNCHANGED <<at, mem, host>>
    BY <1>3 DEF programVars
  <2> QED
    BY <2>1 DEF BlocklistInv, CleanIsClean, FindingIsHeard
<1>4. CASE ZoneTurns
  <2>1. at' = at /\ mem' = mem
    BY <1>4 DEF ZoneTurns
  <2>2. host' \in ZoneHost /\ host'.check = host.check
    <3>1. CASE host' = [host EXCEPT !.state = Odd]
      BY <1>1, <3>1 DEF ZoneHost
    <3>2. CASE \E z \in ZoneSet, s \in ZoneState : host' = [host EXCEPT !.zone[z] = s]
      <4>1. PICK z \in ZoneSet, s \in ZoneState : host' = [host EXCEPT !.zone[z] = s]
        BY <3>2
      <4> DEFINE zs == [host.zone EXCEPT ![z] = s]
      <4>2. zs \in [ZoneSet -> ZoneState] /\ host' = [host EXCEPT !.zone = zs]
        BY <1>1, <4>1 DEF ZoneHost
      <4> HIDE DEF zs
      <4> QED
        BY <1>1, <4>2 DEF ZoneHost
    <3> QED
      BY <1>4, <3>1, <3>2 DEF ZoneTurns
  <2> QED
    BY <2>1, <2>2 DEF BlocklistInv, CleanIsClean, FindingIsHeard
<1> QED
  BY <1>2, <1>3, <1>4

\* The reading of one response.
LEMMA ResponseKeeps == ASSUME AnswerInv, ReadResponse PROVE AnswerInv'
<1>1. /\ at' = <<"answer", "ended">> /\ mem' = ParseResponse /\ host' = host
  BY DEF ReadResponse, Act, Goto
<1>2. host.question \in {"ours", "other", "none"} /\ host.code \in {"ok", "nxdomain", "servfail"}
  BY DEF AnswerInv, Responses
<1>3. PICK n \in 0..2 : host.records \in [1..n -> {"A", "error A", "other", "cut"}]
  BY DEF AnswerInv, Responses
<1>4. ASSUME ParseResponse = "not listed"
      PROVE  /\ host.ours /\ host.question # "other"
             /\ \/ host.code = "nxdomain"
                \/ host.code = "ok" /\ ~host.truncated /\ \A i \in DOMAIN host.records : host.records[i] = "other"
  <2>1. ~(~host.ours \/ host.question = "other")
    BY <1>4 DEF ParseResponse
  <2>2. CASE host.code # "nxdomain"
    <3>1. host.code = "ok" /\ ~Has("cut") /\ ~Has("A") /\ ~Has("error A") /\ ~host.truncated
      BY <1>2, <1>4, <2>1, <2>2 DEF ParseResponse
    <3> QED
      BY <1>3, <2>1, <3>1 DEF Has
  <2> QED
    BY <2>1, <2>2
<1>5. UnprovenIsNotClean'
  BY <1>1, <1>4 DEF UnprovenIsNotClean
<1> QED
  BY <1>1, <1>5 DEF AnswerInv

LEMMA BlocklistIsInductive ==
  /\ (BlocklistInit => BlocklistInv) /\ (BlocklistInv /\ [BlocklistNext]_programVars => BlocklistInv')
  /\ (AnswerInit => AnswerInv) /\ (AnswerInv /\ [ReadResponse]_programVars => AnswerInv')
<1>1. BlocklistInit => BlocklistInv
  <2> SUFFICES ASSUME BlocklistInit PROVE BlocklistInv
    OBVIOUS
  <2>1. PICK z \in [ZoneSet -> ZoneState], url \in {"set", "unset", "refused"}, addresses \in {1, 2} :
          host = [zone |-> z, url |-> url, addresses |-> addresses, state |-> Nobody, check |-> None]
    BY DEF BlocklistInit
  <2>2. host \in ZoneHost
    BY <2>1, NobodyIs DEF ZoneHost
  <2>3. at = <<"dnsbl", "idle">>
    BY DEF BlocklistInit
  <2> QED
    BY <2>2, <2>3 DEF BlocklistInv, CleanIsClean, FindingIsHeard, Checking
<1>2. BlocklistInv /\ [BlocklistNext]_programVars => BlocklistInv'
  BY StartCheckKeeps, AskKeeps, SaveKeeps, ReportKeeps, WorldKeeps DEF BlocklistNext
<1>3. AnswerInit => AnswerInv
  BY DEF AnswerInit, AnswerInv, UnprovenIsNotClean
<1>4. AnswerInv /\ UNCHANGED programVars => AnswerInv'
  BY DEF AnswerInv, UnprovenIsNotClean, programVars
<1> QED
  BY <1>1, <1>2, <1>3, <1>4, ResponseKeeps

LEMMA ChecksApart ==
  /\ BlocklistInv => ~AnswerInv /\ ~ReadResponse
  /\ AnswerInv => ~BlocklistInv /\ ~BlocklistNext
<1>1. BlocklistInv => at[1] = "dnsbl" /\ ~ReadResponse
  BY DEF BlocklistInv, ReadResponse, Act, At
<1>2. AnswerInv => at[1] = "answer"
  BY DEF AnswerInv
<1>3. BlocklistNext => at[1] = "dnsbl"
  <2>1. StartCheck => at[1] = "dnsbl"
    BY DEF StartCheck, Act, At
  <2>2. AskSentinel => at[1] = "dnsbl"
    BY DEF AskSentinel, At
  <2>3. AskTarget => at[1] = "dnsbl"
    BY DEF AskTarget, At
  <2>4. SaveState \/ ReportRun \/ CheckForget \/ CheckDies \/ ZoneTurns => at[1] = "dnsbl"
    BY DEF SaveState, ReportRun, CheckForget, CheckDies, ZoneTurns, Act, At
  <2> QED
    BY <2>1, <2>2, <2>3, <2>4 DEF BlocklistNext
<1> QED
  BY <1>1, <1>2, <1>3

ChecksInv == BlocklistInv \/ AnswerInv

LEMMA ChecksAreInductive ==
  /\ BlocklistInit \/ AnswerInit => ChecksInv
  /\ ChecksInv /\ [BlocklistNext \/ ReadResponse]_programVars => ChecksInv'
  /\ ChecksInv => BlocklistHolds
<1>1. BlocklistInv \/ AnswerInv => BlocklistHolds
  <2>1. BlocklistInv => BlocklistHolds
    <3>1. BlocklistInv => at # <<"answer", "ended">> /\ CleanIsClean /\ FindingIsHeard
      BY DEF BlocklistInv
    <3> QED
      BY <3>1 DEF BlocklistHolds, UnprovenIsNotClean
  <2>2. AnswerInv => BlocklistHolds
    <3>1. AnswerInv => at # <<"dnsbl", "ended">> /\ UnprovenIsNotClean
      BY DEF AnswerInv
    <3> QED
      BY <3>1 DEF BlocklistHolds, CleanIsClean, FindingIsHeard
  <2> QED
    BY <2>1, <2>2
<1>2. BlocklistInit \/ AnswerInit => BlocklistInv \/ AnswerInv
  BY BlocklistIsInductive
<1>3. (BlocklistInv \/ AnswerInv) /\ [BlocklistNext \/ ReadResponse]_programVars => (BlocklistInv \/ AnswerInv)'
  BY BlocklistIsInductive, ChecksApart
<1> QED
  BY <1>1, <1>2, <1>3 DEF ChecksInv

\* A run that calls the address clean asked every zone of the list and was told so by each one
\* that works, a finding is never behind a green check, and a response that proves nothing is
\* not read as a clean one: for any list of zones, whatever they do while they are asked.
THEOREM NobodyIsCleanByDefault == BlocklistSpec => []BlocklistHolds
BY ChecksAreInductive, PTL DEF BlocklistSpec

---------------------------------------------------------------------------
(* The reputation feed. A link's age is kept in the state file, from the   *)
(* first run that used the link at the earliest; a run that publishes an   *)
(* age has it from there.                                                  *)

Time == 1..Ticks
Collects == {"fetch", "parse", "publish", "ended"}
SndsHost == [link : Links, url : BOOLEAN, now : 0..Ticks, reputation : Feed \cup {None},
             health : [success : BOOLEAN \cup {None}, link : Time \cup {None}, data : BOOLEAN \cup {None}, last : Time \cup {None}],
             state : StateFile \cup {None, Odd}, writable : BOOLEAN, first : [Links -> 0..Ticks]]
CollectRun == [seen : Time \cup {None}, last : Time \cup {None}, exit : {0, 1}, data : BOOLEAN \cup {None},
               feed : Feed \cup {None}]

StateIs(link, h) == h.state \in StateFile /\ h.state.link = link
Judged(f) == ~EveryLineSkipped(f) /\ ~NothingReadable(f)

\* What the host's files say: a feed that some alert can read, and ages that are true.
FilesAreTrue(h) ==
  /\ h \in SndsHost
  /\ h.reputation # None => Judged(h.reputation)
  /\ \A l \in Links : h.first[l] <= h.now
  /\ \A l \in Links : StateIs(l, h) => h.state.seen \in Time /\ h.first[l] # 0 /\ h.first[l] <= h.state.seen

Collecting(step, m, h) ==
  /\ m \in CollectRun /\ h.now # 0
  /\ m.seen # None => StateIs(h.link, h) /\ m.seen = h.state.seen
  /\ step = "parse" => m.feed # None
  /\ m.exit = 0 => m.last = h.now
  /\ m.data = TRUE => h.reputation = m.feed /\ Records(m.feed) # {}
  /\ step \in {"fetch", "parse"} => m.exit = 1 /\ m.data = None

Published(m, h) ==
  h.writable => h.health = [success |-> m.exit = 0, link |-> m.seen, data |-> m.data, last |-> m.last]

ReputationInv ==
  /\ at \in {"snds"} \X ({"idle"} \cup Collects) /\ FilesAreTrue(host)
  /\ at[2] \in Collects => Collecting(at[2], mem, host)
  /\ at[2] = "ended" => Published(mem, host)

LEMMA StateFileIs == ASSUME FilesAreTrue(host), NEW l \in Links PROVE StateHas(l) = StateIs(l, host)
<1>1. host.state \in StateFile \cup {None, Odd}
  BY DEF FilesAreTrue, SndsHost
<1>2. {None, Odd} \cap StateFile = {}
  BY LinkAssumption
<1> QED
  BY <1>1, <1>2 DEF StateHas, StateIs

LEMMA CollectMoves ==
  ASSUME NEW to \in Collects \ {"ended"}, at' = <<"snds", to>>, FilesAreTrue(host'), Collecting(to, mem', host')
  PROVE  ReputationInv'
  BY DEF ReputationInv, Collects

LEMMA CollectRests == ASSUME at' = <<"snds", "idle">>, FilesAreTrue(host') PROVE ReputationInv'
  BY DEF ReputationInv, Collects

LEMMA StartCollectKeeps == ASSUME ReputationInv, StartCollect PROVE ReputationInv'
<1> DEFINE t == host.now + 1
           l == host.link
           last == LastSuccess
           made == [link |-> l, seen |-> t, last |-> last]
           writes == host.url /\ ~StateIs(l, host) /\ host.writable
           state == IF writes THEN made ELSE host.state
           first == [host.first EXCEPT ![l] = IF host.url /\ @ = 0 THEN t ELSE @]
           seen == IF ~host.url THEN None ELSE IF StateIs(l, host) THEN host.state.seen
                   ELSE IF host.writable THEN t ELSE None
           before == IF host.url THEN last ELSE None
           to == IF host.url THEN "fetch" ELSE "publish"
<1>1. /\ FilesAreTrue(host) /\ host \in SndsHost /\ l \in Links /\ host.now < Ticks
  BY DEF ReputationInv, FilesAreTrue, SndsHost, StartCollect
<1>2. t \in Time /\ t # 0
  <2>1. host.now \in 0..Ticks /\ Ticks \in Nat
    BY <1>1, LinkAssumption DEF SndsHost
  <2> QED
    BY <1>1, <2>1 DEF Time
<1>3. last \in Time \cup {None}
  BY <1>1 DEF LastSuccess, SndsHost, StateFile, Time
<1>4. StateHas(l) = StateIs(l, host)
  BY <1>1, StateFileIs
<1>5. /\ at' = <<"snds", to>>
      /\ mem' = [seen |-> seen, last |-> before, exit |-> 1, data |-> None, feed |-> None]
      /\ host' = [host EXCEPT !.now = t, !.state = state, !.first = first]
  <2>1. LinkState.seen = IF StateIs(l, host) THEN host.state.seen ELSE IF host.writable THEN t ELSE None
    BY <1>4 DEF LinkState
  <2>2. LinkState.kept = StateIs(l, host)
    <3>1. CASE StateIs(l, host)
      BY <1>4, <3>1 DEF LinkState
    <3>2. CASE ~StateIs(l, host)
      BY <1>4, <3>2 DEF LinkState, StateIs
    <3> QED
      BY <3>1, <3>2
  <2>3. at' = <<"snds", to>>
    BY DEF StartCollect, Act, Goto
  <2>4. mem' = [seen |-> seen, last |-> before, exit |-> 1, data |-> None, feed |-> None]
    BY <2>1 DEF StartCollect
  <2>5. host' = [host EXCEPT !.now = t, !.state = state, !.first = first]
    BY <1>1, <2>2 DEF StartCollect, SndsHost
  <2> QED
    BY <2>3, <2>4, <2>5
<1>6. made \in StateFile /\ made.link = l /\ made.seen = t
  BY <1>1, <1>2, <1>3 DEF StateFile, Time
<1>7. state \in StateFile \cup {None, Odd} /\ (writes => state = made) /\ (~writes => state = host.state)
  BY <1>1, <1>6 DEF SndsHost
<1>8. /\ first \in [Links -> 0..Ticks]
      /\ \A k \in Links \ {l} : first[k] = host.first[k]
      /\ host.url => first[l] = IF host.first[l] = 0 THEN t ELSE host.first[l]
      /\ ~host.url => first[l] = host.first[l]
  BY <1>1, <1>2 DEF SndsHost, Time
<1> HIDE DEF t, made, state, first, seen, before, to, writes, last
<1>9. /\ host' \in SndsHost /\ host'.now = t /\ host'.state = state /\ host'.first = first
      /\ host'.link = l /\ host'.reputation = host.reputation
  <2>1. t \in 0..Ticks /\ first \in [Links -> 0..Ticks] /\ state \in StateFile \cup {None, Odd}
    BY <1>2, <1>7, <1>8, LinkAssumption DEF Time
  <2> QED
    BY <1>1, <1>5, <2>1 DEF SndsHost
<1>10. host.now \in Nat /\ t = host.now + 1 /\ \A k \in Links : host.first[k] \in 0..Ticks /\ host.first[k] <= host.now
  BY <1>1, LinkAssumption DEF t, FilesAreTrue, SndsHost
<1>11. \A k \in Links : first[k] <= t
  BY <1>8, <1>10, LinkAssumption
<1>12. ASSUME NEW k \in Links, StateIs(k, host') PROVE host'.state.seen \in Time /\ first[k] # 0 /\ first[k] <= host'.state.seen
  <2>1. CASE writes
    <3>1. k = l /\ host'.state.seen = t
      BY <1>6, <1>7, <1>9, <1>12, <2>1 DEF StateIs
    <3> QED
      BY <1>2, <1>8, <1>11, <2>1, <3>1 DEF writes
  <2>2. CASE ~writes
    <3>1. StateIs(k, host) /\ host'.state = host.state
      BY <1>7, <1>9, <1>12, <2>2 DEF StateIs
    <3>2. host.first[k] # 0 /\ host.first[k] <= host.state.seen /\ host.state.seen \in Time
      BY <1>1, <3>1 DEF FilesAreTrue
    <3>3. first[k] = host.first[k]
      BY <1>8, <3>2
    <3> QED
      BY <3>1, <3>2, <3>3
  <2> QED
    BY <2>1, <2>2
<1>13. FilesAreTrue(host')
  BY <1>1, <1>9, <1>11, <1>12 DEF FilesAreTrue
<1>14. seen # None => StateIs(l, host') /\ seen = host'.state.seen
  <2>1. CASE StateIs(l, host)
    BY <1>7, <1>9, <2>1 DEF seen, writes, StateIs
  <2>2. CASE ~StateIs(l, host)
    BY <1>6, <1>7, <1>9, <2>2 DEF seen, writes, StateIs
  <2> QED
    BY <2>1, <2>2
<1>15. seen \in Time \cup {None}
  BY <1>1, <1>2 DEF seen, FilesAreTrue
<1>16. before \in Time \cup {None}
  BY <1>3 DEF before
<1>17. /\ mem' \in CollectRun /\ mem'.seen = seen /\ mem'.exit = 1 /\ mem'.data = None
  BY <1>5, <1>15, <1>16 DEF CollectRun
<1>18. to \in {"fetch", "publish"} /\ at' = <<"snds", to>>
  BY <1>5 DEF to
<1>19. Collecting(to, mem', host')
  <2>1. mem'.seen # None => StateIs(host'.link, host') /\ mem'.seen = host'.state.seen
    BY <1>9, <1>14, <1>17
  <2>2. mem'.exit # 0 /\ host'.now # 0 /\ to # "parse"
    BY <1>2, <1>9, <1>17, <1>18
  <2>3. mem'.data # TRUE
    BY <1>17, LinkAssumption, Zenon
  <2> QED
    BY <1>17, <2>1, <2>2, <2>3 DEF Collecting
<1> QED
  BY <1>13, <1>18, <1>19, CollectMoves DEF Collects

\* A success is written into the state file; the link and its age are left as they are.
LEMMA RecordKeeps ==
  ASSUME NEW h, FilesAreTrue(h), h.writable = host.writable, h.now # 0
  PROVE  LET r == RecordSuccess(h)
         IN  /\ FilesAreTrue(r) /\ r.now = h.now /\ r.link = h.link /\ r.reputation = h.reputation
             /\ \A l \in Links : StateIs(l, h) => StateIs(l, r) /\ r.state.seen = h.state.seen
<1> DEFINE fresh == [link |-> None, seen |-> None, last |-> h.now]
           stamped == [h.state EXCEPT !.last = h.now]
           s == IF ~host.writable THEN h.state ELSE IF h.state \in {None, Odd} THEN fresh ELSE stamped
           r == RecordSuccess(h)
<1>1. h \in SndsHost /\ h.now \in Time
  <2>1. h \in SndsHost
    BY DEF FilesAreTrue
  <2>2. h.now \in 0..Ticks
    BY <2>1 DEF SndsHost
  <2> QED
    BY <2>1, <2>2, LinkAssumption DEF Time
<1>2. r = [h EXCEPT !.state = s]
  BY <1>1 DEF RecordSuccess, SndsHost
<1>3. fresh \in StateFile /\ fresh.link = None
  BY <1>1 DEF StateFile, Time
<1>4. h.state \in StateFile => stamped \in StateFile /\ stamped.link = h.state.link /\ stamped.seen = h.state.seen
  BY <1>1 DEF StateFile, Time
<1>5. h.state \in StateFile \cup {None, Odd} /\ {None, Odd} \cap StateFile = {} /\ None \notin Links
  BY <1>1, LinkAssumption DEF SndsHost
<1> HIDE DEF fresh, stamped
<1>6. /\ s \in StateFile \cup {None, Odd}
      /\ h.state \in StateFile => s \in StateFile /\ s.link = h.state.link /\ s.seen = h.state.seen
      /\ h.state \notin StateFile => s \notin StateFile \/ s.link = None
  BY <1>3, <1>4, <1>5
<1> HIDE DEF s
<1>7. /\ r \in SndsHost /\ r.now = h.now /\ r.link = h.link /\ r.reputation = h.reputation /\ r.first = h.first
      /\ r.state = s
  BY <1>1, <1>2, <1>6 DEF SndsHost
<1> HIDE DEF r
<1>8. \A l \in Links : StateIs(l, r) <=> StateIs(l, h)
  BY <1>5, <1>6, <1>7 DEF StateIs
<1>9. \A l \in Links : StateIs(l, h) => r.state.seen = h.state.seen
  BY <1>6, <1>7 DEF StateIs
<1>10. FilesAreTrue(r)
  BY <1>7, <1>8, <1>9 DEF FilesAreTrue
<1> QED
  BY <1>7, <1>8, <1>9, <1>10 DEF r

LEMMA RunIs ==
  ASSUME ReputationInv, at[1] = "snds", at[2] \in Collects
  PROVE  /\ FilesAreTrue(host) /\ Collecting(at[2], mem, host) /\ mem \in CollectRun /\ host \in SndsHost
         /\ host.link \in Links /\ host.now \in Time
<1>1. FilesAreTrue(host) /\ Collecting(at[2], mem, host)
  BY DEF ReputationInv
<1>2. host \in SndsHost /\ host.now # 0 /\ mem \in CollectRun
  BY <1>1 DEF FilesAreTrue, Collecting
<1>3. host.link \in Links /\ host.now \in 0..Ticks
  BY <1>2 DEF SndsHost
<1> QED
  BY <1>1, <1>2, <1>3, LinkAssumption DEF Time

LEMMA FetchKeeps == ASSUME ReputationInv, FetchFeed PROVE ReputationInv'
<1>1. at = <<"snds", "fetch">>
  BY DEF FetchFeed, At
<1>2. /\ FilesAreTrue(host) /\ Collecting("fetch", mem, host) /\ mem \in CollectRun /\ host \in SndsHost
      /\ host.link \in Links /\ host.now \in Time /\ host.now # 0
  BY <1>1, RunIs DEF Collects, Collecting
<1>3. mem.exit = 1 /\ mem.data = None
  BY <1>2 DEF Collecting
<1>4. CASE /\ Act("snds", "fetch", "parse") /\ UNCHANGED host /\ \E f \in Feed : mem' = [mem EXCEPT !.feed = f]
  <2>1. PICK f \in Feed : mem' = [mem EXCEPT !.feed = f]
    BY <1>4
  <2>2. /\ mem' \in CollectRun /\ mem'.seen = mem.seen /\ mem'.exit = 1 /\ mem'.data = None /\ mem'.feed = f
    BY <1>2, <1>3, <2>1 DEF CollectRun
  <2>3. f # None /\ mem'.data # TRUE
    BY <2>2, LinkAssumption, Zenon
  <2>4. mem'.seen # None => StateIs(host'.link, host') /\ mem'.seen = host'.state.seen
    BY <1>2, <1>4, <2>2 DEF Collecting
  <2>5. host'.now # 0
    BY <1>2, <1>4
  <2>6. Collecting("parse", mem', host')
    <3>1. mem' \in CollectRun /\ mem'.exit = 1 /\ mem'.exit # 0 /\ mem'.data = None /\ mem'.feed # None
      BY <2>2, <2>3
    <3> QED
      BY <2>3, <2>4, <2>5, <3>1 DEF Collecting
  <2> QED
    BY <1>2, <1>4, <2>6, CollectMoves DEF Act, Goto, Collects
<1>5. ASSUME NEW reply \in Replies, Act("snds", "fetch", "publish"),
             IF reply = "nothing" THEN CollectEnds(0, FALSE, host.now) /\ host' = RecordSuccess(host)
             ELSE UNCHANGED <<mem, host>>
      PROVE  ReputationInv'
  <2>0. at' = <<"snds", "publish">>
    BY <1>5 DEF Act, Goto
  <2>1. CASE UNCHANGED <<mem, host>>
    <3>1. Collecting("publish", mem', host')
      BY <1>2, <2>1 DEF Collecting
    <3> QED
      BY <1>2, <2>0, <2>1, <3>1, CollectMoves DEF Collects
  <2>2. CASE CollectEnds(0, FALSE, host.now) /\ host' = RecordSuccess(host)
    <3>1. /\ FilesAreTrue(host') /\ host'.now = host.now /\ host'.link = host.link
          /\ StateIs(host.link, host) => StateIs(host.link, host') /\ host'.state.seen = host.state.seen
      BY <1>2, <2>2, RecordKeeps
    <3>2. /\ mem' \in CollectRun /\ mem'.seen = mem.seen /\ mem'.exit = 0 /\ mem'.last = host.now /\ mem'.data = FALSE
      BY <1>2, <2>2 DEF CollectEnds, CollectRun
    <3>3. mem'.seen # None => StateIs(host'.link, host') /\ mem'.seen = host'.state.seen
      BY <1>2, <3>1, <3>2 DEF Collecting
    <3>4. Collecting("publish", mem', host')
      BY <1>2, <3>1, <3>2, <3>3 DEF Collecting
    <3> QED
      BY <2>0, <3>1, <3>4, CollectMoves DEF Collects
  <2> QED
    BY <1>5, <2>1, <2>2
<1> QED
  BY <1>4, <1>5 DEF FetchFeed

LEMMA ParseKeeps == ASSUME ReputationInv, ParseFeed PROVE ReputationInv'
<1> DEFINE f == mem.feed
           h == [host EXCEPT !.reputation = f]
<1>1. at = <<"snds", "parse">> /\ at' = <<"snds", "publish">>
  BY DEF ParseFeed, Act, At, Goto
<1>2. /\ FilesAreTrue(host) /\ Collecting("parse", mem, host) /\ mem \in CollectRun /\ host \in SndsHost
      /\ host.link \in Links /\ host.now \in Time /\ host.now # 0
  BY <1>1, RunIs DEF Collects, Collecting
<1>3. mem.exit = 1 /\ mem.data = None /\ f \in Feed
  BY <1>2 DEF Collecting, CollectRun
<1>4. CASE UNCHANGED <<mem, host>>
  <2>1. Collecting("publish", mem', host')
    BY <1>2, <1>4 DEF Collecting
  <2> QED
    BY <1>1, <1>2, <1>4, <2>1, CollectMoves DEF Collects
<1>5. CASE mem' = [mem EXCEPT !.exit = 1, !.seen = None, !.last = None] /\ host' = host
  <2>1. mem' \in CollectRun /\ mem'.seen = None /\ mem'.exit = 1 /\ mem'.data = None
    BY <1>2, <1>3, <1>5 DEF CollectRun
  <2>2. None # TRUE
    BY LinkAssumption
  <2>3. Collecting("publish", mem', host')
    BY <1>2, <1>5, <2>1, <2>2 DEF Collecting
  <2> QED
    BY <1>1, <1>2, <1>5, <2>3, CollectMoves DEF Collects
<1>6. CASE Judged(f) /\ CollectEnds(0, Records(f) # {}, host.now) /\ host' = RecordSuccess(h)
  <2>1. h \in SndsHost /\ h.reputation = f /\ h.state = host.state /\ h.first = host.first /\ h.now = host.now /\ h.link = host.link
        /\ h.writable = host.writable
    BY <1>2, <1>3 DEF SndsHost
  <2> HIDE DEF h
  <2>2. \A l \in Links : StateIs(l, h) = StateIs(l, host)
    BY <2>1 DEF StateIs
  <2>3. FilesAreTrue(h)
    BY <1>2, <1>6, <2>1, <2>2 DEF FilesAreTrue
  <2>4. /\ FilesAreTrue(host') /\ host'.now = host.now /\ host'.link = host.link /\ host'.reputation = f
        /\ StateIs(host.link, host) => StateIs(host.link, host') /\ host'.state.seen = host.state.seen
    BY <1>2, <1>6, <2>1, <2>2, <2>3, RecordKeeps
  <2> DEFINE d == Records(f) # {}
  <2>5. d \in BOOLEAN
    OBVIOUS
  <2>6. d = TRUE => Records(f) # {}
    OBVIOUS
  <2>7. mem' = [mem EXCEPT !.exit = 0, !.data = d, !.last = host.now]
    BY <1>6 DEF CollectEnds
  <2> HIDE DEF d
  <2>8. /\ mem' \in CollectRun /\ mem'.seen = mem.seen /\ mem'.exit = 0 /\ mem'.last = host.now /\ mem'.data = d /\ mem'.feed = f
    BY <1>2, <2>5, <2>7 DEF CollectRun
  <2>9. mem'.seen # None => StateIs(host'.link, host') /\ mem'.seen = host'.state.seen
    BY <1>2, <2>4, <2>8 DEF Collecting
  <2>10. Collecting("publish", mem', host')
    BY <1>2, <2>4, <2>6, <2>8, <2>9 DEF Collecting
  <2> QED
    BY <1>1, <2>4, <2>10, CollectMoves DEF Collects
<1> QED
  BY <1>4, <1>5, <1>6 DEF ParseFeed, Judged

LEMMA PublishKeeps == ASSUME ReputationInv, PublishHealth PROVE ReputationInv'
<1> DEFINE health == [success |-> mem.exit = 0, link |-> mem.seen, data |-> mem.data, last |-> mem.last]
<1>1. /\ at = <<"snds", "publish">> /\ at' = <<"snds", "ended">> /\ mem' = mem
      /\ host' = IF host.writable THEN [host EXCEPT !.health = health] ELSE host
  BY DEF PublishHealth, Act, At, Goto
<1>2. FilesAreTrue(host) /\ Collecting("publish", mem, host) /\ mem \in CollectRun /\ host \in SndsHost
  BY <1>1, RunIs DEF Collects
<1>3. health \in [success : BOOLEAN \cup {None}, link : Time \cup {None}, data : BOOLEAN \cup {None}, last : Time \cup {None}]
  BY <1>2 DEF CollectRun
<1> HIDE DEF health
<1>4. /\ host' \in SndsHost /\ host'.state = host.state /\ host'.first = host.first /\ host'.link = host.link
      /\ host'.now = host.now /\ host'.reputation = host.reputation /\ host'.writable = host.writable
      /\ host.writable => host'.health = health
  BY <1>1, <1>2, <1>3 DEF SndsHost
<1>5. \A l \in Links : StateIs(l, host') = StateIs(l, host)
  BY <1>4 DEF StateIs
<1>6. FilesAreTrue(host')
  BY <1>2, <1>4, <1>5 DEF FilesAreTrue
<1>7. host.link \in Links
  BY <1>2 DEF SndsHost
<1>8. Collecting("ended", mem', host')
  BY <1>1, <1>2, <1>4, <1>5, <1>7 DEF Collecting
<1>9. Published(mem', host')
  BY <1>1, <1>4 DEF Published, health
<1> QED
  BY <1>1, <1>6, <1>8, <1>9 DEF ReputationInv, Collects

LEMMA SndsWorldKeeps ==
  ASSUME ReputationInv, CollectForget \/ CollectDies \/ SndsChanges \/ UNCHANGED programVars
  PROVE  ReputationInv'
<1>1. FilesAreTrue(host) /\ host \in SndsHost
  BY DEF ReputationInv, FilesAreTrue
<1>2. CASE CollectForget \/ CollectDies
  BY <1>1, <1>2, CollectRests DEF CollectForget, CollectDies, Act, Goto
<1>3. CASE UNCHANGED programVars
  <2>1. UNCHANGED <<at, mem, host>>
    BY <1>3 DEF programVars
  <2> QED
    BY <2>1 DEF ReputationInv
<1>4. CASE SndsChanges
  <2>1. at = <<"snds", "idle">> /\ at' = at
    BY <1>4 DEF SndsChanges, At
  <2>2. /\ host' \in SndsHost /\ host'.reputation = host.reputation /\ host'.first = host.first /\ host'.now = host.now
        /\ host'.state = host.state \/ host'.state = Odd
    <3>1. CASE \E l \in Links : host' = [host EXCEPT !.link = l, !.url = TRUE]
      BY <1>1, <3>1 DEF SndsHost
    <3>2. CASE host' = [host EXCEPT !.url = FALSE]
      BY <1>1, <3>2 DEF SndsHost
    <3>3. CASE host' = [host EXCEPT !.writable = ~@]
      BY <1>1, <3>3 DEF SndsHost
    <3>4. CASE host' = [host EXCEPT !.state = Odd]
      BY <1>1, <3>4 DEF SndsHost
    <3> QED
      BY <1>4, <3>1, <3>2, <3>3, <3>4 DEF SndsChanges
  <2>3. \A l \in Links : StateIs(l, host') => StateIs(l, host) /\ host'.state = host.state
    BY <2>2, LinkAssumption DEF StateIs
  <2>4. FilesAreTrue(host')
    BY <1>1, <2>2, <2>3 DEF FilesAreTrue
  <2> QED
    BY <2>1, <2>4, CollectRests
<1> QED
  BY <1>2, <1>3, <1>4

LEMMA ReputationIsInductive ==
  (ReputationInit => ReputationInv) /\ (ReputationInv /\ [ReputationNext]_programVars => ReputationInv')
<1>1. ASSUME ReputationInit PROVE ReputationInv
  <2> DEFINE none == [k \in Links |-> 0]
  <2>1. PICK l \in Links : host = [link |-> l, url |-> TRUE, now |-> 0, reputation |-> None, health |-> NoHealth,
                                  state |-> None, writable |-> TRUE, first |-> none]
    BY <1>1 DEF ReputationInit
  <2>2. none \in [Links -> 0..Ticks] /\ 0 \in 0..Ticks /\ \A k \in Links : none[k] = 0
    BY LinkAssumption
  <2>3. NoHealth \in [success : BOOLEAN \cup {None}, link : Time \cup {None}, data : BOOLEAN \cup {None}, last : Time \cup {None}]
    BY DEF NoHealth
  <2> HIDE DEF none
  <2>4. host \in SndsHost /\ host.reputation = None /\ host.state = None /\ host.first = none /\ host.now = 0
    BY <2>1, <2>2, <2>3 DEF SndsHost
  <2>5. FilesAreTrue(host)
    BY <2>2, <2>4, LinkAssumption DEF FilesAreTrue, StateIs
  <2>6. at = <<"snds", "idle">>
    BY <1>1 DEF ReputationInit
  <2> QED
    BY <2>5, <2>6 DEF ReputationInv, Collects
<1> QED
  BY <1>1, StartCollectKeeps, FetchKeeps, ParseKeeps, PublishKeeps, SndsWorldKeeps DEF ReputationNext

LEMMA ReputationInvGives == ReputationInv => ReputationHolds
<1> SUFFICES ASSUME ReputationInv PROVE ReputationHolds
  OBVIOUS
<1>1. FilesAreTrue(host)
  BY DEF ReputationInv
<1>2. ASSUME at = <<"snds", "ended">>
      PROVE  Collecting("ended", mem, host) /\ Published(mem, host) /\ host.link \in Links
  BY <1>2, RunIs DEF ReputationInv, Collects
<1>3. ReadingIsKept
  <2>1. host.reputation # None => ~EveryLineSkipped(host.reputation) /\ ~NothingReadable(host.reputation)
    BY <1>1 DEF FilesAreTrue, Judged
  <2>2. ASSUME at = <<"snds", "ended">>, host.writable
        PROVE  /\ host.health.success = (mem.exit = 0) /\ (mem.exit = 0 => host.health.last = host.now)
               /\ host.health.data = TRUE => host.reputation = mem.feed /\ Records(mem.feed) # {}
    <3>1. /\ host.health.success = (mem.exit = 0) /\ host.health.data = mem.data /\ host.health.last = mem.last
      BY <1>2, <2>2 DEF Published
    <3>2. (mem.exit = 0 => mem.last = host.now) /\ (mem.data = TRUE => host.reputation = mem.feed /\ Records(mem.feed) # {})
      BY <1>2, <2>2 DEF Collecting
    <3> QED
      BY <3>1, <3>2
  <2> QED
    BY <2>1, <2>2 DEF ReadingIsKept, At
<1>4. LinkAgeIsTrue
  <2> SUFFICES ASSUME at = <<"snds", "ended">>, host.writable, host.health.link # None
               PROVE  /\ host.health.link >= host.first[host.link]
                      /\ StateHas(host.link) /\ host.health.link = host.state.seen
    BY DEF LinkAgeIsTrue, At
  <2>1. host.health.link = mem.seen
    BY <1>2 DEF Published
  <2>2. StateIs(host.link, host) /\ mem.seen = host.state.seen
    BY <1>2, <2>1 DEF Collecting
  <2>3. host.first[host.link] <= host.state.seen /\ host.state.seen \in Time /\ host.first[host.link] \in 0..Ticks
    BY <1>1, <1>2, <2>2 DEF FilesAreTrue, SndsHost
  <2>4. host.state.seen >= host.first[host.link]
    BY <2>3, LinkAssumption DEF Time
  <2> QED
    BY <1>1, <1>2, <2>1, <2>2, <2>4, StateFileIs
<1> QED
  BY <1>3, <1>4 DEF ReputationHolds

\* A failing run leaves the last reading that could be read, success is claimed by the run that
\* earned it, and an age is published only from the state file, where it is not from before the
\* link was first used: for any links, and however often they are rotated or the file is lost.
THEOREM AgesAreTrue == ReputationSpec => []ReputationHolds
BY ReputationIsInductive, ReputationInvGives, PTL DEF ReputationSpec

---------------------------------------------------------------------------
(* The host's inputs. Of the runs at their prompts, each moves by itself;  *)
(* the file changes only where one of them puts its document in place.     *)

Document == [Inputs -> {None, "own", "shared", "typed"}]
SeedStep == {"collect", "ask", "write", "place", "verify", "ended"}
SeedRun == [step : SeedStep, replace : BOOLEAN, key : Inputs \cup {None}, document : Document \cup {None},
            typed : SUBSET Inputs, verdict : {None, "exists", "refused", "missing", "failed", "written", "differs"}]
\* From the prompt on a run has a document.
Seeding == {m \in SeedRun : m.step \in {"ask", "write", "place", "verify"} => m.document \in Document}
SeedHost == [place : [InputPlaces -> {None, Odd, "value"}], file : Document \cup {None, Odd}, temps : SUBSET Seeders]

InputsInv == at = <<"seed", "run">> /\ mem \in [Seeders -> Seeding \cup {None}] /\ host \in SeedHost

LEMMA InputIs == ASSUME NEW k \in Inputs
                 PROVE  /\ LiveValue(k) \in {None, "own", "shared"}
                        /\ LiveValue(k) = "shared" => host.place["own"] = None
<1> DEFINE P == PlacesOf[k]
           there == {i \in DOMAIN P : Usable(P[i])}
           f == First(there)
<1>1. P \in Seq({"own", "shared"}) /\ None \notin {"own", "shared"}
  BY PlacesAssumption
<1>2. \A j \in DOMAIN P : P[j] = "shared" => \E i \in 1..j - 1 : P[i] = "own"
  BY PlacesAssumption
<1>3. Len(P) \in Nat /\ DOMAIN P = 1..Len(P) /\ \A i \in 1..Len(P) : P[i] \in {"own", "shared"}
  BY <1>1
<1>4. LiveValue(k) = IF there = {} \/ host.place[P[f]] = Odd THEN None ELSE P[f]
  BY DEF LiveValue
<1> HIDE DEF P
<1>5. CASE there = {}
  BY <1>1, <1>4, <1>5
<1>6. CASE there # {}
  <2>1. there \in SUBSET Nat
    BY <1>3
  <2>2. f \in there /\ \A m \in there : f <= m
    BY <1>6, <2>1, LeastOf DEF First
  <2> HIDE DEF f
  <2>3. f \in 1..Len(P) /\ f \in Nat
    BY <1>3, <2>1, <2>2
  <2>4. P[f] \in {"own", "shared"}
    BY <1>3, <2>3
  <2>5. ASSUME P[f] = "shared" PROVE host.place["own"] = None
    <3>1. PICK i \in 1..f - 1 : P[i] = "own"
      BY <1>2, <1>3, <2>3, <2>5
    <3>2. i \in 1..Len(P) /\ ~(f <= i)
      BY <1>3, <2>3
    <3>3. i \notin there
      BY <2>2, <3>2
    <3>4. ~Usable(P[i])
      BY <1>3, <3>2, <3>3
    <3> QED
      BY <3>1, <3>4 DEF Usable
  <2> QED
    BY <1>1, <1>4, <2>4, <2>5
<1> QED
  BY <1>5, <1>6

LEMMA SeederMoves ==
  ASSUME InputsInv, NEW s \in Seeders, NEW m \in Seeding \cup {None}, at' = at, mem' = [mem EXCEPT ![s] = m], host' \in SeedHost
  PROVE  InputsInv'
  BY DEF InputsInv

\* One step of one run: what it does to that run and to the file, and that the others stay.
LEMMA SeederSteps ==
  ASSUME InputsInv, NEW s \in Seeders,
         \/ \E replace \in BOOLEAN : StartFill(s, replace)
         \/ \E k \in Inputs : StartSet(s, k)
         \/ CollectInputs(s) \/ AskOwner(s) \/ WriteInputsTemp(s) \/ PlaceFile(s) \/ PlaceFails(s) \/ VerifyFile(s)
         \/ SeederForget(s) \/ SeederDies(s)
  PROVE  /\ InputsInv'
         /\ \A t \in Seeders \ {s} : mem'[t] = mem[t]
         /\ mem[s] # None /\ mem[s].step = "collect" /\ mem'[s] # None /\ mem'[s].step = "ask" =>
              \A k \in Inputs : mem'[s].document[k] = LiveValue(k)
         /\ host.file # None /\ host'.file # host.file => mem[s] # None /\ mem[s].step = "place" /\ mem[s].replace
<1> DEFINE Kept == host'.file = host.file
           Goal == /\ InputsInv'
                   /\ \A t \in Seeders \ {s} : mem'[t] = mem[t]
                   /\ mem[s] # None /\ mem[s].step = "collect" /\ mem'[s] # None /\ mem'[s].step = "ask" =>
                        \A k \in Inputs : mem'[s].document[k] = LiveValue(k)
                   /\ host.file # None /\ ~Kept => mem[s] # None /\ mem[s].step = "place" /\ mem[s].replace
<1>1. mem \in [Seeders -> Seeding \cup {None}] /\ host \in SeedHost /\ at = <<"seed", "run">>
  BY DEF InputsInv
<1>2. ASSUME NEW m \in Seeding \cup {None}, at' = at, mem' = [mem EXCEPT ![s] = m], host' \in SeedHost, Kept,
             mem[s] = None \/ m = None \/ m.step # "ask" \/ mem[s].step # "collect"
      PROVE  Goal
  <2>1. InputsInv'
    BY <1>2, SeederMoves
  <2>2. mem'[s] = m /\ \A t \in Seeders \ {s} : mem'[t] = mem[t]
    BY <1>1, <1>2
  <2> QED
    BY <1>2, <2>1, <2>2
<1>3. ASSUME mem[s] # None PROVE mem[s] \in SeedRun /\ mem[s] \in Seeding
  BY <1>1, <1>3 DEF Seeding
<1>4. host' = host => host' \in SeedHost /\ Kept
  BY <1>1
<1>5. ASSUME NEW u \in SUBSET Seeders, host' = [host EXCEPT !.temps = u] PROVE host' \in SeedHost /\ Kept
  BY <1>1, <1>5 DEF SeedHost
<1>6. ASSUME NEW replace \in BOOLEAN, StartFill(s, replace) PROVE Goal
  <2> DEFINE old == [SeederNew("ended", FALSE, None, None) EXCEPT !.verdict = "exists"]
             new == SeederNew("collect", replace, None, None)
  <2>1. old \in Seeding /\ new \in Seeding /\ old.step # "ask" /\ new.step # "ask"
    BY DEF SeederNew, Seeding, SeedRun, SeedStep
  <2>2. mem[s] = None /\ at' = at /\ host' = host /\ (mem' = [mem EXCEPT ![s] = old] \/ mem' = [mem EXCEPT ![s] = new])
    BY <1>6 DEF StartFill
  <2> HIDE DEF old, new
  <2> QED
    BY <1>2, <1>4, <2>1, <2>2
<1>7. ASSUME NEW k \in Inputs, StartSet(s, k) PROVE Goal
  <2> DEFINE old == [SeederNew("ended", TRUE, k, None) EXCEPT !.verdict = "refused"]
             new == SeederNew("ask", TRUE, k, host.file)
  <2>1. mem[s] = None /\ at' = at /\ host' = host
    BY <1>7 DEF StartSet
  <2>2. CASE mem' = [mem EXCEPT ![s] = old]
    <3>1. old \in Seeding
      BY DEF SeederNew, Seeding, SeedRun, SeedStep
    <3> HIDE DEF old
    <3> QED
      BY <1>2, <1>4, <2>1, <2>2, <3>1
  <2>3. CASE mem' = [mem EXCEPT ![s] = new] /\ host.file \notin {None, Odd}
    <3>1. host.file \in Document
      BY <1>1, <2>3 DEF SeedHost
    <3>2. new \in Seeding
      BY <3>1 DEF SeederNew, Seeding, SeedRun, SeedStep
    <3> HIDE DEF new
    <3> QED
      BY <1>2, <1>4, <2>1, <2>3, <3>2
  <2> QED
    BY <1>7, <2>2, <2>3 DEF StartSet
<1>8. CASE CollectInputs(s)
  <2> DEFINE d == [k \in Inputs |-> LiveValue(k)]
             m == [mem[s] EXCEPT !.step = "ask", !.document = d]
  <2>1. mem[s] # None /\ at' = at /\ host' = host /\ mem' = [mem EXCEPT ![s] = m]
    BY <1>1, <1>8 DEF CollectInputs, SeederAt
  <2>2. d \in Document
    BY InputIs DEF Document
  <2>3. m \in Seeding /\ m.document = d
    BY <1>3, <2>1, <2>2 DEF Seeding, SeedRun, SeedStep
  <2>4. \A k \in Inputs : d[k] = LiveValue(k)
    OBVIOUS
  <2> HIDE DEF m, d
  <2>5. InputsInv' /\ Kept
    BY <1>1, <1>4, <2>1, <2>3, SeederMoves
  <2>6. mem'[s] = m /\ \A t \in Seeders \ {s} : mem'[t] = mem[t]
    BY <1>1, <2>1
  <2> QED
    BY <2>3, <2>4, <2>5, <2>6
<1>9. CASE AskOwner(s)
  <2>1. mem[s] # None /\ mem[s].step = "ask" /\ at' = at /\ host' = host
    BY <1>9 DEF AskOwner, SeederAt
  <2>2. mem[s] \in Seeding /\ mem[s] \in SeedRun /\ mem[s].document \in Document
    BY <1>3, <2>1 DEF Seeding
  <2>3. CASE SeederEnds(s, "missing")
    <3> DEFINE m == [mem[s] EXCEPT !.step = "ended", !.verdict = "missing"]
    <3>1. mem' = [mem EXCEPT ![s] = m]
      BY <1>1, <2>3 DEF SeederEnds
    <3>2. m \in Seeding /\ m.step # "ask"
      BY <2>2 DEF Seeding, SeedRun, SeedStep
    <3> HIDE DEF m
    <3> QED
      BY <1>2, <1>4, <2>1, <3>1, <3>2
  <2>4. CASE ~SeederEnds(s, "missing")
    <3> DEFINE asked == IF mem[s].key = None THEN {k \in Inputs : mem[s].document[k] = None} ELSE {mem[s].key}
               d == [k \in Inputs |-> IF k \in asked THEN ByOwner ELSE mem[s].document[k]]
               m == [mem[s] EXCEPT !.step = "write", !.typed = asked, !.document = d]
    <3>1. mem' = [mem EXCEPT ![s] = m]
      BY <1>1, <1>9, <2>4 DEF AskOwner
    <3>2. asked \in SUBSET Inputs
      BY <2>2 DEF SeedRun
    <3> HIDE DEF asked
    <3>3. d \in Document
      BY <2>2, <3>2 DEF Document, ByOwner
    <3> HIDE DEF d
    <3>4. m \in Seeding /\ m.step # "ask"
      BY <2>2, <3>2, <3>3 DEF Seeding, SeedRun, SeedStep
    <3> HIDE DEF m
    <3> QED
      BY <1>2, <1>4, <2>1, <3>1, <3>4
  <2> QED
    BY <2>3, <2>4
<1>10. ASSUME NEW to \in {"place", "ended"}, NEW v \in {"missing", "failed", "written", "differs", "exists"}, mem[s] # None,
              at' = at, host' \in SeedHost, Kept, to = "place" => mem[s].step = "write",
              mem' = [mem EXCEPT ![s] = [mem[s] EXCEPT !.step = to, !.verdict = v]] \/
              mem' = [mem EXCEPT ![s] = [mem[s] EXCEPT !.step = to]]
       PROVE  Goal
  <2> DEFINE m1 == [mem[s] EXCEPT !.step = to, !.verdict = v]
             m2 == [mem[s] EXCEPT !.step = to]
  <2>1. mem[s] \in Seeding /\ mem[s] \in SeedRun
    BY <1>3, <1>10
  <2>2. m1 \in Seeding /\ m2 \in Seeding /\ m1.step # "ask" /\ m2.step # "ask"
    BY <1>10, <2>1 DEF Seeding, SeedRun, SeedStep
  <2> HIDE DEF m1, m2
  <2>3. CASE mem' = [mem EXCEPT ![s] = m1]
    BY <1>2, <1>10, <2>2, <2>3
  <2>4. CASE mem' = [mem EXCEPT ![s] = m2]
    BY <1>2, <1>10, <2>2, <2>4
  <2> QED
    BY <1>10, <2>3, <2>4 DEF m1, m2
<1>11. host.temps \cup {s} \in SUBSET Seeders /\ host.temps \ {s} \in SUBSET Seeders
  BY <1>1 DEF SeedHost
<1>12. CASE WriteInputsTemp(s)
  <2>1. host' \in SeedHost /\ Kept
    BY <1>5, <1>11, <1>12 DEF WriteInputsTemp, SeedHost
  <2>2. mem[s] # None /\ mem[s].step = "write" /\ at' = at /\ mem' = [mem EXCEPT ![s] = [mem[s] EXCEPT !.step = "place"]]
    BY <1>1, <1>12 DEF WriteInputsTemp, SeederAt, SeederTo
  <2> QED
    BY <1>10, <2>1, <2>2
<1>13. CASE PlaceFails(s)
  <2>1. host' \in SeedHost /\ Kept
    BY <1>5, <1>11, <1>13 DEF PlaceFails, SeedHost
  <2>2. mem[s] # None /\ at' = at /\ mem' = [mem EXCEPT ![s] = [mem[s] EXCEPT !.step = "ended", !.verdict = "failed"]]
    BY <1>1, <1>13 DEF PlaceFails, SeederAt, SeederEnds
  <2> QED
    BY <1>10, <2>1, <2>2
<1>14. CASE VerifyFile(s)
  <2> DEFINE v == IF host.file = mem[s].document THEN "written" ELSE "differs"
  <2>1. mem[s] # None /\ at' = at /\ host' = host /\ mem' = [mem EXCEPT ![s] = [mem[s] EXCEPT !.step = "ended", !.verdict = v]]
    BY <1>1, <1>14 DEF VerifyFile, SeederAt, SeederEnds
  <2>2. v \in {"missing", "failed", "written", "differs", "exists"}
    OBVIOUS
  <2> HIDE DEF v
  <2> QED
    BY <1>4, <1>10, <2>1, <2>2
<1>15. CASE SeederForget(s) \/ SeederDies(s)
  <2>1. mem' = [mem EXCEPT ![s] = None] /\ at' = at /\ host' = host
    BY <1>15 DEF SeederForget, SeederDies, SeederAt
  <2> QED
    BY <1>2, <1>4, <2>1
<1>16. CASE PlaceFile(s)
  <2>1. mem[s] # None /\ mem[s].step = "place" /\ at' = at
    BY <1>16 DEF PlaceFile, SeederAt
  <2>2. mem[s] \in Seeding /\ mem[s] \in SeedRun /\ mem[s].document \in Document
    BY <1>3, <2>1 DEF Seeding
  <2>3. CASE ~(mem[s].replace \/ host.file = None)
    <3>1. /\ mem' = [mem EXCEPT ![s] = [mem[s] EXCEPT !.step = "ended", !.verdict = "exists"]]
          /\ host' = [host EXCEPT !.temps = host.temps \ {s}]
      BY <1>1, <1>16, <2>3 DEF PlaceFile, SeederEnds, SeedHost
    <3>2. host' \in SeedHost /\ Kept
      BY <1>5, <1>11, <3>1
    <3> QED
      BY <1>10, <2>1, <3>1, <3>2
  <2>4. CASE mem[s].replace \/ host.file = None
    <3> DEFINE m == [mem[s] EXCEPT !.step = "verify"]
    <3>1. /\ mem' = [mem EXCEPT ![s] = m]
          /\ host' = [host EXCEPT !.file = mem[s].document, !.temps = host.temps \ {s}]
      BY <1>1, <1>16, <2>4 DEF PlaceFile, SeederTo, SeedHost
    <3>2. host' \in SeedHost
      BY <1>1, <1>11, <2>2, <3>1 DEF SeedHost
    <3>3. m \in Seeding /\ m.step = "verify"
      BY <2>2 DEF Seeding, SeedRun, SeedStep
    <3> HIDE DEF m
    <3>4. InputsInv'
      BY <2>1, <3>1, <3>2, <3>3, SeederMoves
    <3>5. mem'[s] = m /\ \A t \in Seeders \ {s} : mem'[t] = mem[t]
      BY <1>1, <3>1
    <3> QED
      BY <2>1, <2>4, <3>3, <3>4, <3>5
  <2> QED
    BY <2>3, <2>4
<1> QED
  BY <1>6, <1>7, <1>8, <1>9, <1>12, <1>13, <1>14, <1>15, <1>16

LEMMA InputsAreInductive ==
  (InputsInit => InputsInv) /\ (InputsInv /\ [InputsNext]_programVars => InputsInv')
<1>1. InputsInit => InputsInv
  <2> SUFFICES ASSUME InputsInit PROVE InputsInv
    OBVIOUS
  <2>1. PICK own \in {None, Odd, "value"}, shared \in {None, Odd, "value"}, document \in {None, Odd} :
          host = [place |-> [p \in InputPlaces |-> IF p = "own" THEN own ELSE shared], file |-> document, temps |-> {}]
    BY DEF InputsInit
  <2> DEFINE place == [p \in InputPlaces |-> IF p = "own" THEN own ELSE shared]
  <2>2. place \in [InputPlaces -> {None, Odd, "value"}]
    OBVIOUS
  <2> HIDE DEF place
  <2>3. host \in SeedHost
    BY <2>1, <2>2 DEF SeedHost, place
  <2> QED
    BY <2>3 DEF InputsInit, InputsInv
<1>2. InputsInv /\ UNCHANGED programVars => InputsInv'
  BY DEF InputsInv, programVars
<1>3. InputsInv /\ PlaceChanges => InputsInv'
  <2> SUFFICES ASSUME InputsInv, PlaceChanges PROVE InputsInv'
    OBVIOUS
  <2>1. PICK p \in InputPlaces, v \in {None, Odd, "value"} : host' = [host EXCEPT !.place[p] = v]
    BY DEF PlaceChanges
  <2> DEFINE q == [host.place EXCEPT ![p] = v]
  <2>2. host' = [host EXCEPT !.place = q] /\ q \in [InputPlaces -> {None, Odd, "value"}]
    BY <2>1 DEF InputsInv, SeedHost
  <2> HIDE DEF q
  <2>3. host' \in SeedHost
    BY <2>2 DEF InputsInv, SeedHost
  <2> QED
    BY <2>3 DEF InputsInv, PlaceChanges
<1> QED
  BY <1>1, <1>2, <1>3, SeederSteps DEF InputsNext

LEMMA InputsAskOwn == InputsInv /\ [InputsNext]_programVars => [AsksOwnFirst]_programVars
<1>1. ASSUME InputsInv, [InputsNext]_programVars, NEW s \in Seeders,
             mem[s] # None, mem[s].step = "collect", mem'[s] # None, mem'[s].step = "ask",
             NEW k \in Inputs, mem'[s].document[k] = "shared"
      PROVE  host.place["own"] = None
  <2>1. CASE mem' = mem
    BY <1>1, <2>1
  <2>2. CASE mem' # mem
    <3>1. PICK t \in Seeders :
            \/ \E replace \in BOOLEAN : StartFill(t, replace)
            \/ \E i \in Inputs : StartSet(t, i)
            \/ CollectInputs(t) \/ AskOwner(t) \/ WriteInputsTemp(t) \/ PlaceFile(t) \/ PlaceFails(t) \/ VerifyFile(t)
            \/ SeederForget(t) \/ SeederDies(t)
      BY <1>1, <2>2 DEF InputsNext, PlaceChanges, programVars
    <3>2. \A r \in Seeders \ {t} : mem'[r] = mem[r]
      BY <1>1, <3>1, SeederSteps
    <3>3. s = t
      BY <1>1, <3>2
    <3>4. mem'[s].document[k] = LiveValue(k)
      BY <1>1, <3>1, <3>3, SeederSteps
    <3> QED
      BY <1>1, <3>4, InputIs
  <2> QED
    BY <2>1, <2>2
<1> QED
  BY <1>1 DEF AsksOwnFirst

\* A value is taken from a shared place only where the input's own place is absent; one that is
\* there and cannot be used sends the question to the owner. For any table of places in which
\* an own place comes first.
THEOREM OwnComesFirst == InputsSpec => OwnPlaceFirst
BY InputsAreInductive, InputsAskOwn, PTL DEF InputsSpec, OwnPlaceFirst

LEMMA InputsOverwrite == InputsInv /\ [InputsNext]_programVars => [OverwritesToldTo]_programVars
<1>1. ASSUME InputsInv, InputsNext, host.file # None, host'.file # host.file
      PROVE  \E s \in Seeders : mem[s] # None /\ mem[s].step = "place" /\ mem[s].replace
  <2>1. CASE PlaceChanges
    <3>1. PICK p \in InputPlaces, v \in {None, Odd, "value"} : host' = [host EXCEPT !.place[p] = v]
      BY <2>1 DEF PlaceChanges
    <3>2. host'.file = host.file
      BY <1>1, <3>1 DEF InputsInv, SeedHost
    <3> QED
      BY <1>1, <3>2
  <2>2. CASE ~PlaceChanges
    <3>1. PICK s \in Seeders :
            \/ \E replace \in BOOLEAN : StartFill(s, replace)
            \/ \E i \in Inputs : StartSet(s, i)
            \/ CollectInputs(s) \/ AskOwner(s) \/ WriteInputsTemp(s) \/ PlaceFile(s) \/ PlaceFails(s) \/ VerifyFile(s)
            \/ SeederForget(s) \/ SeederDies(s)
      BY <1>1, <2>2 DEF InputsNext
    <3> QED
      BY <1>1, <3>1, SeederSteps
  <2> QED
    BY <2>1, <2>2
<1> QED
  BY <1>1 DEF OverwritesToldTo

\* The inputs file that is there is changed by no run but one that was told to replace it, even
\* when it came into being while another's owner was at the prompt: for any number of runs.
THEOREM InputsAreNotOverwritten == InputsSpec => NothingOverwritten
BY InputsAreInductive, InputsOverwrite, PTL DEF InputsSpec, NothingOverwritten

---------------------------------------------------------------------------
(* The queue of CI runs. No change is lost with a run that is cancelled,   *)
(* and no apply that may cost money starts without its owner: for every    *)
(* set of stacks and any number of pushes.                                 *)

RunStatus == {"unplanned", "queued", "waiting", "in_progress", "completed", "cancelled"}
QueueRun == [planned : SUBSET Stack, plan : [Stack -> RunStatus], apply : [Stack -> RunStatus], lost : SUBSET Stack,
             environment : [Stack -> {None, "production", "production-free"}],
             paid : SUBSET Stack, unread : SUBSET Stack]
QueueReader == [todo : SUBSET Nat, cancel : Nat \cup {None}]

QueueTyped == /\ at = <<"queue", "open">> /\ faults \in Nat
              /\ host \in Seq(QueueRun) /\ mem \in Seq(QueueReader) /\ Len(mem) = Len(host)

\* What is left to do of a run.
Left(h) == {s \in Stack : h.apply[s] \notin {"unplanned", "completed", "cancelled"}}

\* A stack that is still to be planned is still to be applied; one that may cost money waits for
\* its owner.
Orderly(h) == /\ \A s \in Stack : h.plan[s] \in {"queued", "in_progress"} => h.apply[s] = "queued"
              /\ \A s \in h.paid : h.apply[s] = "waiting" /\ h.environment[s] = "production"
              /\ h.unread = {}

\* What a run is about to cancel is older, and has nothing left that this run did not plan.
Covers(r) == /\ mem[r].todo \subseteq 1..(r - 1)
             /\ mem[r].cancel # None => /\ mem[r].cancel \in 1..(r - 1)
                                        /\ Left(host[mem[r].cancel]) \subseteq host[r].planned

QueueInv == /\ QueueTyped
            /\ \A r \in 1..Len(host) : Orderly(host[r]) /\ Covers(r)
            /\ CancelledIsCovered

---------------------------------------------------------------------------
\* How one run changes, whatever step it takes: it keeps what was planned and gains nothing to do.
Becomes(h, k) == k \in QueueRun /\ Orderly(k) /\ k.planned = h.planned /\ Left(k) \subseteq Left(h)

LEMMA IncompleteIsLeft == ASSUME NEW o PROVE Incomplete(o) = Left(host[o])
BY DEF Incomplete, Left

\* A step that changes one run, and cancels nothing, and one reader that goes on covering.
LEMMA OneRunGoesOn ==
  ASSUME QueueInv, NEW r \in 1..Len(host), NEW k, NEW n,
         Becomes(host[r], k), k.lost = host[r].lost, host' = [host EXCEPT ![r] = k],
         n \in QueueReader, mem' = [mem EXCEPT ![r] = n],
         n.todo \subseteq 1..(r - 1), n.cancel # None => n.cancel \in 1..(r - 1) /\ Left(host[n.cancel]) \subseteq host[r].planned,
         UNCHANGED <<at, faults>>
  PROVE  QueueInv'
<1>1. QueueTyped'
  BY ExceptSeq DEF QueueInv, QueueTyped, Becomes
<1>2. Len(host') = Len(host) /\ Len(mem') = Len(mem)
  BY ExceptSeq DEF QueueInv, QueueTyped, Becomes
<1>3. \A q \in 1..Len(host) : host'[q] = (IF q = r THEN k ELSE host[q])
  BY DEF QueueInv, QueueTyped
<1>4. \A q \in 1..Len(host) : mem'[q] = (IF q = r THEN n ELSE mem[q])
  BY DEF QueueInv, QueueTyped
<1>5. \A q \in 1..Len(host) : /\ host'[q].planned = host[q].planned /\ host'[q].lost = host[q].lost
                              /\ Left(host'[q]) \subseteq Left(host[q]) /\ Orderly(host'[q])
  BY <1>3 DEF Becomes, QueueInv
<1>6. \A q \in 1..Len(host) : Covers(q)'
  <2> SUFFICES ASSUME NEW q \in 1..Len(host) PROVE Covers(q)'
    OBVIOUS
  <2>1. /\ mem'[q].todo \subseteq 1..(q - 1)
        /\ mem'[q].cancel # None => mem'[q].cancel \in 1..(q - 1) /\ Left(host[mem'[q].cancel]) \subseteq host[q].planned
    BY <1>4 DEF QueueInv, Covers
  <2>2. mem'[q].cancel # None => mem'[q].cancel \in 1..Len(host)
    BY <2>1 DEF QueueInv, QueueTyped
  <2> QED
    BY <1>5, <2>1, <2>2 DEF Covers
<1>7. CancelledIsCovered'
  <2> SUFFICES ASSUME NEW q \in 1..Len(host), NEW s \in host'[q].lost
      PROVE  \E m \in (q + 1)..Len(host) : s \in host'[m].planned /\ s \notin host'[m].lost
    BY <1>2 DEF CancelledIsCovered
  <2>1. PICK m \in (q + 1)..Len(host) : s \in host[m].planned /\ s \notin host[m].lost
    BY <1>5 DEF QueueInv, QueueTyped, CancelledIsCovered
  <2>2. m \in 1..Len(host)
    BY DEF QueueInv, QueueTyped
  <2> QED
    BY <1>5, <2>1, <2>2
<1> QED
  BY <1>1, <1>2, <1>5, <1>6, <1>7 DEF QueueInv

LEMMA PushKeeps == ASSUME QueueInv, Push PROVE QueueInv'
<1>1. PICK planned \in SUBSET Stack \ {{}} :
        /\ QueueStep
        /\ host' = Append(host, [planned |-> planned,
                       plan |-> [s \in Stack |-> IF s \in planned THEN "queued" ELSE "unplanned"],
                       apply |-> [s \in Stack |-> IF s \in planned THEN "queued" ELSE "unplanned"], lost |-> {},
                       environment |-> [s \in Stack |-> None], paid |-> {}, unread |-> {}])
        /\ mem' = Append(mem, NoRead)
  BY DEF Push
<1> DEFINE new == [planned |-> planned, plan |-> [s \in Stack |-> IF s \in planned THEN "queued" ELSE "unplanned"],
                  apply |-> [s \in Stack |-> IF s \in planned THEN "queued" ELSE "unplanned"], lost |-> {},
                  environment |-> [s \in Stack |-> None], paid |-> {}, unread |-> {}]
           last == Len(host) + 1
<1>2. new \in QueueRun /\ NoRead \in QueueReader
  BY DEF QueueRun, RunStatus, QueueReader, NoRead
<1>3. QueueTyped' /\ Len(host') = last /\ Len(mem') = last
  BY <1>1, <1>2, AppendProperties DEF QueueInv, QueueTyped, QueueStep
<1>4. /\ \A q \in 1..Len(host) : host'[q] = host[q] /\ mem'[q] = mem[q]
      /\ host'[last] = new /\ mem'[last] = NoRead
  BY <1>1, <1>2, AppendProperties DEF QueueInv, QueueTyped
<1>5. Orderly(new)
  BY DEF Orderly
<1>6. \A q \in 1..Len(host') : Orderly(host'[q])
  BY <1>3, <1>4, <1>5 DEF QueueInv, QueueTyped
<1>7. \A q \in 1..Len(host') : Covers(q)'
  <2> SUFFICES ASSUME NEW q \in 1..Len(host') PROVE Covers(q)'
    OBVIOUS
  <2>1. CASE q = last
    BY <1>4, <2>1 DEF Covers, NoRead
  <2>2. CASE q \in 1..Len(host)
    <3>1. Covers(q) /\ (mem[q].cancel # None => mem[q].cancel \in 1..Len(host))
      BY <2>2 DEF QueueInv, Covers, QueueTyped
    <3> QED
      BY <1>4, <2>2, <3>1 DEF Covers
  <2> QED
    BY <1>3, <2>1, <2>2 DEF QueueInv, QueueTyped
<1>8. CancelledIsCovered'
  <2> SUFFICES ASSUME NEW r \in 1..Len(host'), NEW s \in host'[r].lost
               PROVE  \E n \in (r + 1)..Len(host') : s \in host'[n].planned /\ s \notin host'[n].lost
    BY DEF CancelledIsCovered
  <2>1. r \in 1..Len(host) /\ s \in host[r].lost
    BY <1>3, <1>4 DEF QueueInv, QueueTyped
  <2>2. PICK n \in (r + 1)..Len(host) : s \in host[n].planned /\ s \notin host[n].lost
    BY <2>1 DEF QueueInv, QueueTyped, CancelledIsCovered
  <2>3. n \in 1..Len(host) /\ n \in (r + 1)..Len(host')
    BY <1>3, <2>1 DEF QueueInv, QueueTyped
  <2> QED
    BY <1>4, <2>2, <2>3
<1> QED
  BY <1>3, <1>6, <1>7, <1>8 DEF QueueInv

LEMMA StartPlanKeeps == ASSUME QueueInv, NEW r \in 1..Len(host), StartPlan(r) PROVE QueueInv'
<1>1. PICK s \in Stack :
        /\ QueueStep /\ host[r].plan[s] = "queued"
        /\ host' = [host EXCEPT ![r].plan[s] = "in_progress"]
        /\ mem' = [mem EXCEPT ![r].todo = {o \in 1..(r - 1) : Waiting(o)}]
  BY DEF StartPlan
<1> DEFINE k == [host[r] EXCEPT !.plan[s] = "in_progress"]
           n == [mem[r] EXCEPT !.todo = {o \in 1..(r - 1) : Waiting(o)}]
<1>2. host[r] \in QueueRun /\ Orderly(host[r]) /\ mem[r] \in QueueReader /\ Covers(r)
  BY DEF QueueInv, QueueTyped
<1>3. host' = [host EXCEPT ![r] = k] /\ mem' = [mem EXCEPT ![r] = n]
  BY <1>1
<1>4. k.lost = host[r].lost /\ k \in QueueRun /\ Orderly(k) /\ k.planned = host[r].planned /\ Left(k) \subseteq Left(host[r])
  BY <1>1, <1>2 DEF QueueRun, RunStatus, Orderly, Left
<1>5. n \in QueueReader /\ n.todo \subseteq 1..(r - 1) /\ n.cancel = mem[r].cancel
  BY <1>2 DEF QueueReader
<1> QED
  BY <1>1, <1>2, <1>3, <1>4, <1>5, OneRunGoesOn DEF Becomes, Covers, QueueStep

LEMMA PlanEndsKeeps == ASSUME QueueInv, NEW r \in 1..Len(host), PlanEnds(r) PROVE QueueInv'
<1>1. PICK s \in Stack, evidence \in SUBSET {"preview", "guard", "free", "ready"}, changes \in BOOLEAN :
        /\ QueueStep /\ host[r].plan[s] = "in_progress" /\ UNCHANGED mem
        /\ host' = [host EXCEPT ![r] = Planned(@, s, {"preview", "guard"} \subseteq evidence /\ changes,
                                               Choose(evidence), "free" \notin evidence)]
  BY DEF PlanEnds
<1> DEFINE waits == {"preview", "guard"} \subseteq evidence /\ changes
           k == Planned(host[r], s, waits, Choose(evidence), "free" \notin evidence)
<1>2. host[r] \in QueueRun /\ Orderly(host[r]) /\ mem[r] \in QueueReader /\ Covers(r)
  BY DEF QueueInv, QueueTyped
<1>3. host' = [host EXCEPT ![r] = k] /\ mem' = [mem EXCEPT ![r] = mem[r]]
  BY <1>1 DEF QueueInv, QueueTyped
<1>4. /\ Choose(evidence) \in {"production", "production-free"}
      /\ "free" \notin evidence => Choose(evidence) = "production"
  BY DEF Choose
<1>5. host[r].apply[s] = "queued"
  BY <1>1, <1>2 DEF Orderly
<1>6. k \in QueueRun /\ k.lost = host[r].lost /\ k.planned = host[r].planned
  BY <1>2, <1>4 DEF QueueRun, RunStatus, Planned
<1>7. \A t \in Stack : /\ k.plan[t] = (IF t = s THEN "completed" ELSE host[r].plan[t])
                       /\ k.apply[t] = (IF t # s THEN host[r].apply[t] ELSE IF waits THEN "waiting" ELSE "completed")
                       /\ k.environment[t] = (IF t # s THEN host[r].environment[t] ELSE IF waits THEN Choose(evidence) ELSE None)
  BY <1>2 DEF QueueRun, Planned
<1>8. \A t \in k.paid : t \in Stack /\ (t # s => t \in host[r].paid) /\ (t = s => waits /\ "free" \notin evidence)
  BY <1>2, <1>5 DEF QueueRun, Orderly, Planned
<1>9. k.unread = {}
  BY <1>2 DEF QueueRun, Orderly, Planned
<1>10. Orderly(k)
  BY <1>2, <1>4, <1>7, <1>8, <1>9 DEF Orderly
<1>11. Left(k) \subseteq Left(host[r])
  BY <1>5, <1>7 DEF Left
<1> QED
  BY <1>1, <1>2, <1>3, <1>6, <1>10, <1>11, OneRunGoesOn DEF Becomes, Covers, QueueStep

LEMMA ApproveKeeps ==
  ASSUME QueueInv, NEW r \in 1..Len(host), NEW environment \in {"production", "production-free"}, Approve(r, environment)
  PROVE  QueueInv'
<1> DEFINE released == {s \in Stack : host[r].apply[s] = "waiting" /\ host[r].environment[s] = environment}
           k == [host[r] EXCEPT !.apply = [s \in Stack |-> IF s \in released THEN "in_progress" ELSE @[s]],
                                !.environment = [s \in Stack |-> IF s \in released THEN None ELSE @[s]], !.paid = @ \ released,
                                !.unread = IF environment = "production" THEN @ ELSE @ \cup (host[r].paid \cap released)]
<1>1. QueueStep /\ UNCHANGED mem /\ host' = [host EXCEPT ![r] = k]
  BY DEF Approve
<1>2. host[r] \in QueueRun /\ Orderly(host[r]) /\ mem[r] \in QueueReader /\ Covers(r)
  BY DEF QueueInv, QueueTyped
<1>3. mem' = [mem EXCEPT ![r] = mem[r]]
  BY <1>1 DEF QueueInv, QueueTyped
<1>4. environment # "production" => host[r].paid \cap released = {}
  BY <1>2 DEF Orderly
<1>5. k \in QueueRun /\ k.lost = host[r].lost /\ k.planned = host[r].planned /\ k.plan = host[r].plan
  BY <1>2 DEF QueueRun, RunStatus
<1>6. \A t \in Stack : /\ k.apply[t] = (IF t \in released THEN "in_progress" ELSE host[r].apply[t])
                       /\ k.environment[t] = (IF t \in released THEN None ELSE host[r].environment[t])
  BY <1>2 DEF QueueRun
<1>7. k.paid = host[r].paid \ released /\ k.unread = {}
  BY <1>2, <1>4 DEF QueueRun, Orderly
<1>8. \A t \in released : host[r].apply[t] = "waiting"
  OBVIOUS
<1>9. Orderly(k)
  BY <1>2, <1>5, <1>6, <1>7, <1>8 DEF Orderly, QueueRun
<1>10. Left(k) \subseteq Left(host[r])
  BY <1>6, <1>8 DEF Left
<1> QED
  BY <1>1, <1>2, <1>3, <1>5, <1>9, <1>10, OneRunGoesOn DEF Becomes, Covers, QueueStep

LEMMA ApplyEndsKeeps == ASSUME QueueInv, NEW r \in 1..Len(host), ApplyEnds(r) PROVE QueueInv'
<1>1. PICK s \in Stack : QueueStep /\ host[r].apply[s] = "in_progress" /\ host' = Sets(r, s, "completed") /\ UNCHANGED mem
  BY DEF ApplyEnds
<1> DEFINE k == [host[r] EXCEPT !.apply[s] = "completed"]
<1>2. host[r] \in QueueRun /\ Orderly(host[r]) /\ mem[r] \in QueueReader /\ Covers(r)
  BY DEF QueueInv, QueueTyped
<1>3. host' = [host EXCEPT ![r] = k] /\ mem' = [mem EXCEPT ![r] = mem[r]]
  BY <1>1 DEF QueueInv, QueueTyped, Sets
<1>4. k \in QueueRun /\ k = [host[r] EXCEPT !.apply = k.apply] /\ \A t \in Stack : k.apply[t] = (IF t = s THEN "completed" ELSE host[r].apply[t])
  BY <1>2 DEF QueueRun, RunStatus
<1>5. k.lost = host[r].lost /\ k.planned = host[r].planned /\ Orderly(k) /\ Left(k) \subseteq Left(host[r])
  BY <1>1, <1>2, <1>4 DEF QueueRun, Orderly, Left
<1> QED
  BY <1>1, <1>2, <1>3, <1>4, <1>5, OneRunGoesOn DEF Becomes, Covers, QueueStep

LEMMA ReadJobsKeeps == ASSUME QueueInv, NEW r \in 1..Len(host), ReadJobs(r) PROVE QueueInv'
<1>1. PICK o \in mem[r].todo :
        /\ QueueStep /\ mem[r].cancel = None /\ UNCHANGED host
        /\ mem' = [mem EXCEPT ![r] = [todo |-> @.todo \ {o}, cancel |-> IF Superseded(o, host[r].planned) THEN o ELSE None]]
  BY DEF ReadJobs
<1> DEFINE n == [todo |-> mem[r].todo \ {o}, cancel |-> IF Superseded(o, host[r].planned) THEN o ELSE None]
<1>2. host[r] \in QueueRun /\ Orderly(host[r]) /\ mem[r] \in QueueReader /\ Covers(r)
  BY DEF QueueInv, QueueTyped
<1>3. host' = [host EXCEPT ![r] = host[r]] /\ mem' = [mem EXCEPT ![r] = n]
  BY <1>1 DEF QueueInv, QueueTyped
<1>4. o \in 1..(r - 1) /\ n \in QueueReader /\ n.todo \subseteq 1..(r - 1)
  BY <1>2 DEF Covers, QueueReader
<1>5. n.cancel # None => n.cancel = o /\ Left(host[o]) \subseteq host[r].planned
  BY IncompleteIsLeft DEF Superseded
<1>6. Becomes(host[r], host[r])
  BY <1>2 DEF Becomes
<1>7. n.cancel # None => n.cancel \in 1..(r - 1) /\ Left(host[n.cancel]) \subseteq host[r].planned
  BY <1>4, <1>5
<1>8. UNCHANGED <<at, faults>>
  BY <1>1 DEF QueueStep
<1> HIDE DEF n
<1> QED
  BY <1>3, <1>4, <1>6, <1>7, <1>8, OneRunGoesOn

\* The run that is cancelled loses what it had left, all of which the one that cancels it planned:
\* that run, or the newer one that its own loss is in, has it.
LEMMA CancelRunKeeps == ASSUME QueueInv, NEW r \in 1..Len(host), CancelRun(r) PROVE QueueInv'
<1> DEFINE o == mem[r].cancel
           open == Incomplete(o)
           n == IF open = {} THEN NoRead ELSE [mem[r] EXCEPT !.cancel = None]
           k == [host[o] EXCEPT !.apply = [s \in Stack |-> IF s \in open THEN "cancelled" ELSE @[s]],
                                !.plan = [s \in Stack |-> IF @[s] \in {"queued", "in_progress"} THEN "cancelled" ELSE @[s]],
                                !.lost = @ \cup open, !.paid = @ \ open, !.environment = [s \in Stack |-> None]]
<1>1. QueueStep /\ o # None /\ mem' = [mem EXCEPT ![r] = n] /\ host' = IF open = {} THEN host ELSE [host EXCEPT ![o] = k]
  BY DEF CancelRun
<1>2. /\ host[r] \in QueueRun /\ Orderly(host[r]) /\ mem[r] \in QueueReader /\ Covers(r)
      /\ o \in 1..(r - 1) /\ o \in 1..Len(host) /\ open = Left(host[o]) /\ open \subseteq host[r].planned
  BY <1>1, IncompleteIsLeft DEF QueueInv, QueueTyped, Covers
<1>3. host[o] \in QueueRun /\ Orderly(host[o])
  BY <1>2 DEF QueueInv, QueueTyped
<1>4. n \in QueueReader /\ n.todo \subseteq 1..(r - 1) /\ n.cancel = None
  BY <1>2 DEF QueueReader, NoRead, Covers
<1>5. CASE open = {}
  <2>1. host' = [host EXCEPT ![r] = host[r]]
    BY <1>1, <1>5 DEF QueueInv, QueueTyped
  <2> HIDE DEF n
  <2> QED
    BY <1>1, <1>2, <1>4, <2>1, OneRunGoesOn DEF Becomes, QueueStep
<1>6. CASE open # {}
  <2>1. open \subseteq Stack /\ \A t \in Stack : host[o].apply[t] \in {"waiting", "queued"} => t \in open
    BY <1>2 DEF Left
  <2>2. k \in QueueRun
    BY <1>3, <2>1 DEF QueueRun, RunStatus
  <2>3. /\ \A t \in Stack : /\ k.apply[t] = (IF t \in open THEN "cancelled" ELSE host[o].apply[t])
                          /\ k.plan[t] \notin {"queued", "in_progress"}
      /\ k.paid = host[o].paid \ open /\ k.unread = host[o].unread /\ k.planned = host[o].planned
      /\ k.lost = host[o].lost \cup open
    BY <1>3, <2>1 DEF QueueRun
  <2>4. host[o].paid \subseteq open
    BY <1>3, <2>1 DEF QueueRun, Orderly
  <2>5. Orderly(k)
    BY <1>3, <2>3, <2>4 DEF Orderly
  <2>6. Left(k) \subseteq Left(host[o])
    BY <2>3 DEF Left
  <2> HIDE DEF k, n
  <2>7. QueueTyped' /\ Len(host') = Len(host)
    BY <1>1, <1>2, <1>4, <1>6, <2>2, ExceptSeq DEF QueueInv, QueueTyped, QueueStep
  <2>8. \A q \in 1..Len(host) : /\ host'[q] = (IF q = o THEN k ELSE host[q])
                                /\ mem'[q] = (IF q = r THEN n ELSE mem[q])
    BY <1>1, <1>6 DEF QueueInv, QueueTyped
  <2>9. \A q \in 1..Len(host) : /\ Orderly(host'[q]) /\ host'[q].planned = host[q].planned
                                /\ Left(host'[q]) \subseteq Left(host[q])
    BY <2>3, <2>5, <2>6, <2>8 DEF QueueInv
  <2>10. \A q \in 1..Len(host) : Covers(q)'
    <3> SUFFICES ASSUME NEW q \in 1..Len(host) PROVE Covers(q)'
      OBVIOUS
    <3>1. CASE q = r
      BY <1>4, <2>8, <3>1 DEF Covers
    <3>2. CASE q # r
      <4>1. mem'[q] = mem[q] /\ Covers(q)
        BY <2>8, <3>2 DEF QueueInv
      <4>2. mem[q].cancel # None => mem[q].cancel \in 1..Len(host)
        BY <4>1 DEF Covers, QueueInv, QueueTyped
      <4> QED
        BY <2>9, <4>1, <4>2 DEF Covers
    <3> QED
      BY <3>1, <3>2
  <2>11. CancelledIsCovered'
    <3>1. /\ r \in (o + 1)..Len(host)
          /\ \A q \in 1..Len(host), t \in Stack : q # o => (t \in host'[q].lost <=> t \in host[q].lost)
          /\ host'[o].lost = host[o].lost \cup open
      BY <1>2, <2>3, <2>8 DEF QueueInv, QueueTyped
    <3>2. \A t \in open : \E q \in (o + 1)..Len(host) : t \in host'[q].planned /\ t \notin host'[q].lost
      <4> SUFFICES ASSUME NEW t \in open
                   PROVE  \E q \in (o + 1)..Len(host) : t \in host'[q].planned /\ t \notin host'[q].lost
        OBVIOUS
      <4>1. t \in Stack /\ t \in host[r].planned
        BY <1>2, <2>1
      <4>2. CASE t \notin host[r].lost
        <5>1. r # o /\ t \in host'[r].planned /\ t \notin host'[r].lost
          BY <1>2, <2>9, <3>1, <4>1, <4>2
        <5> QED
          BY <3>1, <5>1
      <4>3. CASE t \in host[r].lost
        <5>1. PICK q \in (r + 1)..Len(host) : t \in host[q].planned /\ t \notin host[q].lost
          BY <4>3 DEF QueueInv, QueueTyped, CancelledIsCovered
        <5>2. q \in (o + 1)..Len(host) /\ q \in 1..Len(host) /\ q # o
          BY <1>2, <5>1 DEF QueueInv, QueueTyped
        <5> QED
          BY <2>9, <3>1, <4>1, <5>1, <5>2
      <4> QED
        BY <4>2, <4>3
    <3>3. \A q \in 1..Len(host) : \A t \in host[q].lost :
            \E p \in (q + 1)..Len(host) : t \in host'[p].planned /\ t \notin host'[p].lost
      <4> SUFFICES ASSUME NEW q \in 1..Len(host), NEW t \in host[q].lost
                   PROVE  \E p \in (q + 1)..Len(host) : t \in host'[p].planned /\ t \notin host'[p].lost
        OBVIOUS
      <4>1. PICK p \in (q + 1)..Len(host) : t \in host[p].planned /\ t \notin host[p].lost
        BY DEF QueueInv, QueueTyped, CancelledIsCovered
      <4>2. t \in Stack /\ p \in 1..Len(host)
        <5>1. p \in 1..Len(host)
          BY <4>1 DEF QueueInv, QueueTyped
        <5>2. host[q] \in QueueRun
          BY DEF QueueInv, QueueTyped
        <5>3. t \in Stack
          BY <5>2 DEF QueueRun
        <5> QED
          BY <5>1, <5>3
      <4>3. CASE p # o \/ t \notin open
        <5>1. t \notin host'[p].lost
          BY <3>1, <4>1, <4>2, <4>3
        <5> QED
          BY <2>9, <4>1, <4>2, <5>1
      <4>4. CASE p = o /\ t \in open
        <5>1. PICK m \in (o + 1)..Len(host) : t \in host'[m].planned /\ t \notin host'[m].lost
          BY <3>2, <4>4
        <5>2. m \in (q + 1)..Len(host)
          BY <1>2, <4>1, <4>4, <5>1 DEF QueueInv, QueueTyped
        <5> QED
          BY <5>1, <5>2
      <4> QED
        BY <4>3, <4>4
    <3>4. \A q \in 1..Len(host) : host'[q].lost \subseteq host[q].lost \cup (IF q = o THEN open ELSE {})
      BY <2>3, <2>8
    <3> QED
      BY <2>7, <3>2, <3>3, <3>4 DEF CancelledIsCovered
  <2> QED
    BY <2>7, <2>9, <2>10, <2>11 DEF QueueInv
<1> QED
  BY <1>5, <1>6

---------------------------------------------------------------------------
LEMMA QueueIsInductive ==
  /\ QueueInit => QueueInv
  /\ QueueInv /\ [QueueNext]_programVars => QueueInv'
  /\ QueueInv => QueueHolds
<1>1. QueueInit => QueueInv
  BY EmptySeq DEF QueueInit, QueueInv, QueueTyped, CancelledIsCovered
<1>2. QueueInv /\ [QueueNext]_programVars => QueueInv'
  <2> SUFFICES ASSUME QueueInv, [QueueNext]_programVars PROVE QueueInv'
    OBVIOUS
  <2>1. CASE UNCHANGED programVars
    BY <2>1 DEF programVars, QueueInv, QueueTyped, Orderly, Covers, CancelledIsCovered, Left
  <2>2. CASE Push
    BY <2>2, PushKeeps
  <2>3. ASSUME NEW r \in 1..Len(host), RunNext(r) PROVE QueueInv'
    BY <2>3, StartPlanKeeps, PlanEndsKeeps, ApproveKeeps, ApplyEndsKeeps, ReadJobsKeeps, CancelRunKeeps DEF RunNext
  <2> QED
    BY <2>1, <2>2, <2>3 DEF QueueNext
<1>3. QueueInv => QueueHolds
  BY DEF QueueInv, QueueHolds, PaidNeedsOwner, Orderly
<1> QED
  BY <1>1, <1>2, <1>3

\* Whatever order the runs of ci.yml read, approve and cancel in, a change whose apply was
\* cancelled is in the plan of a newer run that was not, and an apply that may cost money waits
\* for its owner: for every set of stacks and any number of pushes.
THEOREM NothingIsLost == QueueSpec => []QueueHolds
BY QueueIsInductive, PTL DEF QueueSpec

---------------------------------------------------------------------------
(* The programs side by side. A program acts only where it stands, so a    *)
(* step of another changes nothing its invariant is about, and what a      *)
(* module's theorem says holds of the whole.                               *)

\* A step of a program is taken where that program stands.
LEMMA InstallTurns == (RuntimeNext => at[1] = "runtime") /\ (GrowLock => at[1] = "lock")
<1>1. ASSUME NEW from, NEW to, At("runtime", from) \/ Act("runtime", from, to) PROVE at[1] = "runtime"
  BY <1>1 DEF Act, At
<1>2. StartInstall \/ ReadLock \/ CheckRoot \/ InstallLock => at[1] = "runtime"
  BY <1>1 DEF StartInstall, ReadLock, CheckRoot, InstallLock, PipInstalls
<1>3. MakeVenv => at[1] = "runtime"
  BY <1>1 DEF MakeVenv, VenvIsMade
<1>4. MarkInstalled \/ PointLink \/ RuntimeForget => at[1] = "runtime"
  BY <1>1 DEF MarkInstalled, PointLink, RuntimeForget
<1>5. RuntimeDies => at[1] = "runtime"
  BY DEF RuntimeDies
<1>6. GrowLock => at[1] = "lock"
  BY DEF GrowLock, Act, At
<1> QED
  BY <1>2, <1>3, <1>4, <1>5, <1>6 DEF RuntimeNext

LEMMA BootTurns == (BootNext => at[1] = "boot") /\ (GrowVariables => at[1] = "fill")
<1>1. ASSUME NEW from, NEW to, At("boot", from) \/ Act("boot", from, to) PROVE at[1] = "boot"
  BY <1>1 DEF Act, At
<1>2. StartBoot \/ BootForget => at[1] = "boot"
  BY <1>1 DEF StartBoot, BootForget
<1>3. RefuseShallow \/ FetchMain \/ CheckedOutTip => at[1] = "boot"
  BY <1>1 DEF RefuseShallow, FetchMain, CheckedOutTip
<1>4. BuildRecord \/ VerifyRecord \/ EditRecord => at[1] = "boot"
  BY <1>1 DEF BuildRecord, VerifyRecord, EditRecord
<1>5. CommitToMain => at[1] = "boot"
  BY DEF CommitToMain
<1>6. GrowVariables => at[1] = "fill"
  BY DEF GrowVariables, Act, At
<1> QED
  BY <1>2, <1>3, <1>4, <1>5, <1>6 DEF BootNext

LEMMA MailTurns == (MailNext => at[1] = "mail") /\ (ClearBlocked => at[1] = "unblock")
<1>1. ASSUME NEW from, NEW to, At("mail", from) \/ Act("mail", from, to) PROVE at[1] = "mail"
  BY <1>1 DEF Act, At
<1>2. StartConfigure \/ RunAgain \/ MailForget \/ StartRotation => at[1] = "mail"
  BY <1>1 DEF StartConfigure, RunAgain, MailForget, StartRotation
<1>3. ProbeWizard \/ CompleteWizard \/ RestartFromWizard => at[1] = "mail"
  BY <1>1 DEF ProbeWizard, CompleteWizard, RestartFromWizard
<1>4. SaveCredential => at[1] = "mail"
  BY <1>1 DEF SaveCredential, MailGoes
<1>5. ReconcileSetting \/ RestartIfChanged \/ ChangeSecret \/ VerifyRotation \/ MailDrifts => at[1] = "mail"
  BY <1>1 DEF ReconcileSetting, RestartIfChanged, ChangeSecret, VerifyRotation, MailDrifts
<1>6. MailDies => at[1] = "mail"
  BY DEF MailDies
<1>7. ClearBlocked => at[1] = "unblock"
  BY DEF ClearBlocked, Act, At
<1> QED
  BY <1>2, <1>3, <1>4, <1>5, <1>6, <1>7 DEF MailNext

LEMMA CredentialTurns ==
  (SubmitNext => at[1] = "submit") /\ (ShimNext => at[1] = "shim") /\ (ScopeNext => at[1] = "scope")
<1>1. SubmitNext => at[1] = "submit"
  <2>1. ASSUME NEW from, NEW to, At("submit", from) \/ Act("submit", from, to) PROVE at[1] = "submit"
    BY <2>1 DEF Act, At
  <2>2. StartSubmission \/ StartRevoke \/ RecordSecret \/ SubmitForget => at[1] = "submit"
    BY <2>1 DEF StartSubmission, StartRevoke, RecordSecret, SubmitForget
  <2>3. SetSenderDomains \/ SetMustMatch => at[1] = "submit"
    BY <2>1 DEF SetSenderDomains, SetMustMatch, StoreRule
  <2>4. PlanSubmission \/ RestartToLoad \/ CreateAccount \/ CreatePassword => at[1] = "submit"
    BY <2>1 DEF PlanSubmission, RestartToLoad, CreateAccount, CreatePassword
  <2>5. CheckStored \/ DestroyPassword \/ DestroyByHand => at[1] = "submit"
    BY <2>1 DEF CheckStored, DestroyPassword, DestroyByHand
  <2>6. RemoveRecord => at[1] = "submit"
    BY <2>1 DEF RemoveRecord, SubmitEnds
  <2>7. SubmitDies => at[1] = "submit"
    BY DEF SubmitDies
  <2> QED
    BY <2>2, <2>3, <2>4, <2>5, <2>6, <2>7 DEF SubmitNext
<1>2. ShimNext => at[1] = "shim"
  <2>1. ASSUME NEW from, NEW to, At("shim", from) \/ Act("shim", from, to) PROVE at[1] = "shim"
    BY <2>1 DEF Act, At
  <2>2. PinImage \/ ReadSecret \/ ShimForget => at[1] = "shim"
    BY <2>1 DEF PinImage, ReadSecret, ShimForget
  <2>3. WriteEnv => at[1] = "shim"
    BY <2>1 DEF WriteEnv, ShimEnds
  <2>4. ShimDies => at[1] = "shim"
    BY DEF ShimDies
  <2> QED
    BY <2>2, <2>3, <2>4 DEF ShimNext
<1>3. ScopeNext => at[1] = "scope"
  BY DEF ScopeNext, OfferInScope, DeliverInScope, OfferMainDomain, Act, At
<1> QED
  BY <1>1, <1>2, <1>3

LEMMA AccountTurns == (BoxNext => at[1] = "boxes") /\ (SendingNext => at[1] = "sending")
<1>1. BoxNext => at[1] = "boxes"
  <2>1. ASSUME NEW from, NEW to, At("boxes", from) \/ Act("boxes", from, to) PROVE at[1] = "boxes"
    BY <2>1 DEF Act, At
  <2>2. StartBoxes \/ BoxesForget \/ BoxesDone \/ BoxesCreated => at[1] = "boxes"
    BY <2>1 DEF StartBoxes, BoxesForget, BoxesDone, BoxesCreated
  <2>3. SkipAccount \/ RecordBoxSecret => at[1] = "boxes"
    BY <2>1 DEF SkipAccount, RecordBoxSecret
  <2>4. CreateBox \/ ReconcileScript \/ ScriptEdited => at[1] = "boxes"
    BY <2>1 DEF CreateBox, ReconcileScript, ScriptEdited
  <2>5. BoxesDie => at[1] = "boxes"
    BY DEF BoxesDie
  <2> QED
    BY <2>2, <2>3, <2>4, <2>5 DEF BoxNext
<1>2. SendingNext => at[1] = "sending"
  <2>1. ASSUME NEW from, NEW to, At("sending", from) \/ Act("sending", from, to) PROVE at[1] = "sending"
    BY <2>1 DEF Act, At
  <2> QED
    BY <2>1 DEF SendingNext, PlanSending, SetDomain, ReadBackKey, SendingForget
<1> QED
  BY <1>1, <1>2

\* What the programs of each module have in common with the others: nothing, but their names.
InstallInv == RuntimeInv \/ LockTyped
BootstrapInv == BootInv \/ at = <<"fill", "grow">>
ServerInv == AdminInv \/ UnblockInv
CredentialInv == SubmitInv \/ ShimInv \/ ScopeInv
AccountInv == BoxInv \/ SendingInv

LEMMA InstallIsInductive ==
  /\ RuntimeInit \/ LockInit => InstallInv
  /\ InstallInv /\ [RuntimeNext \/ GrowLock]_programVars => InstallInv'
<1>1. (RuntimeInv => at[1] = "runtime") /\ (LockTyped => at[1] = "lock")
  BY DEF RuntimeInv, LockTyped
<1> QED
  BY <1>1, RuntimeIsInductive, LockIsTyped, InstallTurns DEF InstallInv

LEMMA BootstrapIsInductive ==
  /\ BootInit \/ FillInit => BootstrapInv
  /\ BootstrapInv /\ [BootNext \/ GrowVariables]_programVars => BootstrapInv'
<1>1. FillInit => at = <<"fill", "grow">>
  BY DEF FillInit
<1>2. BootInv => at[1] = "boot"
  BY DEF BootInv
<1>3. ASSUME at = <<"fill", "grow">>, GrowVariables \/ UNCHANGED programVars PROVE at' = <<"fill", "grow">>
  BY <1>3 DEF GrowVariables, Act, Goto, programVars
<1>4. at = <<"fill", "grow">> => at[1] = "fill"
  OBVIOUS
<1> QED
  BY <1>1, <1>2, <1>3, <1>4, BootIsInductive, BootTurns DEF BootstrapInv

LEMMA ServerIsInductive ==
  /\ MailInit \/ UnblockInit => ServerInv
  /\ ServerInv /\ [MailNext \/ ClearBlocked]_programVars => ServerInv'
<1>1. (AdminInv => at[1] = "mail") /\ (UnblockInv => at[1] = "unblock")
  BY DEF AdminInv, UnblockInv
<1> QED
  BY <1>1, AdminIsInductive, UnblockIsInductive, MailTurns DEF ServerInv

LEMMA CredentialIsInductive ==
  /\ SubmissionInit \/ ShimInit \/ ScopeInit => CredentialInv
  /\ CredentialInv /\ [SubmitNext \/ ShimNext \/ ScopeNext]_programVars => CredentialInv'
<1>1. (SubmitInv => at[1] = "submit") /\ (ShimInv => at[1] = "shim") /\ (ScopeInv => at[1] = "scope")
  BY DEF SubmitInv, SubmitTyped, ShimInv, ScopeInv
<1> QED
  BY <1>1, SubmissionIsInductive, ShimIsInductive, ScopeIsInductive, CredentialTurns DEF CredentialInv

LEMMA AccountIsInductive ==
  /\ BoxInit \/ SendingInit => AccountInv
  /\ AccountInv /\ [BoxNext \/ SendingNext]_programVars => AccountInv'
<1>1. (BoxInv => at[1] = "boxes") /\ (SendingInv => at[1] = "sending")
  BY DEF BoxInv, SendingInv
<1> QED
  BY <1>1, BoxIsInductive, SendingIsInductive, AccountTurns DEF AccountInv


---------------------------------------------------------------------------
\* The invariant of the whole: of each program its own, and where each may stand.
HostInv ==
  /\ program \in {"DemoSlots", "DemoColour", "DemoUids", "FirewallChain", "RuntimeInstall",
                  "BootRecord", "MailAdmin", "MailSubmission", "MailAccounts", "MailStack",
                  "SlotKeys", "ChannelKey", "JumpKeys", "Blocklist", "Reputation",
                  "HostInputs", "CiQueue"}
  /\ program = "DemoSlots" => SlotsInv
  /\ program = "DemoColour" => ColourInv
  /\ program = "DemoUids" => UidInv
  /\ program = "FirewallChain" => ChainTyped
  /\ program = "RuntimeInstall" => InstallInv
  /\ program = "BootRecord" => BootstrapInv
  /\ program = "MailAdmin" => ServerInv
  /\ program = "MailSubmission" => CredentialInv
  /\ program = "MailAccounts" => AccountInv
  /\ program = "MailStack" => StackInv
  /\ program = "SlotKeys" => SlotInv
  /\ program = "ChannelKey" => ChannelInv
  /\ program = "JumpKeys" => JumpInv
  /\ program = "Blocklist" => ChecksInv
  /\ program = "Reputation" => ReputationInv
  /\ program = "HostInputs" => InputsInv
  /\ program = "CiQueue" => QueueInv

\* Where the programs of each module stand.
Turn ==
  \/ program = "DemoSlots" /\ at[1] \in {"demo", "load", "batches"}
  \/ program = "DemoColour" /\ at[1] \in {"colour", "router", "golive"}
  \/ program = "DemoUids" /\ at[1] \in {"uids"}
  \/ program = "FirewallChain" /\ at[1] \in {"chain", "rule"}
  \/ program = "RuntimeInstall" /\ at[1] \in {"runtime", "lock"}
  \/ program = "BootRecord" /\ at[1] \in {"boot", "fill"}
  \/ program = "MailAdmin" /\ at[1] \in {"mail", "unblock"}
  \/ program = "MailSubmission" /\ at[1] \in {"submit", "shim", "scope"}
  \/ program = "MailAccounts" /\ at[1] \in {"boxes", "sending"}
  \/ program = "MailStack" /\ at[1] \in {"class", "resolver", "mint"}
  \/ program = "SlotKeys" /\ at[1] \in {"slots"}
  \/ program = "ChannelKey" /\ at[1] \in {"channel"}
  \/ program = "JumpKeys" /\ at[1] \in {"jump"}
  \/ program = "Blocklist" /\ at[1] \in {"dnsbl", "answer"}
  \/ program = "Reputation" /\ at[1] \in {"snds"}
  \/ program = "HostInputs" /\ at[1] \in {"seed"}
  \/ program = "CiQueue" /\ at[1] \in {"queue"}


LEMMA HostIsInductive == (Init => HostInv) /\ (HostInv /\ [Next]_hostVars => HostInv')
<1>1. ASSUME Init PROVE HostInv
  <2>1. CASE program = "DemoSlots"
    <3>1. DemoInit
      BY <1>1, <2>1 DEF Init
    <3> QED
      BY <2>1, <3>1, DemoIsInductive DEF HostInv
  <2>2. CASE program = "DemoColour"
    <3>1. ColourInit \/ RouterInit \/ GoLiveInit
      BY <1>1, <2>2 DEF Init
    <3> QED
      BY <2>2, <3>1, ColourIsInductive DEF HostInv
  <2>3. CASE program = "DemoUids"
    <3>1. UidInit
      BY <1>1, <2>3 DEF Init
    <3> QED
      BY <2>3, <3>1, UidIsInductive DEF HostInv
  <2>4. CASE program = "FirewallChain"
    <3>1. ChainInit
      BY <1>1, <2>4 DEF Init
    <3> QED
      BY <2>4, <3>1, ChainIsTyped DEF HostInv
  <2>5. CASE program = "RuntimeInstall"
    <3>1. RuntimeInit \/ LockInit
      BY <1>1, <2>5 DEF Init
    <3> QED
      BY <2>5, <3>1, InstallIsInductive DEF HostInv
  <2>6. CASE program = "BootRecord"
    <3>1. BootInit \/ FillInit
      BY <1>1, <2>6 DEF Init
    <3> QED
      BY <2>6, <3>1, BootstrapIsInductive DEF HostInv
  <2>7. CASE program = "MailAdmin"
    <3>1. MailInit \/ UnblockInit
      BY <1>1, <2>7 DEF Init
    <3> QED
      BY <2>7, <3>1, ServerIsInductive DEF HostInv
  <2>8. CASE program = "MailSubmission"
    <3>1. SubmissionInit \/ ShimInit \/ ScopeInit
      BY <1>1, <2>8 DEF Init
    <3> QED
      BY <2>8, <3>1, CredentialIsInductive DEF HostInv
  <2>9. CASE program = "MailAccounts"
    <3>1. BoxInit \/ SendingInit
      BY <1>1, <2>9 DEF Init
    <3> QED
      BY <2>9, <3>1, AccountIsInductive DEF HostInv
  <2>10. CASE program = "MailStack"
    <3>1. ClassInit \/ ResolverInit \/ MintInit
      BY <1>1, <2>10 DEF Init
    <3> QED
      BY <2>10, <3>1, StackIsInductive DEF HostInv, StackInit, StackNext
  <2>11. CASE program = "SlotKeys"
    <3>1. SlotInit
      BY <1>1, <2>11 DEF Init
    <3> QED
      BY <2>11, <3>1, SlotsAreInductive DEF HostInv
  <2>12. CASE program = "ChannelKey"
    <3>1. ChannelInit
      BY <1>1, <2>12 DEF Init
    <3> QED
      BY <2>12, <3>1, ChannelIsInductive DEF HostInv
  <2>13. CASE program = "JumpKeys"
    <3>1. JumpInit
      BY <1>1, <2>13 DEF Init
    <3> QED
      BY <2>13, <3>1, JumpIsInductive DEF HostInv
  <2>14. CASE program = "Blocklist"
    <3>1. BlocklistInit \/ AnswerInit
      BY <1>1, <2>14 DEF Init
    <3> QED
      BY <2>14, <3>1, ChecksAreInductive DEF HostInv
  <2>15. CASE program = "Reputation"
    <3>1. ReputationInit
      BY <1>1, <2>15 DEF Init
    <3> QED
      BY <2>15, <3>1, ReputationIsInductive DEF HostInv
  <2>16. CASE program = "HostInputs"
    <3>1. InputsInit
      BY <1>1, <2>16 DEF Init
    <3> QED
      BY <2>16, <3>1, InputsAreInductive DEF HostInv
  <2>17. CASE program = "CiQueue"
    <3>1. QueueInit
      BY <1>1, <2>17 DEF Init
    <3> QED
      BY <2>17, <3>1, QueueIsInductive DEF HostInv
  <2> QED
    BY <1>1, <2>1, <2>2, <2>3, <2>4, <2>5, <2>6, <2>7, <2>8, <2>9, <2>10, <2>11, <2>12, <2>13, <2>14, <2>15, <2>16, <2>17 DEF Init
<1>2. ASSUME HostInv, [Next]_hostVars PROVE HostInv'
  <2>1. CASE program = "DemoSlots"
    <3>1. program' = program /\ SlotsInv /\ [DemoNext]_programVars
      BY <1>2, <2>1 DEF HostInv, Next, hostVars
    <3> QED
      BY <2>1, <3>1, DemoIsInductive DEF HostInv
  <2>2. CASE program = "DemoColour"
    <3>1. program' = program /\ ColourInv /\ [ColourNext \/ RouterNext \/ GoLiveNext]_programVars
      BY <1>2, <2>2 DEF HostInv, Next, hostVars
    <3> QED
      BY <2>2, <3>1, ColourIsInductive DEF HostInv
  <2>3. CASE program = "DemoUids"
    <3>1. program' = program /\ UidInv /\ [UidNext]_programVars
      BY <1>2, <2>3 DEF HostInv, Next, hostVars
    <3> QED
      BY <2>3, <3>1, UidIsInductive DEF HostInv
  <2>4. CASE program = "FirewallChain"
    <3>1. program' = program /\ ChainTyped /\ [ChainNext]_programVars
      BY <1>2, <2>4 DEF HostInv, Next, hostVars
    <3> QED
      BY <2>4, <3>1, ChainIsTyped DEF HostInv
  <2>5. CASE program = "RuntimeInstall"
    <3>1. program' = program /\ InstallInv /\ [RuntimeNext \/ GrowLock]_programVars
      BY <1>2, <2>5 DEF HostInv, Next, hostVars
    <3> QED
      BY <2>5, <3>1, InstallIsInductive DEF HostInv
  <2>6. CASE program = "BootRecord"
    <3>1. program' = program /\ BootstrapInv /\ [BootNext \/ GrowVariables]_programVars
      BY <1>2, <2>6 DEF HostInv, Next, hostVars
    <3> QED
      BY <2>6, <3>1, BootstrapIsInductive DEF HostInv
  <2>7. CASE program = "MailAdmin"
    <3>1. program' = program /\ ServerInv /\ [MailNext \/ ClearBlocked]_programVars
      BY <1>2, <2>7 DEF HostInv, Next, hostVars
    <3> QED
      BY <2>7, <3>1, ServerIsInductive DEF HostInv
  <2>8. CASE program = "MailSubmission"
    <3>1. program' = program /\ CredentialInv /\ [SubmitNext \/ ShimNext \/ ScopeNext]_programVars
      BY <1>2, <2>8 DEF HostInv, Next, hostVars
    <3> QED
      BY <2>8, <3>1, CredentialIsInductive DEF HostInv
  <2>9. CASE program = "MailAccounts"
    <3>1. program' = program /\ AccountInv /\ [BoxNext \/ SendingNext]_programVars
      BY <1>2, <2>9 DEF HostInv, Next, hostVars
    <3> QED
      BY <2>9, <3>1, AccountIsInductive DEF HostInv
  <2>10. CASE program = "MailStack"
    <3>1. program' = program /\ StackInv /\ [ClassNext \/ ResolverNext \/ MintNext]_programVars
      BY <1>2, <2>10 DEF HostInv, Next, hostVars
    <3> QED
      BY <2>10, <3>1, StackIsInductive DEF HostInv, StackInit, StackNext
  <2>11. CASE program = "SlotKeys"
    <3>1. program' = program /\ SlotInv /\ [SlotNext]_programVars
      BY <1>2, <2>11 DEF HostInv, Next, hostVars
    <3> QED
      BY <2>11, <3>1, SlotsAreInductive DEF HostInv
  <2>12. CASE program = "ChannelKey"
    <3>1. program' = program /\ ChannelInv /\ [ChannelNext]_programVars
      BY <1>2, <2>12 DEF HostInv, Next, hostVars
    <3> QED
      BY <2>12, <3>1, ChannelIsInductive DEF HostInv
  <2>13. CASE program = "JumpKeys"
    <3>1. program' = program /\ JumpInv /\ [JumpNext]_programVars
      BY <1>2, <2>13 DEF HostInv, Next, hostVars
    <3> QED
      BY <2>13, <3>1, JumpIsInductive DEF HostInv
  <2>14. CASE program = "Blocklist"
    <3>1. program' = program /\ ChecksInv /\ [BlocklistNext \/ ReadResponse]_programVars
      BY <1>2, <2>14 DEF HostInv, Next, hostVars
    <3> QED
      BY <2>14, <3>1, ChecksAreInductive DEF HostInv
  <2>15. CASE program = "Reputation"
    <3>1. program' = program /\ ReputationInv /\ [ReputationNext]_programVars
      BY <1>2, <2>15 DEF HostInv, Next, hostVars
    <3> QED
      BY <2>15, <3>1, ReputationIsInductive DEF HostInv
  <2>16. CASE program = "HostInputs"
    <3>1. program' = program /\ InputsInv /\ [InputsNext]_programVars
      BY <1>2, <2>16 DEF HostInv, Next, hostVars
    <3> QED
      BY <2>16, <3>1, InputsAreInductive DEF HostInv
  <2>17. CASE program = "CiQueue"
    <3>1. program' = program /\ QueueInv /\ [QueueNext]_programVars
      BY <1>2, <2>17 DEF HostInv, Next, hostVars
    <3> QED
      BY <2>17, <3>1, QueueIsInductive DEF HostInv
  <2> QED
    BY <1>2, <2>1, <2>2, <2>3, <2>4, <2>5, <2>6, <2>7, <2>8, <2>9, <2>10, <2>11, <2>12, <2>13, <2>14, <2>15, <2>16, <2>17 DEF HostInv
<1> QED
  BY <1>1, <1>2

\* Where a behaviour of one module's programs stands.
LEMMA HostTurn == HostInv => Turn
<1> SUFFICES ASSUME HostInv PROVE Turn
  OBVIOUS
<1>1. CASE program = "DemoSlots"
  <2>1. at[1] \in {"demo", "load", "batches"}
    BY <1>1 DEF HostInv, SlotsInv, LoadInv, BatchInv
  <2> QED
    BY <1>1, <2>1 DEF Turn
<1>2. CASE program = "DemoColour"
  <2>1. (UnitInv => at[1] = "colour") /\ (RouterInv => at[1] = "router") /\ (GoLiveInv => at[1] = "golive")
    <3>1. UnitInv => at[1] = "colour"
      BY DEF UnitInv
    <3>2. RouterInv => at[1] = "router"
      BY DEF RouterInv
    <3>3. GoLiveInv => at[1] = "golive"
      BY DEF GoLiveInv
    <3> QED
      BY <3>1, <3>2, <3>3
  <2> QED
    BY <1>2, <2>1 DEF HostInv, ColourInv, Turn
<1>3. CASE program = "DemoUids"
  BY <1>3 DEF HostInv, UidInv, Turn
<1>4. CASE program = "FirewallChain"
  BY <1>4 DEF HostInv, ChainTyped, Turn
<1>5. CASE program = "RuntimeInstall"
  BY <1>5 DEF HostInv, InstallInv, RuntimeInv, LockTyped, Turn
<1>6. CASE program = "BootRecord"
  BY <1>6 DEF HostInv, BootstrapInv, BootInv, Turn
<1>7. CASE program = "MailAdmin"
  BY <1>7 DEF HostInv, ServerInv, AdminInv, UnblockInv, Turn
<1>8. CASE program = "MailSubmission"
  BY <1>8 DEF HostInv, CredentialInv, SubmitInv, SubmitTyped, ShimInv, ScopeInv, Turn
<1>9. CASE program = "MailAccounts"
  BY <1>9 DEF HostInv, AccountInv, BoxInv, SendingInv, Turn
<1>10. CASE program = "MailStack"
  BY <1>10 DEF HostInv, StackInv, ClassInv, ResolverInv, MintInv, Turn
<1>11. CASE program = "SlotKeys"
  BY <1>11 DEF HostInv, SlotInv, Turn
<1>12. CASE program = "ChannelKey"
  BY <1>12 DEF HostInv, ChannelInv, ChannelTyped, Turn
<1>13. CASE program = "JumpKeys"
  BY <1>13 DEF HostInv, JumpInv, Turn
<1>14. CASE program = "Blocklist"
  BY <1>14 DEF HostInv, ChecksInv, BlocklistInv, AnswerInv, Turn
<1>15. CASE program = "Reputation"
  BY <1>15 DEF HostInv, ReputationInv, Turn
<1>16. CASE program = "HostInputs"
  BY <1>16 DEF HostInv, InputsInv, Turn
<1>17. CASE program = "CiQueue"
  BY <1>17 DEF HostInv, QueueInv, QueueTyped, Turn
<1> QED
  BY <1>1, <1>2, <1>3, <1>4, <1>5, <1>6, <1>7, <1>8, <1>9, <1>10, <1>11, <1>12, <1>13, <1>14, <1>15, <1>16, <1>17 DEF HostInv

\* A property is about the programs it names: where another's stands it asks for nothing.
LEMMA OthersAreSilent ==
  /\ at[1] \notin {"demo", "load", "batches"} => SlotsHold
  /\ at[1] \notin {"colour", "router", "golive"} => ColourHolds
  /\ at[1] # "uids" => UidsHold
  /\ at[1] # "runtime" => RuntimeHolds
  /\ at[1] # "boot" => BootHolds
  /\ at[1] \notin {"class", "resolver"} => StackHolds
  /\ at[1] # "queue" => QueueHolds
  /\ at[1] # "submit" => NeverUnscoped /\ RecordedIsLive
  /\ at[1] # "shim" => ShimEnvIsRecorded
  /\ at[1] # "scope" => PassProvesScope
  /\ at[1] # "mail" => FileOpensServer /\ SecondRunIsIdle
  /\ at[1] # "unblock" => ClearsWhatWasAsked
  /\ at[1] # "boxes" => RecordedOpensBox /\ BoxesForward
  /\ at[1] # "sending" => OnlyCreates /\ PrintedIsSigned
<1>1. at[1] \notin {"demo", "load", "batches"} => SlotsHold
  <2>1. at[1] \notin {"demo", "load", "batches"} => \A step : ~At("load", step) /\ ~At("batches", step)
    BY DEF At
  <2> QED
    BY <2>1 DEF SlotsHold, LeaseIsFresh, ResetIsAlone, LoadIsWhole, CountIsOwn
<1>2. at[1] \notin {"colour", "router", "golive"} => ColourHolds
  <2>1. at[1] \notin {"colour", "router", "golive"} => \A step : ~At("colour", step)
    BY DEF At
  <2> QED
    BY <2>1 DEF ColourHolds, OneFailureLeavesNothing, SidecarIsGhosts, CountIsThreads, HealthyIsChecked, OpenedOnlyIfClean
<1>3. at[1] # "uids" => UidsHold
  BY DEF UidsHold, ClaimsAreAlone, RunsDoNotCollide
<1>4. at[1] # "runtime" => RuntimeHolds
  BY DEF RuntimeHolds, LinkIsWhole, HalfMadeIsResumed
<1>5. at[1] # "boot" => BootHolds
  BY DEF BootHolds, VerdictIsMains, RecordLasts
<1>6. at[1] \notin {"class", "resolver"} => StackHolds
  <2>1. at[1] \notin {"class", "resolver"} => \A step : ~At("class", step) /\ ~At("resolver", step)
    BY DEF At
  <2> QED
    BY <2>1 DEF StackHolds, ClassRunsItsFiles, ResolverServes
<1>7. at[1] # "queue" => QueueHolds
  <2>1. at[1] # "queue" => \A step : at # <<"queue", step>>
    BY DEF At
  <2> QED
    BY <2>1 DEF QueueHolds, CancelledIsCovered, PaidNeedsOwner
<1>8. at[1] # "submit" => NeverUnscoped /\ RecordedIsLive
  BY DEF NeverUnscoped, RecordedIsLive
<1>9. at[1] # "shim" => ShimEnvIsRecorded
  BY DEF ShimEnvIsRecorded
<1>10. at[1] # "scope" => PassProvesScope
  <2>1. at[1] # "scope" => \A step : at # <<"scope", step>>
    BY DEF At
  <2> QED
    BY <2>1 DEF PassProvesScope
<1>11. at[1] # "mail" => FileOpensServer /\ SecondRunIsIdle
  BY DEF FileOpensServer, SecondRunIsIdle
<1>12. at[1] # "unblock" => ClearsWhatWasAsked
  <2>1. at[1] # "unblock" => \A step : at # <<"unblock", step>>
    BY DEF At
  <2> QED
    BY <2>1 DEF ClearsWhatWasAsked
<1>13. at[1] # "boxes" => RecordedOpensBox /\ BoxesForward
  <2>1. at[1] # "boxes" => \A step : at # <<"boxes", step>>
    BY DEF At
  <2> QED
    BY <2>1 DEF RecordedOpensBox, BoxesForward
<1>14. at[1] # "sending" => OnlyCreates /\ PrintedIsSigned
  <2>1. at[1] # "sending" => \A step : at # <<"sending", step>>
    BY DEF At
  <2> QED
    BY <2>1 DEF OnlyCreates, PrintedIsSigned
<1> QED
  BY <1>1, <1>2, <1>3, <1>4, <1>5, <1>6, <1>7, <1>8, <1>9, <1>10, <1>11, <1>12, <1>13, <1>14

\* What the invariants of the mail server's programs say, wherever one of them stands.
LEMMA ServerInvGives == ServerInv => AdminHolds
<1>1. CASE AdminInv
  <2>1. at[1] = "mail"
    BY <1>1 DEF AdminInv
  <2>2. SecondRunIsIdle
    BY <1>1 DEF AdminInv, Settling, SecondRunIsIdle
  <2>3. ASSUME ~host.wizard, ~host.lost, at # <<"mail", "verify">> PROVE host.file = host.secret
    <3>1. at = <<"mail", at[2]>> /\ at[2] # "verify"
      BY <1>1, <2>3 DEF AdminInv
    <3> QED
      BY <1>1, <2>3, <3>1 DEF AdminInv, Secret
  <2>4. FileOpensServer
    BY <2>3 DEF FileOpensServer, At
  <2> QED
    BY <2>1, <2>2, <2>4, OthersAreSilent DEF AdminHolds
<1>2. CASE UnblockInv
  <2>1. at[1] = "unblock"
    BY <1>2 DEF UnblockInv
  <2> QED
    BY <1>2, <2>1, OthersAreSilent DEF UnblockInv, AdminHolds
<1> QED
  BY <1>1, <1>2 DEF ServerInv

LEMMA CredentialInvGives == CredentialInv => SubmissionHolds
<1>1. CASE SubmitInv
  <2>1. at[1] = "submit"
    BY <1>1 DEF SubmitInv, SubmitTyped
  <2>2. NeverUnscoped /\ RecordedIsLive
    BY <1>1 DEF SubmitInv, SubmitTyped, Scoped, Together, RecordedIsLive, Recorded
  <2> QED
    BY <2>1, <2>2, OthersAreSilent DEF SubmissionHolds
<1>2. CASE ShimInv
  <2>1. at[1] = "shim"
    BY <1>2 DEF ShimInv
  <2>2. ASSUME host.env # None PROVE host.env = <<host.env[1], host.env[2]>> /\ ReadsAs(host, host.env[1], host.env[2])
    BY <1>2, <2>2 DEF ShimInv
  <2>3. ShimEnvIsRecorded
    BY <2>2 DEF ReadsAs, ShimEnvIsRecorded
  <2> QED
    BY <2>1, <2>3, OthersAreSilent DEF SubmissionHolds
<1>3. CASE ScopeInv
  <2>1. at[1] = "scope"
    BY <1>3 DEF ScopeInv
  <2>2. PassProvesScope
    BY <1>3 DEF ScopeInv, PassProvesScope, ScopePasses, Taken, Rules
  <2> QED
    BY <2>1, <2>2, OthersAreSilent DEF SubmissionHolds
<1> QED
  BY <1>1, <1>2, <1>3 DEF CredentialInv

LEMMA AccountInvGives == AccountInv => AccountsHold
<1>1. CASE BoxInv
  <2>1. at[1] = "boxes"
    BY <1>1 DEF BoxInv
  <2> QED
    BY <1>1, <2>1, BoxInvGives, OthersAreSilent DEF AccountsHold
<1>2. CASE SendingInv
  <2>1. at[1] = "sending"
    BY <1>2 DEF SendingInv
  <2> QED
    BY <1>2, <2>1, SendingInvGives, OthersAreSilent DEF AccountsHold
<1> QED
  BY <1>1, <1>2 DEF AccountInv

\* The invariant of the whole gives what every module promises: of the programs that run by
\* their own invariant, of the others because they stand nowhere.
LEMMA HostInvGives ==
  HostInv => /\ SlotsHold /\ ColourHolds /\ UidsHold /\ RuntimeHolds /\ BootHolds
             /\ MailHolds /\ StackHolds /\ KeysHold /\ WatchersHold /\ QueueHolds
<1> SUFFICES ASSUME HostInv
             PROVE  /\ SlotsHold /\ ColourHolds /\ UidsHold /\ RuntimeHolds /\ BootHolds
                    /\ MailHolds /\ StackHolds /\ KeysHold /\ WatchersHold /\ QueueHolds
  OBVIOUS
<1>1. Turn
  BY HostTurn
<1>2. SlotsHold
  <2>1. CASE program = "DemoSlots"
    BY <2>1, SlotsInvGives DEF HostInv
  <2>2. CASE program # "DemoSlots"
    <3>1. at[1] \notin {"demo", "load", "batches"}
      BY <1>1, <2>2 DEF Turn
    <3> QED
      BY <3>1, OthersAreSilent
  <2> QED
    BY <2>1, <2>2
<1>3. ColourHolds
  <2>1. CASE program = "DemoColour"
    BY <2>1, ColourIsInductive DEF HostInv
  <2>2. CASE program # "DemoColour"
    <3>1. at[1] \notin {"colour", "router", "golive"}
      BY <1>1, <2>2 DEF Turn
    <3> QED
      BY <3>1, OthersAreSilent
  <2> QED
    BY <2>1, <2>2
<1>4. UidsHold
  <2>1. CASE program = "DemoUids"
    BY <2>1, UidInvGives DEF HostInv
  <2>2. CASE program # "DemoUids"
    <3>1. at[1] # "uids"
      BY <1>1, <2>2 DEF Turn
    <3> QED
      BY <3>1, OthersAreSilent
  <2> QED
    BY <2>1, <2>2
<1>5. RuntimeHolds
  <2>1. CASE program = "RuntimeInstall"
    <3>1. RuntimeInv \/ LockTyped
      BY <2>1 DEF HostInv, InstallInv
    <3>2. LockTyped => at[1] # "runtime"
      BY DEF LockTyped
    <3> QED
      BY <3>1, <3>2, OthersAreSilent DEF RuntimeHolds, LinkIsWhole, RuntimeInv, Marked
  <2>2. CASE program # "RuntimeInstall"
    <3>1. at[1] # "runtime"
      BY <1>1, <2>2 DEF Turn
    <3> QED
      BY <3>1, OthersAreSilent
  <2> QED
    BY <2>1, <2>2
<1>6. BootHolds
  <2>1. CASE program = "BootRecord"
    <3>1. BootInv \/ at = <<"fill", "grow">>
      BY <2>1 DEF HostInv, BootstrapInv
    <3>2. at = <<"fill", "grow">> => at[1] # "boot"
      OBVIOUS
    <3> QED
      BY <3>1, <3>2, OthersAreSilent DEF BootHolds, BootInv
  <2>2. CASE program # "BootRecord"
    <3>1. at[1] # "boot"
      BY <1>1, <2>2 DEF Turn
    <3> QED
      BY <3>1, OthersAreSilent
  <2> QED
    BY <2>1, <2>2
<1>7. StackHolds
  <2>1. CASE program = "MailStack"
    BY <2>1, StackInvGives DEF HostInv
  <2>2. CASE program # "MailStack"
    <3>1. at[1] \notin {"class", "resolver"}
      BY <1>1, <2>2 DEF Turn
    <3> QED
      BY <3>1, OthersAreSilent
  <2> QED
    BY <2>1, <2>2
<1>8. QueueHolds
  <2>1. CASE program = "CiQueue"
    BY <2>1, QueueIsInductive DEF HostInv
  <2>2. CASE program # "CiQueue"
    <3>1. at[1] # "queue"
      BY <1>1, <2>2 DEF Turn
    <3> QED
      BY <3>1, OthersAreSilent
  <2> QED
    BY <2>1, <2>2
<1>9. MailHolds
  BY ServerInvGives, CredentialInvGives, AccountInvGives DEF HostInv, MailHolds
<1>10. KeysHold
  <2>1. ChannelInv => PublicMatchesKey
    BY DEF ChannelInv, Remembers, PublicMatchesKey
  <2>2. SlotInv => SlotTruth
    BY DEF SlotInv
  <2> QED
    BY <2>1, <2>2, JumpInvGives DEF HostInv, KeysHold
<1>11. WatchersHold
  BY ChecksAreInductive, ReputationInvGives DEF HostInv, WatchersHold
<1> QED
  BY <1>2, <1>3, <1>4, <1>5, <1>6, <1>7, <1>8, <1>9, <1>10, <1>11

\* What of the texts the invariant gives: their lengths are any.
LEMMA TextsAreRead == HostInv => TextsHold
<1> SUFFICES ASSUME HostInv PROVE TextsHold
  OBVIOUS
<1>1. program = "FirewallChain" => ChainHolds
  BY ChainIsJudged DEF HostInv
<1>2. program = "RuntimeInstall" => PipReadsNoMore
  <2>1. RuntimeInv => PipReadsNoMore
    BY DEF RuntimeInv, PipReadsNoMore
  <2> QED
    BY <2>1, LockIsReadAlike DEF HostInv, InstallInv
<1>3. FillFollowsNames
  BY FillIsTheirs
<1> QED
  BY <1>1, <1>2, <1>3 DEF TextsHold

---------------------------------------------------------------------------
(* What the whole promises.                                                *)

\* Whatever calls of the slot script overlap or are killed, a slot's data is its lease's and a
\* reset is alone with it; an image that is loaded is the whole of its archive, and a broker's
\* count comes from a database the slot's own uid may read.
THEOREM SlotsHoldThroughout == Spec => []SlotsHold
BY HostIsInductive, HostInvGives, PTL DEF Spec

\* One failure of a unit's steps leaves no container behind and an active unit's sidecar is its own
\* ghost's, the router counts the threads it has and answers healthy only for a colour it checked,
\* and the demo opens only on two clean slots.
THEOREM ColoursHoldThroughout == Spec => []ColourHolds
BY HostIsInductive, HostInvGives, PTL DEF Spec

\* The runs of demo_uid_claims.py: no uid is claimed twice, none a run makes is an account's, and
\* runs that overlap or die do not break one another.
THEOREM UidsHoldThroughout == Spec => []UidsHold
BY HostIsInductive, HostInvGives, PTL DEF Spec

\* install_runtime.py: the environment the link names holds the whole of its lock, and what a
\* failed or killed install left stops no later one.
THEOREM RuntimeHoldsThroughout == Spec => []RuntimeHolds
BY HostIsInductive, HostInvGives, PTL DEF Spec

\* The bootstrap's record: one that is found current is main's, and it stays current for as long as
\* main holds what it was built from.
THEOREM BootHoldsThroughout == Spec => []BootHolds
BY HostIsInductive, HostInvGives, PTL DEF Spec

\* The mail server's scripts: the credential files hold what the server takes, of the
\* administrator, of the submission accounts and of the mailboxes; no rule lets a sender in before
\* the one that holds it to its domains, and no records are printed for a domain that signs nothing.
THEOREM MailHoldsThroughout == Spec => []MailHolds
BY HostIsInductive, HostInvGives, PTL DEF Spec

\* The mail host's modules: a class nobody disturbed that says it converged runs the files it
\* wrote, and a resolver that says so serves from the drop-in it was given.
THEOREM StackHoldsThroughout == Spec => []StackHolds
BY HostIsInductive, HostInvGives, PTL DEF Spec

\* The programs that keep ssh keys: a success of the slots', the channel's or the jump host's run
\* is of the keys in place, through deaths, overlapping calls and a reload that fails.
THEOREM KeysHoldThroughout == Spec => []KeysHold
BY HostIsInductive, HostInvGives, PTL DEF Spec

\* The watchers of the mail server's standing: the blocklist check says clean only of zones it
\* asked and heard, and no reading of the reputation feed is lost or looks younger than it is.
THEOREM WatchersHoldThroughout == Spec => []WatchersHold
BY HostIsInductive, HostInvGives, PTL DEF Spec

\* The queue of CI runs: a change whose apply was cancelled is in the plan of a newer run that was
\* not cancelled for it, and an apply that may cost money starts only after its owner approved it.
THEOREM QueueHoldsThroughout == Spec => []QueueHolds
BY HostIsInductive, HostInvGives, PTL DEF Spec

\* What a program reads out of a text is what acts on the text reads, of a text of any length: a
\* chain that deploy_tooling_chain.py passes lets no packet past the policy, and its summary, the
\* rule it blames and the rule it parses are those of the chain; a lock that install_runtime.py
\* accepts is pinned and hashed in every line pip joins; and a variable of a templated path is
\* filled with the value its references lead to, or not at all.
THEOREM TextsHoldThroughout == Spec => []TextsHold
BY HostIsInductive, TextsAreRead, PTL DEF Spec

\* A step of the whole does what the module of its program allows.
LEMMA StepsRespect ==
  HostInv /\ [Next]_hostVars =>
    /\ [KeepsKey]_programVars
    /\ [Resumes]_programVars
    /\ [AsksOwnFirst]_programVars
    /\ [OverwritesToldTo]_programVars
    /\ [KeepsSecret]_programVars
    /\ [UnexplainedKept /\ GrantedKeyIsAlone]_programVars
<1> SUFFICES ASSUME HostInv, [Next]_hostVars
             PROVE  /\ [KeepsKey]_programVars
                    /\ [Resumes]_programVars
                    /\ [AsksOwnFirst]_programVars
                    /\ [OverwritesToldTo]_programVars
                    /\ [KeepsSecret]_programVars
                    /\ [UnexplainedKept /\ GrantedKeyIsAlone]_programVars
  OBVIOUS
<1>1. Turn
  BY HostTurn
<1>2. [KeepsKey]_programVars
  <2>1. CASE program = "ChannelKey"
    <3>1. ChannelInv /\ [ChannelNext]_programVars
      BY <2>1 DEF HostInv, Next, hostVars, programVars
    <3> QED
      BY <3>1, ChannelKeepsKey
  <2>2. CASE program # "ChannelKey"
    <3>1. at[1] # "channel"
      BY <1>1, <2>2 DEF Turn
    <3> QED
      BY <3>1 DEF KeepsKey
  <2> QED
    BY <2>1, <2>2
<1>3. [Resumes]_programVars
  <2>1. CASE program = "DemoUids"
    <3>1. UidInv /\ [UidNext]_programVars
      BY <2>1 DEF HostInv, Next, hostVars, programVars
    <3> QED
      BY <3>1, UidResumes
  <2>2. CASE program # "DemoUids"
    <3>1. at[1] # "uids"
      BY <1>1, <2>2 DEF Turn
    <3> QED
      BY <3>1 DEF Resumes
  <2> QED
    BY <2>1, <2>2
<1>4. [AsksOwnFirst]_programVars
  <2>1. CASE program = "HostInputs"
    <3>1. InputsInv /\ [InputsNext]_programVars
      BY <2>1 DEF HostInv, Next, hostVars, programVars
    <3> QED
      BY <3>1, InputsAskOwn
  <2>2. CASE program # "HostInputs"
    <3>1. at[1] # "seed"
      BY <1>1, <2>2 DEF Turn
    <3> QED
      BY <3>1 DEF AsksOwnFirst
  <2> QED
    BY <2>1, <2>2
<1>5. [OverwritesToldTo]_programVars
  <2>1. CASE program = "HostInputs"
    <3>1. InputsInv /\ [InputsNext]_programVars
      BY <2>1 DEF HostInv, Next, hostVars, programVars
    <3> QED
      BY <3>1, InputsOverwrite
  <2>2. CASE program # "HostInputs"
    <3>1. at[1] # "seed"
      BY <1>1, <2>2 DEF Turn
    <3> QED
      BY <3>1 DEF OverwritesToldTo
  <2> QED
    BY <2>1, <2>2
<1>6. [KeepsSecret]_programVars
  <2>1. CASE program = "MailStack"
    <3>1. StackInv /\ [StackNext]_programVars
      BY <2>1 DEF HostInv, Next, hostVars, programVars, StackNext
    <3> QED
      BY <3>1, StackIsInductive DEF KeepsSecret
  <2>2. CASE program # "MailStack"
    <3>1. at[1] # "mint"
      BY <1>1, <2>2 DEF Turn
    <3> QED
      BY <3>1 DEF KeepsSecret
  <2> QED
    BY <2>1, <2>2
<1>7. [UnexplainedKept /\ GrantedKeyIsAlone]_programVars
  <2>1. CASE program = "SlotKeys"
    <3>1. SlotInv /\ [SlotNext]_programVars
      BY <2>1 DEF HostInv, Next, hostVars, programVars
    <3> QED
      BY <3>1, SlotsKeepLines
  <2>2. CASE program # "SlotKeys"
    <3>1. at[1] # "slots"
      BY <1>1, <2>2 DEF Turn
    <3>2. \A step : ~At("slots", step)
      BY <3>1 DEF At
    <3> QED
      BY <3>2 DEF UnexplainedKept, GrantedKeyIsAlone
  <2> QED
    BY <2>1, <2>2
<1> QED
  BY <1>2, <1>3, <1>4, <1>5, <1>6, <1>7

\* No line of the slots' keys that the register does not explain is rewritten or dropped by a run,
\* and a key is written only where no other slot's is.
THEOREM LinesAreKeptThroughout == Spec => SlotLinesKept
BY HostIsInductive, StepsRespect, PTL DEF Spec, SlotLinesKept

\* What a run finds is respected, whichever program runs: the channel's key, a host's document and
\* Stalwart's secret are kept, an input is its own place's first, and a dead run is resumed.
THEOREM FoundIsKeptThroughout == Spec => FoundIsKept
BY HostIsInductive, StepsRespect, PTL DEF Spec, FoundIsKept, KeyKept, NothingOverwritten, OwnPlaceFirst,
                                          SecretIsMadeOnce, DeadRunIsResumed
=============================================================================
