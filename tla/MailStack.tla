----------------------------- MODULE MailStack -----------------------------
(***************************************************************************)
(* Role mx1_stack: the shim's Compose project and the local resolver, each *)
(* a class with a stamp. A class is judged from its stamp, its files and   *)
(* what runs; when it is due the stamp says "pending" until the run has    *)
(* read back what it did. A text is a number: the version the repository   *)
(* has, or an edit. since is when a file was written: after its container  *)
(* was created, after it was started, or both. The third program makes     *)
(* Stalwart's .env, once.                                                  *)
(***************************************************************************)
EXTENDS Program

CONSTANTS Text   \* versions of a file's content

ASSUME TextAssumption == {None, Odd} \cap Text = {}

Services == {"shim", "caddy"}
ClassInit ==
  /\ at = <<"class", "idle">> /\ mem = None /\ faults = 0
  /\ \E repo \in [compose : Text, caddyfile : Text] :
       host = [repo |-> repo, secret |-> 1, compose |-> None, caddyfile |-> None, env |-> None, stamp |-> None,
               box |-> [s \in Services |-> None]]

\* What each service reads: the shim its environment, when it is created; Caddy its mounted file.
Input(h, s) == IF s = "shim" THEN h.env ELSE h.caddyfile
Created(h, s, well) == [compose |-> h.compose, input |-> Input(h, s), since |-> {}, up |-> TRUE, healthy |-> well]
\* A restart mounts the file by its path again, and reads no environment.
StartedAgain(h, s) == [h.box[s] EXCEPT !.up = TRUE, !.since = @ \ {"started"},
                                       !.input = IF s = "caddy" THEN h.caddyfile ELSE @]
Written(h, s) == IF h.box[s] = None THEN h.box ELSE [h.box EXCEPT ![s].since = {"created", "started"}]
WithEnv(h, text) == IF h.env = text THEN h ELSE [h EXCEPT !.env = text, !.box = Written(h, "shim")]
WithCaddyfile(h, text) == IF h.caddyfile = text THEN h ELSE [h EXCEPT !.caddyfile = text, !.box = Written(h, "caddy")]

MutFresh(s) == /\ host.box[s] # None /\ Input(host, s) # None /\ "started" \notin host.box[s].since
               /\ s = "caddy" => host.box[s].up /\ host.box[s].input = host.caddyfile
\* The environment by its time alone, against the creation; the mounted file by its content too.
Fresh(s) ==
  /\ host.box[s] # None /\ Input(host, s) # None
  /\ IF s = "shim" THEN "created" \notin host.box[s].since
     ELSE "started" \notin host.box[s].since /\ host.box[s].up /\ host.box[s].input = host.caddyfile
Live(s) == host.box[s] # None /\ host.box[s].up /\ host.box[s].healthy /\ host.box[s].compose = host.repo.compose
Lines == [compose |-> host.compose, caddyfile |-> host.caddyfile, env |-> host.env]
PendingLines == [compose |-> None, caddyfile |-> None, env |-> None]  \* the word, in place of the lines
ClassRecorded == host.stamp \notin {None, PendingLines}
ClassReasons == \/ host.stamp = PendingLines \/ (ClassRecorded /\ host.stamp # Lines)
           \/ host.compose # host.repo.compose \/ host.caddyfile # host.repo.caddyfile
           \/ \E s \in Services : ~Fresh(s) \/ ~Live(s)

ClassTo(from, to) == Act("class", from, to)
ClassEnds(v) == mem' = [mem EXCEPT !.verdict = v]
\* No usable secret under the label: the run ends before it touches anything.
RenderEnv ==
  LET missing == host.secret = Odd
  IN  /\ ClassTo("idle", IF missing THEN "ended" ELSE "decide")
      /\ host' = IF missing THEN host ELSE WithEnv(host, host.secret)
      /\ mem' = [stale |-> {}, quiet |-> TRUE, verdict |-> IF missing THEN "failed" ELSE None]
DecideClass ==
  /\ At("class", "decide") /\ UNCHANGED <<host, faults>>
  /\ \/ ClassReasons /\ Goto("class", "mark") /\ UNCHANGED mem
     \/ ~ClassReasons /\ host.stamp = None /\ Goto("class", "record") /\ UNCHANGED mem
     \/ ~ClassReasons /\ host.stamp # None /\ Goto("class", "ended") /\ ClassEnds("unchanged")
MarkClass == ClassTo("mark", "compose file") /\ host' = [host EXCEPT !.stamp = PendingLines] /\ UNCHANGED mem
PlaceCompose ==
  ClassTo("compose file", "caddyfile") /\ host' = [host EXCEPT !.compose = host.repo.compose] /\ UNCHANGED mem
PlaceCaddyfile ==
  ClassTo("caddyfile", "up") /\ host' = WithCaddyfile(host, host.repo.caddyfile) /\ UNCHANGED mem
\* Compose recreates what its own hash says changed and starts what is down; it waits for health.
BringUp ==
  \E well \in [Services -> BOOLEAN] :
    LET box == [s \in Services |->
                  IF host.box[s] = None \/ host.box[s].compose # host.compose THEN Created(host, s, well[s])
                  ELSE IF ~host.box[s].up THEN StartedAgain(host, s) ELSE host.box[s]]
        healthy == \A s \in Services : box[s].healthy
    IN  /\ ClassTo("up", IF healthy THEN "stale" ELSE "ended") /\ host' = [host EXCEPT !.box = box]
        /\ IF healthy THEN UNCHANGED mem ELSE ClassEnds("failed")
ReadStale ==
  ClassTo("stale", "recreate") /\ mem' = [mem EXCEPT !.stale = {s \in Services : ~Fresh(s)}] /\ UNCHANGED host
Recreate ==
  /\ At("class", "recreate") /\ mem.stale # {} /\ UNCHANGED faults
  /\ \E s \in mem.stale, well \in BOOLEAN :
       /\ host' = [host EXCEPT !.box[s] = Created(host, s, well)]
       /\ IF well THEN UNCHANGED at /\ mem' = [mem EXCEPT !.stale = @ \ {s}]
          ELSE Goto("class", "ended") /\ ClassEnds("failed")
ReadBackClass ==
  /\ At("class", "recreate") /\ mem.stale = {} /\ UNCHANGED <<host, faults>>
  /\ IF \A s \in Services : Fresh(s) /\ Live(s) THEN Goto("class", "record") /\ UNCHANGED mem
     ELSE Goto("class", "ended") /\ ClassEnds("failed")
RecordClass == ClassTo("record", "ended") /\ host' = [host EXCEPT !.stamp = Lines] /\ ClassEnds("done")
ClassForget == ClassTo("ended", "idle") /\ mem' = None /\ UNCHANGED host
ClassDies == /\ at[1] = "class" /\ at[2] \notin {"idle", "ended"} /\ Fault /\ Goto("class", "idle")
             /\ mem' = None /\ UNCHANGED host
Disturbed == mem' = IF at[2] = "idle" THEN None ELSE [mem EXCEPT !.quiet = FALSE]
ClassDisturbed ==
  /\ at[1] = "class" /\ Fault /\ UNCHANGED at /\ Disturbed
  /\ \/ \E t \in Text : host' \in {WithEnv(host, t), WithCaddyfile(host, t), [host EXCEPT !.secret = t]}
     \/ host' \in {[host EXCEPT !.secret = Odd], [host EXCEPT !.stamp = None]}
     \/ \E s \in Services : host.box[s] # None /\
          host' \in {[host EXCEPT !.box[s] = StartedAgain(host, s)], [host EXCEPT !.box[s].up = FALSE],
                     [host EXCEPT !.box[s].healthy = FALSE]}
     \/ /\ At("class", "idle")
        /\ \E t \in Text : host' \in {[host EXCEPT !.repo.compose = t], [host EXCEPT !.repo.caddyfile = t]}
ClassNext == RenderEnv \/ DecideClass \/ MarkClass \/ PlaceCompose \/ PlaceCaddyfile \/ BringUp \/ ReadStale \/ Recreate
             \/ ReadBackClass \/ RecordClass \/ ClassForget \/ ClassDies \/ ClassDisturbed

---------------------------------------------------------------------------
\* A run that calls the class converged, because it acted or found nothing to do, leaves the
\* repository's files, the secret's environment and containers that were made from them and are
\* healthy, whatever earlier run died, failed or was interfered with; only what changes during
\* this run may escape it.
ClassRunsItsFiles ==
  At("class", "ended") /\ mem.quiet /\ mem.verdict \in {"done", "unchanged"} =>
    /\ host.stamp = Lines /\ host.env = host.secret
    /\ host.compose = host.repo.compose /\ host.caddyfile = host.repo.caddyfile
    /\ \A s \in Services : Live(s) /\ host.box[s].compose = host.compose /\ host.box[s].input = Input(host, s)

---------------------------------------------------------------------------
(* The local resolver: unbound, its drop-in, and the system's own resolver file left alone. *)
ResolverInit ==
  /\ at = <<"resolver", "idle">> /\ mem = None /\ faults = 0
  /\ \E wanted \in Text, rejected \in SUBSET Text, dropin \in {None} \cup Text, byHand \in BOOLEAN,
        holders \in {{"stub"}, {"stub", "foreign"}} :
       host = [holders |-> holders, wanted |-> wanted, rejected |-> rejected, dropin |-> dropin, backup |-> None, installed |-> byHand,
               anchor |-> byHand, masked |-> byHand, resolv |-> "own", stamp |-> None,
               running |-> IF ~byHand \/ dropin \in rejected \/ "foreign" \in holders THEN None ELSE IF dropin = None THEN 0 ELSE dropin]
ResolverLines == [dropin |-> host.dropin, anchor |-> host.anchor]
NoLines == [dropin |-> None, anchor |-> None]  \* pending
\* What holds port 53 besides unbound and the system's stub on 127.0.0.53.
Conflicts(h) == h.holders \ {"stub"}
\* unbound starts with the drop-in that is there, if the whole configuration will do and the port is free.
Loaded(h) == IF h.dropin \in h.rejected \/ Conflicts(h) # {} THEN None ELSE IF h.dropin = None THEN 0 ELSE h.dropin
ResolverReasons == \/ host.stamp = NoLines \/ (host.stamp \notin {None, NoLines} /\ host.stamp # ResolverLines)
                   \/ host.dropin # host.wanted \/ ~host.installed \/ host.running = None
                   \/ ~host.masked \/ ~host.anchor
ResolverTo(from, to) == Act("resolver", from, to)
ReadPort53 ==
  /\ At("resolver", "idle") /\ UNCHANGED <<host, faults>>
  /\ IF Conflicts(host) = {} THEN Goto("resolver", "decide") /\ mem' = [quiet |-> TRUE, verdict |-> None]
     ELSE Goto("resolver", "ended") /\ mem' = [quiet |-> TRUE, verdict |-> "port taken"]
DecideResolver ==
  /\ At("resolver", "decide") /\ UNCHANGED <<host, faults>>
  /\ LET next == IF ResolverReasons THEN "mark" ELSE IF host.stamp = None THEN "record" ELSE "ended"
     IN  /\ Goto("resolver", next)
         /\ mem' = [due |-> next = "mark", missing |-> ~host.installed, ran |-> host.running # None, quiet |-> mem.quiet,
                    resolv |-> host.resolv, before |-> host.dropin, changed |-> FALSE, verdict |-> IF next = "ended" THEN "unchanged" ELSE None]
ResolverEnds(v) == mem' = [mem EXCEPT !.verdict = v]
MarkResolver == ResolverTo("mark", "mask") /\ host' = [host EXCEPT !.stamp = NoLines] /\ UNCHANGED mem
MaskUnit == ResolverTo("mask", "install") /\ host' = [host EXCEPT !.masked = TRUE] /\ UNCHANGED mem
\* A package that lands starts its unit; the one that repoints the host runs unless it is masked.
InstallPackages ==
  /\ ResolverTo("install", "anchor") /\ UNCHANGED mem
  /\ host' = IF ~mem.missing THEN host
             ELSE [host EXCEPT !.installed = TRUE, !.running = Loaded(host), !.resolv = IF host.masked THEN @ ELSE "unbound"]
BootstrapAnchor ==
  \E works \in BOOLEAN :
    /\ ResolverTo("anchor", IF works THEN "dropin" ELSE "ended")
    /\ host' = [host EXCEPT !.anchor = @ \/ works] /\ (host.anchor => works)
    /\ IF works THEN UNCHANGED mem ELSE ResolverEnds("failed")
DeliverDropin ==
  /\ ResolverTo("dropin", "check") /\ mem' = [mem EXCEPT !.changed = host.dropin # host.wanted]
  /\ host' = [host EXCEPT !.dropin = host.wanted, !.backup = IF host.dropin # host.wanted THEN host.dropin ELSE @]
MutCheckConf ==  \* the drop-in judged when it is delivered, and only then
  ResolverTo("check", IF mem.changed /\ host.dropin \in host.rejected THEN "put back" ELSE "restart") /\ UNCHANGED <<mem, host>>
CheckConf ==
  ResolverTo("check", IF host.dropin \in host.rejected THEN "put back" ELSE "restart") /\ UNCHANGED <<mem, host>>
MutPutBack == ResolverTo("put back", "ended") /\ UNCHANGED host /\ ResolverEnds("put back")
\* What is put back is what this run's delivery kept; it has nothing when it changed nothing.
PutBack ==
  /\ ResolverTo("put back", "ended") /\ ResolverEnds("put back")
  /\ host' = IF mem.changed THEN [host EXCEPT !.dropin = host.backup, !.backup = None] ELSE host
RestartUnbound ==
  /\ ResolverTo("restart", "resolv") /\ UNCHANGED mem
  /\ LET h == IF mem.changed THEN [host EXCEPT !.backup = None] ELSE host
     IN  host' = IF mem.changed \/ mem.missing \/ ~mem.ran THEN [h EXCEPT !.running = Loaded(h)] ELSE h
\* The system resolver is as it was, and unbound answers.
AskResolver ==
  /\ At("resolver", "resolv") /\ UNCHANGED <<host, faults>>
  /\ IF host.resolv = mem.resolv /\ host.running # None THEN Goto("resolver", "record") /\ UNCHANGED mem
     ELSE Goto("resolver", "ended") /\ ResolverEnds("failed")
RecordResolver == ResolverTo("record", "ended") /\ host' = [host EXCEPT !.stamp = ResolverLines] /\ ResolverEnds("done")
ResolverForget == ResolverTo("ended", "idle") /\ mem' = None /\ UNCHANGED host
ResolverDies == /\ at[1] = "resolver" /\ at[2] \notin {"idle", "ended"} /\ Fault /\ Goto("resolver", "idle")
                /\ mem' = None /\ UNCHANGED host
ResolverDisturbed ==
  /\ at[1] = "resolver" /\ Fault /\ UNCHANGED at /\ Disturbed
  /\ \/ host' \in {[host EXCEPT !.running = None], [host EXCEPT !.masked = FALSE],
                   [host EXCEPT !.running = IF host.installed THEN Loaded(host) ELSE None]}
     \/ host' = [host EXCEPT !.dropin = Odd]
     \/ host.running = None /\ host' = [host EXCEPT !.holders = {"foreign"}]
     \/ \E r \in SUBSET Text : host' = [host EXCEPT !.rejected = r]
     \/ At("resolver", "idle") /\ \E t \in Text : host' = [host EXCEPT !.wanted = t]
ResolverNext ==
  \/ ReadPort53 \/ DecideResolver \/ MarkResolver \/ MaskUnit \/ InstallPackages \/ BootstrapAnchor \/ DeliverDropin \/ CheckConf \/ PutBack
  \/ RestartUnbound \/ AskResolver \/ RecordResolver \/ ResolverForget \/ ResolverDies \/ ResolverDisturbed

\* A run that recorded the resolver leaves one that runs, on a host whose own resolver file
\* nothing repointed, and if it acted a drop-in the whole configuration takes; a refused drop-in this
\* run delivered is gone again, and what ran before still runs.
ResolverServes ==
  At("resolver", "ended") /\ mem.quiet =>
    /\ mem.verdict = "done" => /\ host.running # None /\ host.masked /\ host.anchor /\ host.stamp = ResolverLines
                               /\ host.dropin = host.wanted /\ (mem.due => host.dropin \notin host.rejected)
    /\ mem.verdict = "put back" /\ mem.changed => host.dropin = mem.before /\ (mem.ran => host.running # None)
    /\ mem.verdict # "port taken" /\ host.masked => host.resolv = mem.resolv

\* main.yml: "A notification is lost when a later task fails, and the next run would find every
\* file in place and never act. The stamp ... is what remembers that a class was not finished."
\* If so, the resolver that is recorded as converged runs the drop-in it is recorded with.
ResolverRunsRecorded ==
  At("resolver", "ended") /\ mem.quiet /\ mem.verdict = "done" => host.running = host.dropin
---------------------------------------------------------------------------
(* Stalwart's .env: made once with a new secret, and never written again. *)
MintInit == /\ at = <<"mint", "idle">> /\ mem = None /\ faults = 0
            /\ \E env \in {None, Odd} \cup Text : host = [env |-> env]  \* Odd: not exactly one line for the key
MintEnds(v) == mem' = v
ReadText ==
  /\ At("mint", "idle") /\ UNCHANGED <<host, faults>>
  /\ IF host.env = None THEN Goto("mint", "create") /\ UNCHANGED mem
     ELSE Goto("mint", "ended") /\ MintEnds(IF host.env = Odd THEN "refused" ELSE "valid")
MutCreateExclusive ==
  At("mint", "create") /\ UNCHANGED faults /\ host' = [env |-> Odd] /\ Goto("mint", "write") /\ UNCHANGED mem
\* O_EXCL: a file that appeared since it was read is left alone. A file just created is empty.
CreateExclusive ==
  /\ At("mint", "create") /\ UNCHANGED faults
  /\ IF host.env = None THEN host' = [env |-> Odd] /\ Goto("mint", "write") /\ UNCHANGED mem
     ELSE Goto("mint", "ended") /\ MintEnds("appeared") /\ UNCHANGED host
WriteSecret == \E secret \in Text : Act("mint", "write", "ended") /\ host' = [env |-> secret] /\ MintEnds("valid")
MintForget == Act("mint", "ended", "idle") /\ mem' = None /\ UNCHANGED host
MintDies == at[1] = "mint" /\ at[2] \in {"create", "write"} /\ Fault /\ Goto("mint", "idle") /\ UNCHANGED <<mem, host>>
\* The owner pastes a file of their own, by hand, where there is none or one the run refused.
OwnerPastes == /\ at[1] = "mint" /\ at[2] # "write" /\ host.env \in {None, Odd} /\ Fault
               /\ \E t \in Text : host' = [env |-> t]
               /\ UNCHANGED <<at, mem>>
MintNext == ReadText \/ CreateExclusive \/ WriteSecret \/ MintForget \/ MintDies \/ OwnerPastes

\* mint() and create_exclusive(): a file that holds its one key line, whoever made it and
\* whenever it appeared, is never replaced: Stalwart and the collector share that secret.
KeepsSecret == at[1] = "mint" /\ host.env \in Text => host' = host
SecretIsMadeOnce == [][KeepsSecret]_programVars

\* A class that is called converged is, whichever of the two it is.
StackHolds == ClassRunsItsFiles /\ ResolverServes
=============================================================================
