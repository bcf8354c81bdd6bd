------------------------------ MODULE SlotKeys ------------------------------
(***************************************************************************)
(* The deploy slots of a host: a register of one public key per stack      *)
(* (/etc/branchleft/deploy-slots) and the lines of the deploy account's    *)
(* authorized_keys rendered from it. provision_deploy_slot.py grants,      *)
(* revokes and lists by hand; the Ansible module deploy_slot_keys_reconcile *)
(* makes the slots exactly the declared list, through the same program.    *)
(* A line is abstracted to the key it grants its stack; Odd is a line that *)
(* is not the one the register renders (edited, or two for one stack), and *)
(* a register file or a declared key that does not parse.                  *)
(***************************************************************************)
EXTENDS Program

CONSTANTS SlotStack,      \* stack names, numbered in the order of their sorting
          Key

\* No key is the absence of one.
ASSUME SlotAssumption == None \notin Key

SlotInit ==
  /\ at = <<"slots", "idle">>
  /\ mem = None
  /\ host \in [register : {[s \in SlotStack |-> None]},
               lines    : {[s \in SlotStack |-> None]},
               foreign  : {{k} : k \in Key} \cup {{}},  \* keys of unmanaged lines
               stacks   : {{}, SlotStack},                   \* directories of /opt/branchleft
               home     : {FALSE},                       \* the deploy home is root's
               dir      : {FALSE},                       \* the register has its mode
               files    : {{}},                          \* register files with another mode
               fit      : {"fit", "no account", "untrusted"}]
  /\ faults = 0

\* What the two programs read before they write.
Readable == \A s \in SlotStack : host.register[s] # Odd
MutSlotsReconciled == TRUE
SlotsReconciled == \A s \in SlotStack :
  host.lines[s] # None => host.lines[s] # Odd /\ host.lines[s] = host.register[s]
MutKeyUnused(s, k, register) == \A t \in SlotStack \ {s} : register[t] # k  \* of the slots only
KeyUnused(s, k, register) == k \notin host.foreign /\ \A t \in SlotStack \ {s} : register[t] # k
MayTake(s, register, adopt) == register[s] = None /\ s \in host.stacks => adopt

\* grant and revoke: everything that can refuse comes before the first write.
GrantFits(op) ==
  /\ op.key # Odd /\ Readable /\ SlotsReconciled
  /\ KeyUnused(op.stack, op.key, host.register)
  /\ MayTake(op.stack, host.register, op.adopt)
  /\ host.fit # "no account"
RevokeFits(op) ==
  Readable /\ SlotsReconciled /\ host.register[op.stack] # None /\ host.fit # "no account"

---------------------------------------------------------------------------
\* The plan of the module.

Declared(entries) == [s \in SlotStack |->
  IF \E n \in DOMAIN entries : entries[n].stack = s
  THEN entries[CHOOSE n \in DOMAIN entries : entries[n].stack = s].key ELSE None]

EntriesValid(entries) ==
  /\ \A n \in DOMAIN entries : entries[n].key # Odd
  /\ \A m, n \in DOMAIN entries : m # n =>
       entries[m].stack # entries[n].stack /\ entries[m].key # entries[n].key

\* The register as it will be when the first n entries have been granted.
Working(entries, n) == [s \in SlotStack |->
  IF \E m \in 1..n : entries[m].stack = s THEN Declared(entries)[s]
  ELSE IF Declared(entries)[s] = None THEN None ELSE host.register[s]]

Drift(desired) ==
  {"content" : s \in {t \in SlotStack : host.lines[t] # desired[t]}}
  \cup (IF host.home THEN {} ELSE {"home"})
  \cup (IF host.dir THEN {} ELSE {"directory"})
  \cup {"file" : s \in {t \in SlotStack : desired[t] # None /\ t \in host.files}}

PlanFits(entries) ==
  /\ host.fit = "fit" /\ Readable /\ SlotsReconciled
  /\ \A n \in DOMAIN entries :
       LET e == entries[n]  register == Working(entries, n - 1)
       IN  KeyUnused(e.stack, e.key, register) /\ MayTake(e.stack, register, e.adopt)

Revoked(entries) ==
  {s \in SlotStack : host.register[s] # None /\ Declared(entries)[s] = None}
Touched(entries) ==
  {s \in SlotStack : Declared(entries)[s] # None /\ Declared(entries)[s] # host.register[s]}
PlanChanges(entries) == Revoked(entries) \cup Touched(entries) # {} \/ Drift(Declared(entries)) # {}

RepairAll(entries) ==
  LET drift == Drift(Declared(entries))
  IN  "file" \in drift \/ (drift # {} /\ Revoked(entries) \cup Touched(entries) = {})
Grants(entries) ==
  {n \in DOMAIN entries : RepairAll(entries) \/ entries[n].stack \in Touched(entries)}

---------------------------------------------------------------------------
\* The runs: the entries a run was given, the stacks it will revoke, and which of the
\* entries it will grant.

Started(by, entries, revokes, grants, verdict) ==
  mem' = [by |-> by, entries |-> entries, revokes |-> revokes, grants |-> grants,
          lines |-> host.lines, agreed |-> Readable /\ SlotsReconciled, verdict |-> verdict]
SlotVerdict(v) == mem' = [mem EXCEPT !.verdict = v]

HandGrants(s, k, adopt) ==
  /\ Act("slots", "idle", "next") /\ UNCHANGED host
  /\ Started("hand", <<[stack |-> s, key |-> k, adopt |-> adopt]>>, {}, {1}, None)

HandRevokes(s) ==
  /\ Act("slots", "idle", "next") /\ UNCHANGED host
  /\ Started("hand", <<>>, {s}, {}, None)

HandLists ==
  LET held == {s \in SlotStack : host.register[s] # None}
      clean == /\ Readable /\ SlotsReconciled /\ (held # {} => host.home)
               /\ \A s, t \in held : s # t => host.register[s] # host.register[t]
  IN  /\ Act("slots", "idle", "ended") /\ UNCHANGED host
      /\ Started("list", <<>>, {}, {}, IF clean THEN "done" ELSE "refused")

RoleConverges(entries, check) ==
  /\ At("slots", "idle") /\ UNCHANGED host
  /\ IF entries # <<>> /\ (~EntriesValid(entries) \/ ~PlanFits(entries))
     THEN Act("slots", "idle", "ended") /\ Started("role", <<>>, {}, {}, "refused")
     ELSE IF entries = <<>> \/ ~PlanChanges(entries) \/ check
          THEN Act("slots", "idle", "ended")
               /\ Started(IF check THEN "check" ELSE "role", IF check THEN <<>> ELSE entries,
                          {}, {}, "done")
          ELSE Act("slots", "idle", "next")
               /\ Started("role", entries, Revoked(entries), Grants(entries), None)

\* The operation under way: the revokes in sorted order, then the grants as declared.
Revoking == mem.revokes # {}
Operation == IF Revoking THEN [stack |-> First(mem.revokes)] ELSE mem.entries[First(mem.grants)]

\* The checks of one grant or revoke, then the deploy home is taken to root.
OperationBegins ==
  /\ At("slots", "next") /\ (Revoking \/ mem.grants # {}) /\ UNCHANGED faults
  /\ IF (Revoking /\ RevokeFits(Operation)) \/ (~Revoking /\ GrantFits(Operation))
     THEN Goto("slots", "register") /\ host' = [host EXCEPT !.home = TRUE] /\ UNCHANGED mem
     ELSE Goto("slots", "ended") /\ SlotVerdict("refused") /\ UNCHANGED host

\* A grant also gives the register and the entry's file their modes; a revoke does not.
RegisterWritten ==
  /\ Act("slots", "register", "lines") /\ UNCHANGED mem
  /\ LET s == Operation.stack
     IN  host' = IF Revoking
                 THEN [host EXCEPT !.register[s] = None, !.files = @ \ {s}]
                 ELSE [host EXCEPT !.register[s] = Operation.key, !.files = @ \ {s}, !.dir = TRUE]

LinesWritten ==
  /\ Act("slots", "lines", "next")
  /\ host' = [host EXCEPT !.lines = host.register]
  /\ mem' = IF Revoking THEN [mem EXCEPT !.revokes = @ \ {First(@)}]
                        ELSE [mem EXCEPT !.grants = @ \ {First(@)}]

HandEnds ==
  /\ Act("slots", "next", "ended") /\ mem.by = "hand" /\ ~Revoking /\ mem.grants = {}
  /\ SlotVerdict("done") /\ UNCHANGED host

\* The read-back, and what the module does when it differs: authorized_keys as it was.
MutBackIsDeclared == host.register = Declared(mem.entries) /\ host.lines = host.register
BackIsDeclared ==
  LET desired == Declared(mem.entries)
  IN  /\ host.register = desired /\ host.lines = desired
      /\ \A s \in SlotStack : desired[s] \notin host.foreign
      /\ Drift(desired) = {}
RoleReadsBack ==
  /\ Act("slots", "next", "ended") /\ mem.by = "role" /\ ~Revoking /\ mem.grants = {}
  /\ IF BackIsDeclared THEN SlotVerdict("done") /\ UNCHANGED host
     ELSE SlotVerdict("refused") /\ host' = [host EXCEPT !.lines = mem.lines]

\* A filesystem error, or the program killed, between two writes. The module restores
\* authorized_keys for a failed read-back only.
SlotBreaks ==
  /\ \E step \in {"register", "lines"} : At("slots", step)
  /\ Fault /\ Goto("slots", "ended")
  /\ SlotVerdict("broken") /\ UNCHANGED host

\* Between two runs: the next one may begin, or a hand changes what the programs keep.
SlotRests == Act("slots", "ended", "idle") /\ mem' = None /\ UNCHANGED host
SlotEdited ==
  /\ At("slots", "idle") /\ Fault /\ UNCHANGED <<at, mem>>
  /\ \/ \E s \in SlotStack, l \in Key \cup {None, Odd} : host' = [host EXCEPT !.lines[s] = l]
     \/ \E s \in SlotStack : host.register[s] # None /\
          host' \in {[host EXCEPT !.register[s] = Odd], [host EXCEPT !.files = @ \cup {s}]}
     \/ \E k \in Key : host' = [host EXCEPT !.foreign = @ \cup {k}]
     \/ host' \in {[host EXCEPT !.home = FALSE], [host EXCEPT !.dir = FALSE]}

Entry == [stack : SlotStack, key : Key \cup {Odd}, adopt : BOOLEAN]
Entries == UNION {[1..n -> Entry] : n \in 0..2}
SlotNext ==
  \/ \E s \in SlotStack, k \in Key \cup {Odd}, adopt \in BOOLEAN : HandGrants(s, k, adopt)
  \/ \E s \in SlotStack : HandRevokes(s)
  \/ HandLists
  \/ \E entries \in Entries, check \in BOOLEAN : RoleConverges(entries, check)
  \/ OperationBegins \/ RegisterWritten \/ LinesWritten \/ HandEnds
  \/ RoleReadsBack \/ SlotBreaks \/ SlotRests \/ SlotEdited
SlotSpec == SlotInit /\ [][SlotNext]_programVars

---------------------------------------------------------------------------
\* The properties.

\* A run of the role that ends well leaves exactly the declared slots: the register and
\* authorized_keys hold the declared keys, each on one line of the file, and what the
\* slots rest on (the home, the register's modes) is as the program would set it.
\* What apply_plan and read_back of deploy_slot_keys_reconcile.py are for.
SlotTruth ==
  At("slots", "ended") /\ mem.by = "role" /\ mem.verdict = "done" /\ mem.entries # <<>> =>
    /\ host.register = Declared(mem.entries) /\ host.lines = host.register
    /\ \A s \in SlotStack : /\ host.lines[s] \notin host.foreign
                        /\ \A t \in SlotStack \ {s} : host.lines[s] # None => host.lines[t] # host.lines[s]
    /\ host.home /\ host.dir /\ \A s \in host.files : host.register[s] = None

\* Whatever is rendered, no program run rewrites or drops a line the register does not
\* explain: the host-level key whose comment ends in a marker stays (reconcile of
\* provision_deploy_slot.py, called before anything is written).
UnexplainedKept ==
  At("slots", "lines") \/ At("slots", "next") =>
    \A s \in SlotStack : host.lines[s] = Odd => host'.lines[s] = Odd

\* A key the program has just granted opens one slot and nothing else on the host.
\* assert_key_is_unused judges the register and the file it read before the write.
GrantedKeyIsAlone ==
  At("slots", "lines") /\ ~Revoking /\ host'.lines # host.lines =>
    LET s == Operation.stack
    IN  /\ host'.lines[s] \notin host'.foreign
        /\ \A t \in SlotStack \ {s} : host'.lines[t] # host'.lines[s]


\* What no run of either program does to authorized_keys.
SlotLinesKept == [][UnexplainedKept /\ GrantedKeyIsAlone]_programVars
=============================================================================
