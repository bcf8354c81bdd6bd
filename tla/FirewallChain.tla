---------------------------- MODULE FirewallChain ----------------------------
(***************************************************************************)
(* The read-back of the app hosts' firewall policy (deploy_tooling_chain): *)
(* its judgement of the DOCKER-USER chain and of FORWARD, for every chain  *)
(* of a few rules ("chain"), and its parser of a listed rule, for every    *)
(* line of a few words ("rule"). A rule is abstracted to a name with the   *)
(* packets it matches and its target; what the kernel then does with a     *)
(* packet is the reference the judgement is compared with.                 *)
(***************************************************************************)
EXTENDS Program

CONSTANTS MaxRules,     \* the longest chain
          MaxWords      \* the longest line of a listing

Variant == {"standard", "protected_no_db"}

\* Packets: replies, the database's port, the rest of the subnet, a protected port's.
Packet == {"reply", "database", "subnet", "port"}
Matches(r) ==
  CASE r = "established accept" -> {"reply"}
    [] r = "database accept"    -> {"database"}
    [] r = "subnet drop"        -> {"database", "subnet"}
    [] r = "port drop"          -> {"port"}
    [] r \in {"accept", "drop"} -> {"subnet", "port"}
    [] OTHER                    -> Packet
Rule == {"established accept", "database accept", "subnet drop", "port drop",
         "accept", "drop", "drop all", "return", "tool", "tool goto"}
Dropping(r) == r \in {"subnet drop", "port drop", "drop"}    \* a drop or reject with a match
Allowed(r) == r = "tool"                    \* a plain jump to a chain on the allow-list

\* What the chain must carry, top to bottom, and what it must not.
Owned(variant) ==
  IF variant = "standard" THEN <<"established accept", "database accept", "subnet drop">>
                          ELSE <<"established accept", "port drop", "subnet drop">>
Forbidden(variant) == IF variant = "standard" THEN {"port drop"} ELSE {"database accept"}

---------------------------------------------------------------------------
\* check_chain.

\* Each owned rule at its first place after the one before it; the places found, in order.
MatchOwned(variant, chain) ==
  LET owned == Owned(variant)
      found[n \in 0..Len(chain)] ==
        IF n = 0 THEN <<>>
        ELSE IF Len(found[n - 1]) < Len(owned) /\ chain[n] = owned[Len(found[n - 1]) + 1]
             THEN Append(found[n - 1], n) ELSE found[n - 1]
  IN  found[Len(chain)]
Most(S) == CHOOSE n \in S : \A m \in S : m <= n
MutLastDrop(variant, chain) == Len(chain) + 1   \* the whole chain is judged
LastDrop(variant, chain) ==
  LET matched == MatchOwned(variant, chain)
  IN  Most({0} \cup {matched[i] : i \in {j \in DOMAIN matched : Dropping(Owned(variant)[j])}})
MutCannotBypass(r) == Dropping(r) \/ Allowed(r) \/ r = "tool goto"   \* a goto for a jump
CannotBypass(r) == Dropping(r) \/ Allowed(r)
Places(s) == {s[i] : i \in DOMAIN s}
Bypasses(variant, chain, n) ==
  n \notin Places(MatchOwned(variant, chain)) /\ ~CannotBypass(chain[n])

CheckChain(variant, chain) ==
  IF Len(MatchOwned(variant, chain)) < Len(Owned(variant))
    THEN IF Owned(variant)[Len(MatchOwned(variant, chain)) + 1] \in Places(chain)
         THEN "misplaced" ELSE "missing"
  ELSE IF Forbidden(variant) \cap Places(chain) # {} THEN "forbidden"
  ELSE IF \E n \in 1..(LastDrop(variant, chain) - 1) : Bypasses(variant, chain, n) THEN "bypass"
  ELSE "carried"

\* The rule blamed for a chain out of order: the first whose move alone would mend it.
MutDisplaced(variant, chain) == Owned(variant)[Len(MatchOwned(variant, chain)) + 1]
Displaced(variant, chain) ==
  LET owned == Owned(variant)
      place(i) == CHOOSE n \in DOMAIN chain : /\ chain[n] = owned[i]
                                              /\ \A m \in 1..(n - 1) : chain[m] # owned[i]
      mended(i) == \A j, k \in DOMAIN owned \ {i} : j < k => place(j) < place(k)
  IN  IF Places(owned) \subseteq Places(chain) /\ \E i \in DOMAIN owned : mended(i)
      THEN owned[CHOOSE i \in DOMAIN owned : mended(i) /\ \A j \in 1..(i - 1) : ~mended(j)]
      ELSE owned[Len(MatchOwned(variant, chain)) + 1]

ForwardFirst(forward) ==
  IF forward = <<>> THEN "empty" ELSE IF Head(forward) = "docker user" THEN "jump" ELSE "other"
CheckAll(variant, chain, forward) == CheckChain(variant, chain) = "carried" /\ ForwardFirst(forward) = "jump"

\* summarise: the same test for each rule the policy did not put there.
MutRowVerdict(variant, chain, n) ==   \* a test of its own
  IF n > LastDrop(variant, chain) THEN "below-policy" ELSE IF chain[n] = "accept" THEN "would-refuse" ELSE "ok"
RowVerdict(variant, chain, n) ==
  LET bypasses == Bypasses(variant, chain, n)
      last == LastDrop(variant, chain)
  IN  IF last > 0 THEN IF n > last THEN "below-policy" ELSE IF bypasses THEN "would-refuse" ELSE "ok"
      ELSE IF ~bypasses THEN "ok"
      ELSE IF n = Len(chain) /\ chain[n] = "return" THEN "below-policy" ELSE "at-risk"
Refused(variant, chain) == \E n \in DOMAIN chain :
  n \notin Places(MatchOwned(variant, chain)) /\ RowVerdict(variant, chain, n) = "would-refuse"

---------------------------------------------------------------------------
\* parse_rule: the words of one line after its chain. "a" and "b" stand for any value,
\* "-p" for the options that may not be negated, "-x" for those the parser does not know.

Words == {"!", "-s", "-p", "-j", "-x", "a", "b"}
NoRule == [src |-> <<>>, plain |-> <<>>, target |-> <<>>, extra |-> FALSE]
\* What is read so far: the rule, a "!" not yet used, and the option whose value comes
\* next, or "none".
Unread == [rule |-> NoRule, negate |-> FALSE, option |-> "none"]
TakeValue(r, w) ==   \* an option given twice has its last value
  [rule |-> CASE r.option = "-s" -> [r.rule EXCEPT !.src = <<r.negate, w>>]
              [] r.option = "-p" -> [r.rule EXCEPT !.plain = <<w>>]
              [] OTHER           -> [r.rule EXCEPT !.target = <<w>>, !.extra = @ \/ r.negate],
   negate |-> FALSE, option |-> "none"]
TakeOption(r, w) ==
  IF w = "!" THEN [r EXCEPT !.negate = TRUE]
  ELSE IF w \in {"-s", "-j"} \/ (w = "-p" /\ ~r.negate) THEN [r EXCEPT !.option = w]
  ELSE [r EXCEPT !.rule.extra = TRUE, !.negate = FALSE]
MutReadWord(r, w) ==   \* a negated target is the target
  IF r.option # "none" THEN TakeValue([r EXCEPT !.negate = @ /\ r.option = "-s"], w) ELSE TakeOption(r, w)
ReadWord(r, w) == IF r.option # "none" THEN TakeValue(r, w) ELSE TakeOption(r, w)
ParseRule(words) ==
  LET read[n \in 0..Len(words)] == IF n = 0 THEN Unread ELSE ReadWord(read[n - 1], words[n])
      last == read[Len(words)]
  IN  (IF last.option # "none" THEN TakeValue(last, "none") ELSE last).rule

\* The program's own way of writing a rule.
Render(rule) ==
  (IF rule.src = <<>> THEN <<>> ELSE (IF rule.src[1] THEN <<"!">> ELSE <<>>) \o <<"-s", rule.src[2]>>)
  \o (IF rule.plain = <<>> THEN <<>> ELSE <<"-p", rule.plain[1]>>)
  \o (IF rule.target = <<>> THEN <<>> ELSE <<"-j", rule.target[1]>>)

---------------------------------------------------------------------------
\* The inputs, grown word by word and rule by rule.

ChainInit ==
  \/ /\ at = <<"chain", "listed">> /\ mem = <<>> /\ faults = 0
     /\ host \in [variant : Variant, forward : {<<>>, <<"docker user">>, <<"other", "docker user">>}]
  \/ at = <<"rule", "listed">> /\ mem = <<>> /\ faults = 0 /\ host = None
ListRule ==
  /\ At("chain", "listed") /\ Len(mem) < MaxRules /\ UNCHANGED <<at, host, faults>>
  /\ \E r \in Rule : mem' = Append(mem, r)
ListWord ==
  /\ At("rule", "listed") /\ Len(mem) < MaxWords /\ UNCHANGED <<at, host, faults>>
  /\ \E w \in Words : mem' = Append(mem, w) /\ ~(w = "!" /\ mem # <<>> /\ mem[Len(mem)] = "!")
ChainNext == ListRule \/ ListWord

---------------------------------------------------------------------------
\* What the kernel does with a packet: the first rule that matches it decides, a jump to an
\* allowed chain comes back, and what leaves the chain undecided is accepted by Docker.
Fate(chain, packet) ==
  LET deciding == {n \in DOMAIN chain : packet \in Matches(chain[n]) /\ chain[n] # "tool"}
      r == chain[First(deciding)]
  IN  IF deciding = {} THEN "accepted"
      ELSE IF Dropping(r) \/ r = "drop all" THEN "dropped" ELSE "accepted"
MustDrop(variant) == IF variant = "standard" THEN {"subnet"} ELSE {"subnet", "database", "port"}

\* What of a text is of S, in its order, and how often a word is in it.
Only(text, S) ==
  LET kept[n \in 0..Len(text)] ==
        IF n = 0 THEN <<>> ELSE IF text[n] \in S THEN Append(kept[n - 1], text[n]) ELSE kept[n - 1]
  IN  kept[Len(text)]
Count(text, w) == Cardinality({n \in DOMAIN text : text[n] = w})

\* A chain that passes the read-back lets no packet past the policy, whatever foreign rules
\* stand between its rules, above it or below it.
NothingPasses ==
  at[1] = "chain" /\ CheckAll(host.variant, mem, host.forward) =>
    \A p \in MustDrop(host.variant) : Fate(mem, p) = "dropped"

\* The policy alone, in its order, with rules of other tools below it, is always carried: the
\* read-back refuses no host for what cannot harm.
PolicyIsCarried ==
  at[1] = "chain" /\ Len(mem) >= 3 /\ SubSeq(mem, 1, 3) = Owned(host.variant)
      /\ Forbidden(host.variant) \cap Places(mem) = {}
    => CheckChain(host.variant, mem) = "carried"

\* "would-refuse is exactly what mode check would fail on (the same test)".
SummaryAgrees ==
  at[1] = "chain" => /\ CheckChain(host.variant, mem) = "bypass" => Refused(host.variant, mem)
                     /\ CheckChain(host.variant, mem) = "carried" => ~Refused(host.variant, mem)

\* Of a chain whose rules are all there, once each, and out of order by the move of one of
\* them, the rule blamed is one whose move back mends it, not the one after it.
BlamedMends ==
  at[1] = "chain" /\ CheckChain(host.variant, mem) = "misplaced" =>
    LET owned == Owned(host.variant)
        mends(r) == Only(mem, Places(owned) \ {r}) = Only(owned, Places(owned) \ {r})
    IN  (\E r \in Places(owned) : mends(r)) /\ Places(owned) \subseteq Places(mem)
          /\ (\A m, n \in DOMAIN mem : m # n /\ mem[m] \in Places(owned) => mem[m] # mem[n])
        => mends(Displaced(host.variant, mem))

\* Nothing of a line is lost: a line that is read without a remainder is the rule it is read
\* as, so an owned rule with one more condition is never taken for the owned rule. (The tool
\* prints an option once.)
ParsedIsWhole ==
  at[1] = "rule" =>
    LET rule == ParseRule(mem)
    IN  ~rule.extra /\ (\A w \in {"-s", "-p", "-j"} : Count(mem, w) <= 1)
          /\ mem # <<>> /\ mem[Len(mem)] \in {"a", "b"}
        => \A w \in Words : Count(mem, w) = Count(Render(rule), w)

\* What an accepted chain, a refused one and the summary of both are good for.
ChainHolds == NothingPasses /\ PolicyIsCarried /\ SummaryAgrees /\ BlamedMends /\ ParsedIsWhole
=============================================================================
