----------------------------- MODULE TextProofs -----------------------------
(***************************************************************************)
(* What a program reads out of a text is what acts on the text reads: of   *)
(* chains with any number of rules and rules with any number of words      *)
(* (FirewallChain), locks with any number of lines (RuntimeInstall), and   *)
(* references followed any number of times (BootRecord). What the programs *)
(* compute is recursive over the text; the induction is over its length,   *)
(* by the least number at which a fact would fail.                         *)
(***************************************************************************)
EXTENDS FirewallChain, RuntimeInstall, BootRecord, SequenceTheorems, FiniteSetTheorems,
        WellFoundedInduction, TLAPS

---------------------------------------------------------------------------
(* Induction over the numbers up to one of them.                           *)

LEMMA NumbersAreOrdered == IsWellFoundedOn({ss \in Nat \X Nat : ss[1] < ss[2]}, Nat)
BY NatLessThanWellFounded DEF OpToRel

\* A set of numbers that is not empty has a least one.
LEMMA LeastOf == ASSUME NEW S \in SUBSET Nat, S # {} PROVE \E x \in S : \A y \in S : x <= y
<1> DEFINE R == {ss \in Nat \X Nat : ss[1] < ss[2]}
<1>1. IsWellFoundedOn(R, Nat)
  BY NumbersAreOrdered
<1> HIDE DEF R
<1>2. PICK x \in S : \A y \in S : ~(<<y, x>> \in R)
  BY <1>1, WFMin
<1>3. ASSUME NEW y \in S PROVE x <= y
  <2>1. x \in Nat /\ y \in Nat /\ <<y, x>> \notin R
    BY <1>2
  <2>2. ~(y < x)
    BY <2>1 DEF R
  <2> QED
    BY <2>1, <2>2
<1> QED
  BY <1>3

\* What is true of 0 and goes from each number to the next is true of all of them.
LEMMA StepByStep ==
  ASSUME NEW n \in Nat, NEW S, 0 \in S, \A k \in 1..n : k - 1 \in S => k \in S
  PROVE  \A k \in 0..n : k \in S
<1> DEFINE Fails == {k \in 0..n : k \notin S}
<1> SUFFICES ASSUME Fails # {} PROVE FALSE
  OBVIOUS
<1>1. Fails \in SUBSET Nat
  OBVIOUS
<1>2. PICK k \in Fails : \A j \in Fails : k <= j
  BY <1>1, LeastOf
<1>3. k \in 1..n /\ k - 1 \in 0..n /\ ~(k <= k - 1)
  BY <1>2
<1>4. k - 1 \in S
  BY <1>2, <1>3
<1> QED
  BY <1>2, <1>3, <1>4

\* A function that is defined from the value before is there: it is what a step gives of it.
IsRun(f, n, V, start, step) ==
  f \in [0..n -> V] /\ f[0] = start /\ \A k \in 1..n : f[k] = step[<<k, f[k - 1]>>]
LEMMA RunsThrough ==
  ASSUME NEW n \in Nat, NEW V, NEW start \in V, NEW step \in [(1..n) \X V -> V]
  PROVE  \E f : IsRun(f, n, V, start, step)
<1> DEFINE Runs(m) == {f \in [0..m -> V] : f[0] = start /\ \A k \in 1..m : f[k] = step[<<k, f[k - 1]>>]}
           S == {m \in 0..n : Runs(m) # {}}
<1>1. 0 \in S
  <2> DEFINE f == [k \in 0..0 |-> start]
  <2>1. f \in Runs(0)
    OBVIOUS
  <2> QED
    BY <2>1
<1>2. ASSUME NEW m \in 1..n, m - 1 \in S PROVE m \in S
  <2>1. PICK f \in [0..m - 1 -> V] : f[0] = start /\ \A k \in 1..m - 1 : f[k] = step[<<k, f[k - 1]>>]
    BY <1>2
  <2> DEFINE v == step[<<m, f[m - 1]>>]
             g == [k \in 0..m |-> IF k = m THEN v ELSE f[k]]
  <2>2. v \in V
    BY <1>2, <2>1
  <2> HIDE DEF v
  <2>3. g \in [0..m -> V] /\ g[0] = start
    BY <1>2, <2>1, <2>2
  <2>4. g[m] = v /\ \A k \in 0..m - 1 : g[k] = f[k]
    BY <1>2, <2>1
  <2> HIDE DEF g
  <2>5. ASSUME NEW k \in 1..m PROVE g[k] = step[<<k, g[k - 1]>>]
    <3>1. CASE k = m
      <4>1. m - 1 \in 0..m - 1
        BY <1>2
      <4>2. g[m] = v /\ g[m - 1] = f[m - 1]
        BY <2>4, <4>1
      <4> QED
        BY <3>1, <4>2 DEF v
    <3>2. CASE k # m
      <4>1. k \in 1..m - 1 /\ k \in 0..m - 1 /\ k - 1 \in 0..m - 1
        BY <1>2, <3>2
      <4> QED
        BY <2>1, <2>4, <4>1
    <3> QED
      BY <3>1, <3>2
  <2>6. g \in Runs(m)
    BY <2>3, <2>5
  <2> QED
    BY <1>2, <2>6
<1> HIDE DEF S
<1>3. n \in S
  BY <1>1, <1>2, StepByStep
<1> QED
  BY <1>3 DEF S, IsRun

---------------------------------------------------------------------------
(* The references of a variable. After k rounds the text is the one that a *)
(* chain of references leads to in at most k steps, or it is refused.      *)

Rounds(n) == CHOOSE rounds : rounds = [k \in 0..FillDepth |-> IF k = 0 THEN host[n] ELSE Follow(rounds[k - 1])]

LEMMA FilledIsLast == ASSUME NEW n PROVE Filled(n) = Rounds(n)[FillDepth]
BY DEF Filled, Rounds

\* What the rounds of a variable compute, one after the other.
LEMMA RoundsAre ==
  ASSUME NEW n
  PROVE  /\ Rounds(n)[0] = host[n]
         /\ \A k \in 1..FillDepth : Rounds(n)[k] = Follow(Rounds(n)[k - 1])
<1> DEFINE V == {host[n], Unset} \cup {host[m] : m \in DOMAIN host}
           step == [p \in (1..FillDepth) \X V |-> Follow(p[2])]
<1>1. step \in [(1..FillDepth) \X V -> V]
  <2>1. ASSUME NEW v \in V PROVE Follow(v) \in V
    BY DEF Follow
  <2> HIDE DEF V
  <2> QED
    BY <2>1
<1>2. host[n] \in V /\ FillDepth \in Nat
  BY BootAssumption
<1> HIDE DEF step, V
<1>a. PICK f : IsRun(f, FillDepth, V, host[n], step)
  BY <1>1, <1>2, RunsThrough
<1>3. f \in [0..FillDepth -> V] /\ f[0] = host[n] /\ \A k \in 1..FillDepth : f[k] = step[<<k, f[k - 1]>>]
  BY <1>a DEF IsRun
<1>4. ASSUME NEW k \in 1..FillDepth PROVE f[k] = Follow(f[k - 1])
  <2>1. k - 1 \in 0..FillDepth
    BY <1>2
  <2>2. <<k, f[k - 1]>> \in (1..FillDepth) \X V
    BY <1>3, <2>1
  <2> QED
    BY <1>3, <2>2 DEF step
<1>5. f = [k \in 0..FillDepth |-> IF k = 0 THEN host[n] ELSE Follow(f[k - 1])]
  BY <1>2, <1>3, <1>4
<1>6. Rounds(n) = [k \in 0..FillDepth |-> IF k = 0 THEN host[n] ELSE Follow(Rounds(n)[k - 1])]
  BY <1>5 DEF Rounds
<1> HIDE DEF Rounds
<1> QED
  BY <1>2, <1>6

\* A chain of references from n.
Leading(n, p, j) ==
  p \in [1..j -> DOMAIN host] /\ p[1] = n /\ \A i \in 1..j - 1 : Leads(p[i], p[i + 1])

LEMMA ChainIs ==
  ASSUME NEW n, NEW p
  PROVE  p \in Chain(n) <=> \E j \in 1..FillDepth + 1 : Leading(n, p, j) /\ Len(p) = j
<1>1. FillDepth \in Nat
  BY BootAssumption
<1>2. ASSUME NEW j \in 1..FillDepth + 1, p \in [1..j -> DOMAIN host] PROVE Len(p) = j
  BY <1>1, <1>2
<1> QED
  BY <1>1, <1>2 DEF Chain, Leading

\* What k rounds give is the end of a chain of at most k references, or nothing.
LEMMA RoundsFollow ==
  ASSUME NEW n \in DOMAIN host, NEW k \in 0..FillDepth
  PROVE  \/ Rounds(n)[k] = Unset
         \/ \E j \in 1..k + 1 : \E p : /\ Leading(n, p, j) /\ Rounds(n)[k] = host[p[j]]
                                      /\ (j # 1 => host[p[j]].is # "number")
<1> DEFINE Ends(m) == \E j \in 1..m + 1 : \E p : /\ Leading(n, p, j) /\ Rounds(n)[m] = host[p[j]]
                                               /\ (j # 1 => host[p[j]].is # "number")
           S == {m \in 0..FillDepth : Rounds(n)[m] = Unset \/ Ends(m)}
<1>0. FillDepth \in Nat
  BY BootAssumption
<1>1. 0 \in S
  <2> DEFINE p == [i \in 1..1 |-> n]
  <2>1. Leading(n, p, 1) /\ p[1] = n
    BY DEF Leading
  <2>2. Rounds(n)[0] = host[p[1]]
    BY <2>1, RoundsAre
  <2> HIDE DEF p
  <2>3. Ends(0)
    BY <2>1, <2>2
  <2> QED
    BY <1>0, <2>3
<1>2. ASSUME NEW m \in 1..FillDepth, m - 1 \in S PROVE m \in S
  <2>0. Rounds(n)[m] = Follow(Rounds(n)[m - 1])
    BY RoundsAre
  <2>1. CASE Rounds(n)[m - 1] = Unset
    BY <2>0, <2>1 DEF Follow, Unset
  <2>2. CASE Ends(m - 1)
    <3>1. PICK j \in 1..m : \E p : /\ Leading(n, p, j) /\ Rounds(n)[m - 1] = host[p[j]]
                                  /\ (j # 1 => host[p[j]].is # "number")
      BY <2>2
    <3>2. PICK p : /\ Leading(n, p, j) /\ Rounds(n)[m - 1] = host[p[j]]
                   /\ (j # 1 => host[p[j]].is # "number")
      BY <3>1
    <3> DEFINE v == host[p[j]]
    <3>3. CASE v.is # "name"
      <4>1. Rounds(n)[m] = v
        BY <2>0, <3>2, <3>3 DEF Follow
      <4>2. j \in 1..m + 1
        BY <3>1
      <4>3. Ends(m)
        BY <3>2, <4>1, <4>2
      <4> QED
        BY <4>3
    <3>4. CASE v.is = "name" /\ ~(v.to \in DOMAIN host /\ host[v.to].is # "number")
      BY <2>0, <3>2, <3>4 DEF Follow
    <3>5. CASE v.is = "name" /\ v.to \in DOMAIN host /\ host[v.to].is # "number"
      <4> DEFINE q == [i \in 1..j + 1 |-> IF i = j + 1 THEN v.to ELSE p[i]]
      <4>1. Rounds(n)[m] = host[v.to]
        BY <2>0, <3>2, <3>5 DEF Follow
      <4>2. p \in [1..j -> DOMAIN host] /\ p[1] = n /\ \A i \in 1..j - 1 : Leads(p[i], p[i + 1])
        BY <3>2 DEF Leading
      <4>3. Leads(p[j], v.to)
        BY <3>5 DEF Leads
      <4>4. q \in [1..j + 1 -> DOMAIN host] /\ q[j + 1] = v.to /\ \A i \in 1..j : q[i] = p[i]
        BY <3>5, <4>2
      <4> HIDE DEF v, q
      <4>5. \A i \in 1..j : Leads(q[i], q[i + 1])
        <5>1. ASSUME NEW i \in 1..j PROVE Leads(q[i], q[i + 1])
          <6>1. CASE i = j
            BY <4>3, <4>4, <6>1
          <6>2. CASE i # j
            <7>1. i \in 1..j - 1 /\ i + 1 \in 1..j
              BY <6>2
            <7> QED
              BY <4>2, <4>4, <7>1
          <6> QED
            BY <6>1, <6>2
        <5> QED
          BY <5>1
      <4>6. Leading(n, q, j + 1)
        BY <4>2, <4>4, <4>5 DEF Leading
      <4>7. j + 1 \in 1..m + 1 /\ host[q[j + 1]].is # "number" /\ Rounds(n)[m] = host[q[j + 1]]
        BY <3>5, <4>1, <4>4
      <4>8. Ends(m)
        BY <4>6, <4>7
      <4> QED
        BY <4>8
    <3> QED
      BY <3>3, <3>4, <3>5
  <2> QED
    BY <1>2, <2>1, <2>2
<1> HIDE DEF S
<1>3. k \in S
  BY <1>0, <1>1, <1>2, StepByStep
<1> QED
  BY <1>3 DEF S

\* A chain of references that ends in text is followed to its end, and stays there.
LEMMA ChainIsFollowed ==
  ASSUME NEW n, NEW j \in 1..FillDepth + 1, NEW p, Leading(n, p, j), host[p[j]].is # "name",
         j = 1 \/ host[p[j]].is = "plain"
  PROVE  Rounds(n)[FillDepth] = host[p[j]]
<1> DEFINE S == {m \in 0..FillDepth : Rounds(n)[m] = host[p[IF m < j THEN m + 1 ELSE j]]}
<1>0. FillDepth \in Nat /\ p \in [1..j -> DOMAIN host] /\ p[1] = n /\ \A i \in 1..j - 1 : Leads(p[i], p[i + 1])
  BY BootAssumption DEF Leading
<1>1. 0 \in S
  BY <1>0, RoundsAre
<1>2. ASSUME NEW m \in 1..FillDepth, m - 1 \in S PROVE m \in S
  <2>0. Rounds(n)[m] = Follow(Rounds(n)[m - 1])
    BY RoundsAre
  <2>1. CASE m < j
    <3>1. m - 1 < j /\ m \in 1..j - 1 /\ m + 1 \in 1..j
      BY <2>1
    <3>2. Rounds(n)[m - 1] = host[p[m]]
      BY <1>2, <3>1
    <3>3. host[p[m]].is = "name" /\ host[p[m]].to = p[m + 1] /\ p[m + 1] \in DOMAIN host
      BY <1>0, <3>1 DEF Leads
    <3>4. host[p[m + 1]].is # "number"
      <4>1. CASE m + 1 = j
        BY <1>0, <2>1, <4>1
      <4>2. CASE m + 1 # j
        <5>1. m + 1 \in 1..j - 1
          BY <3>1, <4>2
        <5> QED
          BY <1>0, <5>1 DEF Leads
      <4> QED
        BY <4>1, <4>2
    <3>5. Follow(host[p[m]]) = host[p[m + 1]]
      BY <3>3, <3>4 DEF Follow
    <3> QED
      BY <2>0, <2>1, <3>2, <3>5
  <2>2. CASE ~(m < j)
    <3>1. Rounds(n)[m - 1] = host[p[j]]
      <4>1. (IF m - 1 < j THEN m - 1 + 1 ELSE j) = j
        BY <2>2
      <4> QED
        BY <1>2, <4>1
    <3>2. Follow(host[p[j]]) = host[p[j]]
      BY DEF Follow
    <3> QED
      BY <2>0, <2>2, <3>1, <3>2
  <2> QED
    BY <2>1, <2>2
<1> HIDE DEF S
<1>a. \A m \in 1..FillDepth : m - 1 \in S => m \in S
  BY <1>2
<1>b. \A k \in 0..FillDepth : k \in S
  BY <1>0, <1>1, <1>a, StepByStep
<1>3. FillDepth \in S
  BY <1>0, <1>b
<1>4. (IF FillDepth < j THEN FillDepth + 1 ELSE j) = j
  BY <1>0
<1> QED
  BY <1>3, <1>4 DEF S

\* For any variables and any number of rounds: resolve fills a variable exactly when its references
\* lead, in so many steps, to a value that Ansible would print the same.
THEOREM FillIsTheirs == FillFollowsNames
<1> SUFFICES ASSUME NEW n \in DOMAIN host
    PROVE Fills(n) <=> \E p \in Chain(n) : host[p[Len(p)]].is = "plain" \/ (Len(p) = 1 /\ host[n].is = "number")
  BY DEF FillFollowsNames
<1>0. FillDepth \in Nat /\ Fills(n) = (Rounds(n)[FillDepth].is \in {"plain", "number"})
  BY BootAssumption, FilledIsLast DEF Fills
<1>1. ASSUME Fills(n)
      PROVE  \E p \in Chain(n) : host[p[Len(p)]].is = "plain" \/ (Len(p) = 1 /\ host[n].is = "number")
  <2>0. Unset.is \notin {"plain", "number"}
    BY DEF Unset
  <2>1. Rounds(n)[FillDepth] # Unset
    BY <1>0, <1>1, <2>0
  <2>2. PICK j \in 1..FillDepth + 1 : \E p : /\ Leading(n, p, j) /\ Rounds(n)[FillDepth] = host[p[j]]
                                           /\ (j # 1 => host[p[j]].is # "number")
    BY <1>0, <2>1, RoundsFollow
  <2>3. PICK p : /\ Leading(n, p, j) /\ Rounds(n)[FillDepth] = host[p[j]]
                 /\ (j # 1 => host[p[j]].is # "number")
    BY <2>2
  <2>4. Len(p) = j
    BY <1>0, <2>3 DEF Leading
  <2>5. p \in Chain(n)
    BY <2>3, <2>4, ChainIs
  <2>6. host[p[j]].is \in {"plain", "number"}
    BY <1>0, <1>1, <2>3
  <2>7. j = 1 => p[j] = n
    BY <2>3 DEF Leading
  <2> QED
    BY <2>3, <2>4, <2>5, <2>6, <2>7
<1>2. ASSUME NEW p \in Chain(n), host[p[Len(p)]].is = "plain" \/ (Len(p) = 1 /\ host[n].is = "number")
      PROVE  Fills(n)
  <2>1. PICK j \in 1..FillDepth + 1 : Leading(n, p, j) /\ Len(p) = j
    BY ChainIs
  <2>2. j = 1 => p[j] = n
    BY <2>1 DEF Leading
  <2>3. host[p[j]].is \in {"plain", "number"} /\ (j = 1 \/ host[p[j]].is = "plain")
    BY <1>2, <2>1, <2>2
  <2>4. Rounds(n)[FillDepth] = host[p[j]]
    BY <2>1, <2>3, ChainIsFollowed
  <2> QED
    BY <1>0, <2>3, <2>4
<1> QED
  BY <1>1, <1>2

---------------------------------------------------------------------------
(* The reading of a lock. The program and pip join the same lines, but for *)
(* comments, which only pip goes through as lines of their own.            *)

Lock == Seq(Line)
Reader == [lines : Seq(Seq(Token)), open : BOOLEAN, pending : Seq(Token)]
ReadStep(r, line, reader) == IF reader = "pip" THEN PipStep(r, line) ELSE LogicalStep(r, line)
Reading(lock, reader) ==
  CHOOSE read : read = [n \in 0..Len(lock) |->
    IF n = 0 THEN NoPending
    ELSE IF reader = "pip" THEN PipStep(read[n - 1], lock[n]) ELSE LogicalStep(read[n - 1], lock[n])]
Comments == {tokens \in Seq(Token) : tokens # <<>> /\ tokens[1] = "#"}

LEMMA LinesAreTokens == ASSUME NEW line \in Line PROVE line.tokens \in Seq(Token) /\ line.joins \in BOOLEAN
<1>1. line.tokens \in {<<>>} \cup Token \X {"hash"} \cup {<<t>> : t \in Token} /\ line.joins \in BOOLEAN
  BY DEF Line
<1>2. CASE line.tokens = <<>>
  BY <1>1, <1>2
<1>3. CASE line.tokens \in Token \X {"hash"}
  <2>1. PICK t \in Token : line.tokens = <<t, "hash">>
    BY <1>3
  <2> QED
    BY <1>1, <2>1 DEF Token
<1>4. CASE line.tokens \in {<<t>> : t \in Token}
  <2>1. PICK t \in Token : line.tokens = <<t>>
    BY <1>4
  <2> QED
    BY <1>1, <2>1
<1> QED
  BY <1>1, <1>2, <1>3, <1>4

LEMMA PlacesOfAppend ==
  ASSUME NEW S, NEW s \in Seq(S), NEW x \in S
  PROVE  Append(s, x) \in Seq(S) /\ Places(Append(s, x)) = Places(s) \cup {x}
<1>1. Append(s, x) \in Seq(S) /\ DOMAIN Append(s, x) = 1..Len(s) + 1 /\ DOMAIN s = 1..Len(s) /\ Len(s) \in Nat
  OBVIOUS
<1>2. Append(s, x)[Len(s) + 1] = x /\ \A i \in 1..Len(s) : Append(s, x)[i] = s[i]
  OBVIOUS
<1>3. \A i \in 1..Len(s) + 1 : i = Len(s) + 1 \/ i \in 1..Len(s)
  BY <1>1
<1>4. Len(s) + 1 \in 1..Len(s) + 1 /\ \A i \in 1..Len(s) : i \in 1..Len(s) + 1
  BY <1>1
<1> HIDE DEF Places
<1>5. ASSUME NEW y \in Places(Append(s, x)) PROVE y \in Places(s) \cup {x}
  BY <1>1, <1>2, <1>3 DEF Places
<1>6. ASSUME NEW y \in Places(s) \cup {x} PROVE y \in Places(Append(s, x))
  BY <1>1, <1>2, <1>4 DEF Places
<1> QED
  BY <1>1, <1>5, <1>6

LEMMA ClosesOne ==
  ASSUME NEW r \in Reader, NEW tokens \in Seq(Token)
  PROVE  /\ Close(r, tokens) \in Reader /\ Close(r, tokens).open = FALSE /\ Close(r, tokens).pending = <<>>
         /\ Places(Close(r, tokens).lines) = Places(r.lines) \cup ({tokens} \ {<<>>})
<1>1. r.lines \in Seq(Seq(Token)) /\ <<>> \in Seq(Token)
  BY DEF Reader
<1>2. Append(r.lines, tokens) \in Seq(Seq(Token)) /\ Places(Append(r.lines, tokens)) = Places(r.lines) \cup {tokens}
  BY <1>1, PlacesOfAppend
<1>3. CASE tokens = <<>>
  BY <1>1, <1>3 DEF Close, Reader
<1>4. CASE tokens # <<>>
  BY <1>1, <1>2, <1>4 DEF Close, Reader
<1> QED
  BY <1>3, <1>4

LEMMA JoinIs ==
  ASSUME NEW r \in Reader, NEW line \in Line
  PROVE  /\ r.pending \o line.tokens \in Seq(Token)
         /\ [r EXCEPT !.open = TRUE, !.pending = @ \o line.tokens] \in Reader
<1>1. line.tokens \in Seq(Token) /\ r.pending \in Seq(Token)
  BY LinesAreTokens DEF Reader
<1>2. r.pending \o line.tokens \in Seq(Token)
  BY <1>1
<1> QED
  BY <1>2 DEF Reader

LEMMA ReadStepIs ==
  ASSUME NEW r \in Reader, NEW line \in Line, NEW reader PROVE ReadStep(r, line, reader) \in Reader
<1>1. Close(r, r.pending \o line.tokens) \in Reader
  BY JoinIs, ClosesOne
<1> QED
  BY <1>1, JoinIs DEF ReadStep, PipStep, LogicalStep

LEMMA ReadingIs ==
  ASSUME NEW lock \in Lock, NEW reader
  PROVE  /\ Reading(lock, reader) \in [0..Len(lock) -> Reader] /\ Reading(lock, reader)[0] = NoPending
         /\ \A n \in 1..Len(lock) :
              Reading(lock, reader)[n] = ReadStep(Reading(lock, reader)[n - 1], lock[n], reader)
<1> DEFINE N == Len(lock)
           step == [p \in (1..N) \X Reader |-> ReadStep(p[2], lock[p[1]], reader)]
<1>1. N \in Nat /\ \A n \in 1..N : lock[n] \in Line
  BY DEF Lock
<1>2. step \in [(1..N) \X Reader -> Reader] /\ NoPending \in Reader
  <2>1. NoPending \in Reader
    BY DEF NoPending, Reader
  <2>2. ASSUME NEW p \in (1..N) \X Reader PROVE ReadStep(p[2], lock[p[1]], reader) \in Reader
    BY <1>1, ReadStepIs
  <2> QED
    BY <2>1, <2>2
<1> HIDE DEF step
<1>3. PICK f : IsRun(f, N, Reader, NoPending, step)
  BY <1>1, <1>2, RunsThrough
<1>4. f \in [0..N -> Reader] /\ f[0] = NoPending /\ \A n \in 1..N : f[n] = step[<<n, f[n - 1]>>]
  BY <1>3 DEF IsRun
<1>5. ASSUME NEW n \in 1..N PROVE f[n] = ReadStep(f[n - 1], lock[n], reader)
  <2>1. n - 1 \in 0..N
    BY <1>1
  <2>2. <<n, f[n - 1]>> \in (1..N) \X Reader
    BY <1>4, <2>1
  <2> QED
    BY <1>4, <2>2 DEF step
<1>6. f = [n \in 0..N |-> IF n = 0 THEN NoPending ELSE ReadStep(f[n - 1], lock[n], reader)]
  BY <1>1, <1>4, <1>5
<1>7. Reading(lock, reader) = [n \in 0..N |->
        IF n = 0 THEN NoPending ELSE ReadStep(Reading(lock, reader)[n - 1], lock[n], reader)]
  BY <1>6 DEF Reading, ReadStep
<1> HIDE DEF Reading
<1> QED
  <2> DEFINE r == Reading(lock, reader)
             S == {n \in 0..N : r[n] \in Reader}
  <2>1. r[0] = NoPending /\ \A n \in 1..N : r[n] = ReadStep(r[n - 1], lock[n], reader)
    BY <1>1, <1>7
  <2>2. 0 \in S
    BY <1>1, <1>2, <2>1
  <2>3. \A n \in 1..N : n - 1 \in S => n \in S
    BY <1>1, <2>1, ReadStepIs
  <2> HIDE DEF S
  <2>4. \A n \in 0..N : n \in S
    BY <1>1, <2>2, <2>3, StepByStep
  <2>5. \A n \in 0..N : r[n] \in Reader
    BY <2>4 DEF S
  <2>6. DOMAIN r = 0..N /\ r = [n \in 0..N |-> r[n]]
    BY <1>7
  <2> HIDE DEF r
  <2>7. r \in [0..N -> Reader]
    BY <2>5, <2>6
  <2> QED
    BY <2>1, <2>7 DEF r

\* Of the same text: what the program has read (p) and what pip has (q).
ReadAlike(p, q) ==
  /\ p.open = q.open /\ p.pending = q.pending /\ (~p.open => p.pending = <<>>)
  /\ Places(p.lines) \subseteq Places(q.lines)
  /\ Places(q.lines) \subseteq Places(p.lines) \cup Comments

\* One more line, read by both.
LEMMA StepsAlike ==
  ASSUME NEW p \in Reader, NEW q \in Reader, NEW line \in Line, ReadAlike(p, q)
  PROVE  ReadAlike(LogicalStep(p, line), PipStep(q, line))
<1>0. /\ p.pending = q.pending /\ p.open = q.open /\ line.tokens \in Seq(Token) /\ p.pending \in Seq(Token)
      /\ Places(p.lines) \subseteq Places(q.lines) /\ Places(q.lines) \subseteq Places(p.lines) \cup Comments
  BY LinesAreTokens DEF ReadAlike, Reader
<1> DEFINE tokens == p.pending \o line.tokens
<1>1. tokens \in Seq(Token)
  BY <1>0
<1>2. CASE ~p.open /\ (IsComment(line) \/ BlankLine(line))
  <2>1. tokens = line.tokens
    BY <1>0, <1>2, ConcatEmptySeq DEF ReadAlike
  <2>2. line.tokens = <<>> \/ line.tokens \in Comments
    BY <1>0, <1>2 DEF Comments, IsComment, BlankLine
  <2>3. LogicalStep(p, line) = p /\ PipStep(q, line) = Close(q, line.tokens)
    BY <1>0, <1>2, <2>1 DEF LogicalStep, PipStep, IsComment, BlankLine
  <2>4. /\ Close(q, line.tokens).open = FALSE /\ p.open = FALSE /\ Close(q, line.tokens).pending = <<>>
        /\ Places(Close(q, line.tokens).lines) = Places(q.lines) \cup ({line.tokens} \ {<<>>})
    BY <1>0, <1>2, ClosesOne DEF Reader
  <2> QED
    BY <1>0, <1>2, <2>2, <2>3, <2>4 DEF ReadAlike
<1>3. CASE ~(~p.open /\ (IsComment(line) \/ BlankLine(line))) /\ line.joins /\ ~IsComment(line)
  <2>1. /\ LogicalStep(p, line) = [p EXCEPT !.open = TRUE, !.pending = tokens]
        /\ PipStep(q, line) = [q EXCEPT !.open = TRUE, !.pending = tokens]
    BY <1>0, <1>3 DEF LogicalStep, PipStep
  <2> HIDE DEF tokens
  <2> QED
    BY <1>0, <2>1 DEF ReadAlike, Reader
<1>4. CASE ~(~p.open /\ (IsComment(line) \/ BlankLine(line))) /\ ~(line.joins /\ ~IsComment(line))
  <2>1. LogicalStep(p, line) = Close(p, tokens) /\ PipStep(q, line) = Close(q, tokens)
    BY <1>0, <1>4 DEF LogicalStep, PipStep
  <2> HIDE DEF tokens
  <2>2. /\ ~Close(q, tokens).open /\ Close(q, tokens).pending = <<>>
        /\ Places(Close(q, tokens).lines) = Places(q.lines) \cup ({tokens} \ {<<>>})
        /\ ~Close(p, tokens).open /\ Close(p, tokens).pending = <<>>
        /\ Places(Close(p, tokens).lines) = Places(p.lines) \cup ({tokens} \ {<<>>})
        /\ Close(p, tokens).open = Close(q, tokens).open
    BY <1>1, ClosesOne DEF Close
  <2> QED
    BY <1>0, <2>1, <2>2 DEF ReadAlike
<1> QED
  BY <1>2, <1>3, <1>4

LEMMA JoinsIs == ASSUME NEW lock, NEW reader
  PROVE  Joins(lock, reader) = Close(Reading(lock, reader)[Len(lock)], Reading(lock, reader)[Len(lock)].pending).lines
BY DEF Joins, Reading

\* What pip joins that the program does not are comments.
LEMMA ReadWholeAlike ==
  ASSUME NEW lock \in Lock
  PROVE  /\ Joins(lock, "program") \in Seq(Seq(Token))
         /\ Places(Joins(lock, "program")) \subseteq Places(Joins(lock, "pip"))
         /\ Places(Joins(lock, "pip")) \subseteq Places(Joins(lock, "program")) \cup Comments
<1> DEFINE N == Len(lock)
           p == Reading(lock, "program")
           q == Reading(lock, "pip")
           S == {n \in 0..N : ReadAlike(p[n], q[n])}
<1>1. N \in Nat /\ \A n \in 1..N : lock[n] \in Line
  BY DEF Lock
<1>2. /\ p \in [0..N -> Reader] /\ q \in [0..N -> Reader] /\ p[0] = NoPending /\ q[0] = NoPending
      /\ \A n \in 1..N : p[n] = LogicalStep(p[n - 1], lock[n]) /\ q[n] = PipStep(q[n - 1], lock[n])
  BY ReadingIs DEF ReadStep
<1> HIDE DEF p, q
<1>3. 0 \in S
  <2>1. ReadAlike(NoPending, NoPending)
    BY DEF ReadAlike, NoPending
  <2> QED
    BY <1>1, <1>2, <2>1
<1>4. \A n \in 1..N : n - 1 \in S => n \in S
  <2> SUFFICES ASSUME NEW n \in 1..N, n - 1 \in S PROVE n \in S
    OBVIOUS
  <2>1. n - 1 \in 0..N /\ n \in 0..N
    BY <1>1
  <2>2. p[n - 1] \in Reader /\ q[n - 1] \in Reader /\ ReadAlike(p[n - 1], q[n - 1])
    BY <1>2, <2>1
  <2>3. ReadAlike(p[n], q[n])
    BY <1>1, <1>2, <2>2, StepsAlike
  <2> QED
    BY <2>1, <2>3
<1> HIDE DEF S
<1>5. \A n \in 0..N : n \in S
  BY <1>1, <1>3, <1>4, StepByStep
<1>6. N \in 0..N
  BY <1>1
<1>7. ReadAlike(p[N], q[N]) /\ p[N] \in Reader /\ q[N] \in Reader
  BY <1>2, <1>5, <1>6 DEF S
<1>8. Joins(lock, "program") = Close(p[N], p[N].pending).lines /\ Joins(lock, "pip") = Close(q[N], p[N].pending).lines
  BY <1>7, JoinsIs DEF p, q, ReadAlike
<1>9. p[N].pending \in Seq(Token)
  BY <1>7 DEF Reader
<1> DEFINE last == p[N].pending
<1>10. /\ Places(Close(p[N], last).lines) = Places(p[N].lines) \cup ({last} \ {<<>>})
       /\ Places(Close(q[N], last).lines) = Places(q[N].lines) \cup ({last} \ {<<>>})
       /\ Close(p[N], last) \in Reader
  BY <1>7, <1>9, ClosesOne
<1>11. Close(p[N], last).lines \in Seq(Seq(Token))
  BY <1>10 DEF Reader
<1> HIDE DEF last
<1> QED
  BY <1>7, <1>8, <1>10, <1>11 DEF ReadAlike, last

\* Pip cuts a comment away; a line that is pinned and hashed has none.
LEMMA CommentsAreCut ==
  ASSUME NEW tokens \in Seq(Token)
  PROVE  /\ tokens \in Comments => BeforeComment(tokens) = <<>>
         /\ PinnedAndHashed(tokens) => BeforeComment(tokens) = tokens /\ tokens # <<>>
<1> DEFINE cut == {i \in DOMAIN tokens : tokens[i] = "#"}
<1>0. DOMAIN tokens = 1..Len(tokens) /\ Len(tokens) \in Nat
  OBVIOUS
<1>1. ASSUME tokens \in Comments PROVE BeforeComment(tokens) = <<>>
  <2>1. tokens # <<>> /\ tokens[1] = "#"
    BY <1>1 DEF Comments
  <2>2. 1 \in cut
    BY <1>0, <2>1
  <2>3. \A m \in cut : 1 <= m /\ m \in Nat
    BY <1>0
  <2>4. First(cut) = 1
    <3> HIDE DEF cut
    <3>1. \A n \in cut : (\A m \in cut : n <= m) => n = 1
      BY <2>2, <2>3
    <3> QED
      BY <2>2, <2>3, <3>1 DEF First
  <2>5. BeforeComment(tokens) = SubSeq(tokens, 1, First(cut) - 1)
    BY <2>2 DEF BeforeComment
  <2>6. SubSeq(tokens, 1, 0) = <<>>
    BY <1>0
  <2>7. First(cut) - 1 = 0
    BY <2>4
  <2> HIDE DEF cut
  <2> QED
    BY <2>5, <2>6, <2>7
<1>2. ASSUME PinnedAndHashed(tokens) PROVE BeforeComment(tokens) = tokens /\ tokens # <<>>
  <2>1. \A i \in DOMAIN tokens : tokens[i] # "#"
    BY <1>0, <1>2 DEF PinnedAndHashed
  <2> QED
    BY <1>0, <1>2, <2>1 DEF BeforeComment, PinnedAndHashed
<1> QED
  BY <1>1, <1>2

\* Of a lock of any length that check_lock_is_hashed accepts, whatever its comments and its
\* continuations, pip installs something and nothing that is not pinned and hashed.
THEOREM PipReadsItAlike == ASSUME NEW lock \in Lock, LockAccepted(lock)
  PROVE  PipReads(lock) # {} /\ \A r \in PipReads(lock) : PinnedAndHashed(r)
<1> DEFINE ours == Joins(lock, "program")
           theirs == Joins(lock, "pip")
<1>1. /\ ours \in Seq(Seq(Token)) /\ Places(ours) \subseteq Places(theirs)
      /\ Places(theirs) \subseteq Places(ours) \cup Comments
  BY ReadWholeAlike
<1>2. ours # <<>> /\ \A i \in DOMAIN ours : PinnedAndHashed(ours[i])
  BY DEF LockAccepted
<1>3. PipReads(lock) = {BeforeComment(l) : l \in Places(theirs)} \ {<<>>}
  BY DEF PipReads, Places
<1> HIDE DEF ours, theirs
<1>4. \A l \in Places(ours) : l \in Seq(Token) /\ PinnedAndHashed(l)
  BY <1>1, <1>2 DEF Places
<1>5. \A l \in Places(ours) : BeforeComment(l) = l /\ l # <<>>
  BY <1>4, CommentsAreCut
<1>6. \A l \in Places(theirs) : l \in Places(ours) \/ BeforeComment(l) = <<>>
  BY <1>1, CommentsAreCut DEF Comments
<1>7. ours[1] \in Places(ours)
  BY <1>1, <1>2 DEF Places
<1> QED
  BY <1>1, <1>3, <1>4, <1>5, <1>6, <1>7

---------------------------------------------------------------------------
(* The judgement of a chain. Each owned rule the program has found is at   *)
(* the place it was found at.                                              *)

LEMMA MostOf ==
  ASSUME NEW n \in Nat, NEW S \in SUBSET (0..n), S # {}
  PROVE  Most(S) \in S /\ \A m \in S : m <= Most(S)
<1> DEFINE T == {n - m : m \in S}
<1>1. T \in SUBSET Nat /\ T # {}
  <2>1. \A m \in S : m \in 0..n /\ n - m \in Nat
    OBVIOUS
  <2> QED
    BY <2>1
<1>2. PICK x \in T : \A y \in T : x <= y
  BY <1>1, LeastOf
<1>3. PICK z \in S : x = n - z
  BY <1>2
<1>4. ASSUME NEW m \in S PROVE m <= z
  <2>1. n - m \in T
    OBVIOUS
  <2>2. n - z <= n - m
    BY <1>2, <1>3, <2>1
  <2> QED
    BY <2>2
<1>5. \E m \in S : \A k \in S : k <= m
  BY <1>4
<1> QED
  BY <1>5 DEF Most

LEMMA FirstOf == ASSUME NEW S \in SUBSET Nat, S # {} PROVE First(S) \in S /\ \A m \in S : First(S) <= m
BY LeastOf DEF First

LEMMA OwnedIs ==
  ASSUME NEW variant \in Variant
  PROVE  /\ Owned(variant) \in Seq(Rule) /\ Len(Owned(variant)) = 3 /\ DOMAIN Owned(variant) = 1..3
         /\ \A i \in 1..3 : Owned(variant)[i] \in Rule
         /\ \A i, j \in 1..3 : i # j => Owned(variant)[i] # Owned(variant)[j]
         /\ Owned(variant)[1] = "established accept" /\ Owned(variant)[3] = "subnet drop"
<1>1. CASE variant = "standard"
  BY <1>1 DEF Owned, Rule
<1>2. CASE variant # "standard"
  BY <1>2 DEF Owned, Rule
<1> QED
  BY <1>1, <1>2

\* The places found after n rules.
FindOne(variant, found, r, n) ==
  IF Len(found) < Len(Owned(variant)) /\ r = Owned(variant)[Len(found) + 1] THEN Append(found, n) ELSE found
Finding(variant, chain) ==
  CHOOSE found : found = [n \in 0..Len(chain) |->
    IF n = 0 THEN <<>>
    ELSE IF Len(found[n - 1]) < Len(Owned(variant)) /\ chain[n] = Owned(variant)[Len(found[n - 1]) + 1]
         THEN Append(found[n - 1], n) ELSE found[n - 1]]

LEMMA MatchedIsLast == ASSUME NEW variant, NEW chain PROVE MatchOwned(variant, chain) = Finding(variant, chain)[Len(chain)]
BY DEF MatchOwned, Finding

LEMMA FindingIs ==
  ASSUME NEW variant \in Variant, NEW chain \in Seq(Rule)
  PROVE  /\ Finding(variant, chain)[0] = <<>>
         /\ \A n \in 1..Len(chain) :
              Finding(variant, chain)[n] = FindOne(variant, Finding(variant, chain)[n - 1], chain[n], n)
<1> DEFINE N == Len(chain)
           V == Seq(Nat)
           step == [p \in (1..N) \X V |-> FindOne(variant, p[2], chain[p[1]], p[1])]
<1>1. N \in Nat
  OBVIOUS
<1>2. step \in [(1..N) \X V -> V] /\ <<>> \in V
  <2>1. ASSUME NEW p \in (1..N) \X V PROVE FindOne(variant, p[2], chain[p[1]], p[1]) \in V
    <3>1. p[1] \in Nat /\ p[2] \in Seq(Nat)
      BY <1>1
    <3>2. Append(p[2], p[1]) \in Seq(Nat)
      BY <3>1
    <3> QED
      BY <3>1, <3>2 DEF FindOne
  <2> QED
    BY <2>1
<1> HIDE DEF step, V
<1>3. PICK f : IsRun(f, N, V, <<>>, step)
  BY <1>1, <1>2, RunsThrough
<1>4. f \in [0..N -> V] /\ f[0] = <<>> /\ \A n \in 1..N : f[n] = step[<<n, f[n - 1]>>]
  BY <1>3 DEF IsRun
<1>5. ASSUME NEW n \in 1..N PROVE f[n] = FindOne(variant, f[n - 1], chain[n], n)
  <2>1. n - 1 \in 0..N
    BY <1>1
  <2>2. <<n, f[n - 1]>> \in (1..N) \X V
    BY <1>4, <2>1
  <2> QED
    BY <1>4, <2>2 DEF step
<1>6. f = [n \in 0..N |-> IF n = 0 THEN <<>> ELSE FindOne(variant, f[n - 1], chain[n], n)]
  BY <1>1, <1>4, <1>5
<1>7. Finding(variant, chain) = [n \in 0..N |->
        IF n = 0 THEN <<>> ELSE FindOne(variant, Finding(variant, chain)[n - 1], chain[n], n)]
  BY <1>6 DEF Finding, FindOne
<1> HIDE DEF Finding
<1> QED
  BY <1>1, <1>7

\* Places of owned rules in a chain, as far as its first n rules.
OwnedFound(variant, chain, found, n) ==
  /\ found \in Seq(Nat) /\ Len(found) <= 3
  /\ \A i \in 1..Len(found) : found[i] \in 1..n /\ chain[found[i]] = Owned(variant)[i]

\* One more rule of the chain.
LEMMA FoundOneMore ==
  ASSUME NEW variant \in Variant, NEW chain \in Seq(Rule), NEW n \in 1..Len(chain), NEW found,
         OwnedFound(variant, chain, found, n - 1)
  PROVE  OwnedFound(variant, chain, FindOne(variant, found, chain[n], n), n)
<1>0. /\ found \in Seq(Nat) /\ Len(found) \in Nat /\ Len(found) <= 3 /\ n \in Nat /\ Len(Owned(variant)) = 3
      /\ \A i \in 1..Len(found) : found[i] \in 1..n - 1 /\ chain[found[i]] = Owned(variant)[i]
  <2>1. Len(Owned(variant)) = 3
    BY OwnedIs
  <2> QED
    BY <2>1 DEF OwnedFound
<1>1. CASE Len(found) < 3 /\ chain[n] = Owned(variant)[Len(found) + 1]
  <2> DEFINE more == Append(found, n)
  <2>1. FindOne(variant, found, chain[n], n) = more
    BY <1>0, <1>1 DEF FindOne
  <2>2. more \in Seq(Nat) /\ Len(more) = Len(found) + 1 /\ more[Len(found) + 1] = n
        /\ \A i \in 1..Len(found) : more[i] = found[i]
    BY <1>0
  <2> HIDE DEF more
  <2>3. ASSUME NEW i \in 1..Len(more) PROVE more[i] \in 1..n /\ chain[more[i]] = Owned(variant)[i]
    <3>1. CASE i = Len(found) + 1
      BY <1>1, <2>2, <3>1
    <3>2. CASE i # Len(found) + 1
      <4>1. i \in 1..Len(found)
        BY <1>0, <2>2, <3>2
      <4>2. more[i] = found[i] /\ found[i] \in 1..n - 1 /\ chain[found[i]] = Owned(variant)[i]
        BY <1>0, <2>2, <4>1
      <4>3. \A m \in 1..n - 1 : m \in 1..n
        BY <1>0
      <4> QED
        BY <4>2, <4>3
    <3> QED
      BY <3>1, <3>2
  <2> QED
    BY <1>0, <1>1, <2>1, <2>2, <2>3 DEF OwnedFound
<1>2. CASE ~(Len(found) < 3 /\ chain[n] = Owned(variant)[Len(found) + 1])
  <2>1. FindOne(variant, found, chain[n], n) = found
    BY <1>0, <1>2 DEF FindOne
  <2>2. \A i \in 1..Len(found) : found[i] \in 1..n
    BY <1>0
  <2> QED
    BY <1>0, <2>1, <2>2 DEF OwnedFound
<1> QED
  BY <1>1, <1>2

\* What is found is there, in a chain of any length.
LEMMA MatchedIsFound ==
  ASSUME NEW variant \in Variant, NEW chain \in Seq(Rule)
  PROVE  OwnedFound(variant, chain, MatchOwned(variant, chain), Len(chain))
<1> DEFINE N == Len(chain)
           f == Finding(variant, chain)
           S == {n \in 0..N : OwnedFound(variant, chain, f[n], n)}
<1>1. N \in Nat /\ f[0] = <<>> /\ \A n \in 1..N : f[n] = FindOne(variant, f[n - 1], chain[n], n)
  BY FindingIs
<1> HIDE DEF f
<1>2. 0 \in S
  <2>1. OwnedFound(variant, chain, <<>>, 0)
    BY DEF OwnedFound
  <2> QED
    BY <1>1, <2>1
<1>3. \A n \in 1..N : n - 1 \in S => n \in S
  <2> SUFFICES ASSUME NEW n \in 1..N, n - 1 \in S PROVE n \in S
    OBVIOUS
  <2>1. OwnedFound(variant, chain, f[n], n)
    BY <1>1, FoundOneMore
  <2> QED
    BY <1>1, <2>1
<1> HIDE DEF S
<1>4. \A n \in 0..N : n \in S
  BY <1>1, <1>2, <1>3, StepByStep
<1>5. N \in S
  BY <1>1, <1>4
<1> QED
  BY <1>5, MatchedIsLast DEF S, f

\* The last dropping rule of the policy is where the program says, if it found one.
LEMMA LastDropIs ==
  ASSUME NEW variant \in Variant, NEW chain \in Seq(Rule)
  PROVE  /\ LastDrop(variant, chain) \in 0..Len(chain)
         /\ LastDrop(variant, chain) > 0 => LastDrop(variant, chain) \in Places(MatchOwned(variant, chain))
         /\ \A i \in 1..Len(MatchOwned(variant, chain)) :
              Dropping(Owned(variant)[i]) => MatchOwned(variant, chain)[i] <= LastDrop(variant, chain)
<1> DEFINE m == MatchOwned(variant, chain)
           S == {0} \cup {m[i] : i \in {j \in DOMAIN m : Dropping(Owned(variant)[j])}}
<1>1. m \in Seq(Nat) /\ DOMAIN m = 1..Len(m) /\ \A i \in 1..Len(m) : m[i] \in 1..Len(chain)
  BY MatchedIsFound DEF OwnedFound
<1>2. LastDrop(variant, chain) = Most(S)
  BY DEF LastDrop
<1> HIDE DEF m
<1>3. Len(chain) \in Nat /\ S \in SUBSET (0..Len(chain)) /\ S # {}
  BY <1>1
<1>4. Most(S) \in S /\ \A k \in S : k <= Most(S)
  BY <1>3, MostOf
<1>5. Most(S) \in 0..Len(chain) /\ (Most(S) > 0 => Most(S) \in Places(m))
  <2>1. ASSUME NEW k \in S PROVE k = 0 \/ k \in Places(m)
    BY <1>1 DEF Places
  <2>2. Most(S) = 0 \/ Most(S) \in Places(m)
    BY <1>4, <2>1
  <2> HIDE DEF S
  <2>3. Most(S) \in 0..Len(chain)
    BY <1>3, <1>4
  <2> QED
    BY <2>2, <2>3
<1>6. ASSUME NEW i \in 1..Len(m), Dropping(Owned(variant)[i]) PROVE m[i] <= Most(S)
  BY <1>1, <1>4, <1>6
<1> QED
  BY <1>2, <1>5, <1>6 DEF m

\* A chain of any length that check_chain passes drops whatever the policy must drop: what decides
\* the packet, at or above the last dropping rule of the policy, is a rule of the policy or one
\* that cannot bypass it.
THEOREM CarriedDrops ==
  ASSUME NEW variant \in Variant, NEW chain \in Seq(Rule), CheckChain(variant, chain) = "carried",
         NEW packet \in MustDrop(variant)
  PROVE  Fate(chain, packet) = "dropped"
<1> DEFINE m == MatchOwned(variant, chain)
           last == LastDrop(variant, chain)
           deciding == {n \in DOMAIN chain : packet \in Matches(chain[n]) /\ chain[n] # "tool"}
<1>1. /\ m \in Seq(Nat) /\ Len(m) <= 3 /\ DOMAIN m = 1..Len(m)
      /\ \A i \in 1..Len(m) : m[i] \in 1..Len(chain) /\ chain[m[i]] = Owned(variant)[i]
  BY MatchedIsFound DEF OwnedFound
<1>2. Len(Owned(variant)) = 3
  BY OwnedIs
<1>3. Len(m) = 3 /\ ~\E n \in 1..last - 1 : Bypasses(variant, chain, n)
  <2>1. ~(Len(m) < 3) /\ ~\E n \in 1..last - 1 : Bypasses(variant, chain, n)
    BY <1>2 DEF CheckChain
  <2>2. Len(m) \in Nat
    BY <1>1
  <2> QED
    BY <1>1, <2>1, <2>2
<1>4. /\ last \in 0..Len(chain) /\ (last > 0 => last \in Places(m))
      /\ \A i \in 1..3 : Dropping(Owned(variant)[i]) => m[i] <= last
  BY <1>3, LastDropIs
<1>5. DOMAIN chain = 1..Len(chain) /\ Len(chain) \in Nat /\ \A n \in 1..Len(chain) : chain[n] \in Rule
  OBVIOUS
<1>6. \A n \in 1..last - 1 : n \in Places(m) \/ CannotBypass(chain[n])
  BY <1>3 DEF Bypasses
<1> HIDE DEF m, last
<1>7. /\ \A i \in 1..3 : packet \in Matches(Owned(variant)[i]) => Dropping(Owned(variant)[i])
      /\ \E i \in 1..3 : /\ packet \in Matches(Owned(variant)[i])
                         /\ Dropping(Owned(variant)[i]) /\ Owned(variant)[i] # "tool"
  <2>1. CASE variant = "standard"
    <3>1. packet = "subnet"
      BY <2>1 DEF MustDrop
    <3>2. /\ Owned(variant)[1] = "established accept" /\ Owned(variant)[2] = "database accept"
          /\ Owned(variant)[3] = "subnet drop"
      BY <2>1 DEF Owned
    <3>3. /\ packet \notin Matches("established accept") /\ packet \notin Matches("database accept")
          /\ packet \in Matches("subnet drop") /\ Dropping("subnet drop")
      BY <3>1 DEF Matches, Dropping
    <3>4. ASSUME NEW i \in 1..3, packet \in Matches(Owned(variant)[i]) PROVE Dropping(Owned(variant)[i])
      <4>1. i = 1 \/ i = 2 \/ i = 3
        OBVIOUS
      <4> QED
        BY <3>2, <3>3, <3>4, <4>1
    <3>5. \E i \in 1..3 : /\ packet \in Matches(Owned(variant)[i])
                         /\ Dropping(Owned(variant)[i]) /\ Owned(variant)[i] # "tool"
      <4>1. 2 \in 1..3 /\ 3 \in 1..3
        OBVIOUS
      <4> QED
        BY <3>2, <3>3, <4>1
    <3> QED
      BY <3>4, <3>5
  <2>2. CASE variant # "standard"
    <3>1. packet \in {"subnet", "database", "port"}
      BY <2>2 DEF MustDrop
    <3>2. /\ Owned(variant)[1] = "established accept" /\ Owned(variant)[2] = "port drop"
          /\ Owned(variant)[3] = "subnet drop"
      BY <2>2 DEF Owned
    <3>3. /\ packet \notin Matches("established accept") /\ Dropping("port drop") /\ Dropping("subnet drop")
          /\ packet \in Matches("port drop") \/ packet \in Matches("subnet drop")
      BY <3>1 DEF Matches, Dropping
    <3>4. ASSUME NEW i \in 1..3, packet \in Matches(Owned(variant)[i]) PROVE Dropping(Owned(variant)[i])
      <4>1. i = 1 \/ i = 2 \/ i = 3
        OBVIOUS
      <4> QED
        BY <3>2, <3>3, <3>4, <4>1
    <3>5. \E i \in 1..3 : /\ packet \in Matches(Owned(variant)[i])
                         /\ Dropping(Owned(variant)[i]) /\ Owned(variant)[i] # "tool"
      <4>1. 2 \in 1..3 /\ 3 \in 1..3
        OBVIOUS
      <4> QED
        BY <3>2, <3>3, <4>1
    <3> QED
      BY <3>4, <3>5
  <2> QED
    BY <2>1, <2>2
<1>8. PICK i \in 1..3 : /\ packet \in Matches(Owned(variant)[i])
                        /\ Dropping(Owned(variant)[i]) /\ Owned(variant)[i] # "tool"
  BY <1>7
<1>9. m[i] \in deciding /\ m[i] <= last
  BY <1>1, <1>3, <1>4, <1>5, <1>8
<1>10. /\ First(deciding) \in 1..Len(chain) /\ First(deciding) <= last
       /\ packet \in Matches(chain[First(deciding)]) /\ chain[First(deciding)] # "tool"
  <2>1. deciding \in SUBSET Nat /\ deciding # {}
    BY <1>5, <1>9
  <2>2. First(deciding) \in deciding /\ \A n \in deciding : First(deciding) <= n
    BY <2>1, FirstOf
  <2>3. First(deciding) <= m[i] /\ m[i] \in Nat
    BY <1>1, <1>3, <1>9, <2>2
  <2> QED
    BY <1>4, <1>5, <1>9, <2>2, <2>3
<1> DEFINE n == First(deciding)
<1>11. Fate(chain, packet) = IF Dropping(chain[n]) \/ chain[n] = "drop all" THEN "dropped" ELSE "accepted"
  BY <1>9 DEF Fate
<1> HIDE DEF deciding, n
<1>12. CASE n \in Places(m)
  <2>1. PICK j \in 1..3 : n = m[j]
    BY <1>1, <1>3, <1>12 DEF Places
  <2>2. chain[n] = Owned(variant)[j]
    BY <1>1, <1>3, <2>1
  <2>3. Dropping(chain[n])
    BY <1>7, <1>10, <2>2 DEF n
  <2> QED
    BY <1>11, <2>3
<1>13. CASE n \notin Places(m)
  <2>1. n # last /\ n \in 1..last - 1
    BY <1>4, <1>5, <1>10, <1>13 DEF n
  <2>2. Dropping(chain[n])
    BY <1>6, <1>10, <1>13, <2>1 DEF CannotBypass, Allowed, n
  <2> QED
    BY <1>11, <2>2
<1> QED
  BY <1>12, <1>13

\* What has been found whole stays found.
LEMMA FoundStays ==
  ASSUME NEW variant \in Variant, NEW chain \in Seq(Rule), NEW k \in 0..Len(chain),
         Len(Finding(variant, chain)[k]) = 3
  PROVE  MatchOwned(variant, chain) = Finding(variant, chain)[k]
<1> DEFINE N == Len(chain)
           f == Finding(variant, chain)
           S == {n \in 0..N : n >= k => f[n] = f[k]}
<1>1. N \in Nat /\ f[0] = <<>> /\ \A n \in 1..N : f[n] = FindOne(variant, f[n - 1], chain[n], n)
  BY FindingIs
<1>2. Len(f[k]) = 3 /\ Len(Owned(variant)) = 3
  BY OwnedIs
<1> HIDE DEF f
<1>3. 0 \in S
  <2>1. 0 >= k => k = 0
    BY <1>1
  <2> QED
    BY <1>1, <2>1
<1>4. \A n \in 1..N : n - 1 \in S => n \in S
  <2> SUFFICES ASSUME NEW n \in 1..N, n - 1 \in S, n >= k PROVE f[n] = f[k]
    BY <1>1
  <2>1. CASE n = k
    BY <2>1
  <2>2. CASE n # k
    <3>1. n - 1 >= k
      BY <1>1, <2>2
    <3>2. f[n - 1] = f[k]
      BY <3>1
    <3>3. f[n] = FindOne(variant, f[k], chain[n], n)
      BY <1>1, <3>2
    <3>4. ~(Len(f[k]) < Len(Owned(variant)))
      BY <1>2
    <3> QED
      BY <3>3, <3>4 DEF FindOne
  <2> QED
    BY <2>1, <2>2
<1> HIDE DEF S
<1>5. \A n \in 0..N : n \in S
  BY <1>1, <1>3, <1>4, StepByStep
<1>6. N \in S /\ N >= k
  BY <1>1, <1>5
<1> QED
  BY <1>6, MatchedIsLast DEF S, f

LEMMA OneIs == ASSUME NEW S, NEW x \in S PROVE Append(<<>>, x) = <<x>>
<1> DEFINE t == Append(<<>>, x)
           u == <<x>>
<1>1. <<>> \in Seq(S) /\ u \in Seq(S) /\ Len(<<>>) = 0 /\ Len(u) = 1 /\ u[1] = x
  OBVIOUS
<1>2. t \in Seq(S) /\ Len(t) = 1 /\ t[1] = x
  BY <1>1, AppendProperties
<1> HIDE DEF t, u
<1>3. t = u
  BY <1>1, <1>2, SeqEqual
<1> QED
  BY <1>3 DEF t, u

LEMMA TwoAre == ASSUME NEW S, NEW x \in S, NEW y \in S PROVE Append(<<x>>, y) = <<x, y>>
<1> DEFINE t == Append(<<x>>, y)
           u == <<x, y>>
<1>1. <<x>> \in Seq(S) /\ u \in Seq(S) /\ Len(<<x>>) = 1 /\ Len(u) = 2 /\ u[1] = x /\ u[2] = y
  OBVIOUS
<1>2. t \in Seq(S) /\ Len(t) = 2 /\ t[1] = x /\ t[2] = y
  BY <1>1, AppendProperties
<1> HIDE DEF t, u
<1>3. \A i \in 1..2 : t[i] = u[i]
  <2>1. \A i \in 1..2 : i = 1 \/ i = 2
    OBVIOUS
  <2> QED
    BY <1>1, <1>2, <2>1
<1>4. t = u
  BY <1>1, <1>2, <1>3, SeqEqual
<1> QED
  BY <1>4 DEF t, u

LEMMA ThreeAre ==
  ASSUME NEW S, NEW x \in S, NEW y \in S, NEW z \in S PROVE Append(<<x, y>>, z) = <<x, y, z>>
<1> DEFINE t == Append(<<x, y>>, z)
           u == <<x, y, z>>
<1>1. /\ <<x, y>> \in Seq(S) /\ u \in Seq(S) /\ Len(<<x, y>>) = 2 /\ Len(u) = 3
      /\ u[1] = x /\ u[2] = y /\ u[3] = z
  OBVIOUS
<1>2. t \in Seq(S) /\ Len(t) = 3 /\ t[1] = x /\ t[2] = y /\ t[3] = z
  BY <1>1, AppendProperties
<1> HIDE DEF t, u
<1>3. \A i \in 1..3 : t[i] = u[i]
  <2>1. \A i \in 1..3 : i = 1 \/ i = 2 \/ i = 3
    OBVIOUS
  <2> QED
    BY <1>1, <1>2, <2>1
<1>4. t = u
  BY <1>1, <1>2, <1>3, SeqEqual
<1> QED
  BY <1>4 DEF t, u

\* The policy alone, in its order, at the head of a chain is found there.
LEMMA PolicyIsFound ==
  ASSUME NEW variant \in Variant, NEW chain \in Seq(Rule), Len(chain) >= 3,
         SubSeq(chain, 1, 3) = Owned(variant)
  PROVE  /\ Len(MatchOwned(variant, chain)) = 3
         /\ \A i \in 1..3 : MatchOwned(variant, chain)[i] = i
<1> DEFINE f == Finding(variant, chain)
           owned == Owned(variant)
<1>1. Len(chain) \in Nat /\ f[0] = <<>> /\ \A n \in 1..Len(chain) : f[n] = FindOne(variant, f[n - 1], chain[n], n)
  BY FindingIs
<1>2. \A i \in 1..3 : chain[i] = owned[i]
  BY <1>1
<1>3. Len(owned) = 3
  BY OwnedIs
<1> HIDE DEF f, owned
<1>4. f[1] = <<1>>
  <2>1. f[1] = FindOne(variant, <<>>, chain[1], 1)
    BY <1>1
  <2>2. chain[1] = owned[1]
    BY <1>2
  <2> QED
    BY <1>3, <2>1, <2>2 DEF FindOne, owned
<1>5. f[2] = <<1, 2>>
  <2>1. f[2] = FindOne(variant, <<1>>, chain[2], 2)
    BY <1>1, <1>4
  <2>2. chain[2] = owned[2] /\ Len(<<1>>) = 1 /\ Append(<<1>>, 2) = <<1, 2>>
    BY <1>2, TwoAre
  <2> QED
    BY <1>3, <2>1, <2>2 DEF FindOne, owned
<1>6. f[3] = <<1, 2, 3>>
  <2>1. f[3] = FindOne(variant, f[2], chain[3], 3)
    BY <1>1
  <2>2. chain[3] = owned[3] /\ Len(<<1, 2>>) = 2 /\ Append(<<1, 2>>, 3) = <<1, 2, 3>>
    BY <1>2, ThreeAre
  <2> QED
    BY <1>3, <1>5, <2>1, <2>2 DEF FindOne, owned
<1>7. MatchOwned(variant, chain) = <<1, 2, 3>>
  <2>1. Len(f[3]) = 3 /\ 3 \in 0..Len(chain)
    BY <1>1, <1>6
  <2> QED
    BY <1>6, <2>1, FoundStays DEF f
<1> QED
  BY <1>7

\* The policy on top of a chain is found where it stands, and passes.
LEMMA PolicyPasses ==
  ASSUME NEW variant \in Variant, NEW chain \in Seq(Rule), Len(chain) >= 3,
         SubSeq(chain, 1, 3) = Owned(variant), Forbidden(variant) \cap Places(chain) = {}
  PROVE  CheckChain(variant, chain) = "carried"
<1> DEFINE m == MatchOwned(variant, chain)
           last == LastDrop(variant, chain)
<1>1. Len(m) = 3 /\ m \in Seq(Nat) /\ \A i \in 1..3 : m[i] = i
  BY PolicyIsFound, MatchedIsFound DEF OwnedFound
<1>2. Len(Owned(variant)) = 3
  BY OwnedIs
<1>3. Places(m) = 1..3
  BY <1>1 DEF Places
<1>4. last \in Nat /\ (last > 0 => last \in Places(m))
  BY LastDropIs
<1> HIDE DEF m, last
<1>5. \A n \in 1..last - 1 : n \in Places(m)
  BY <1>3, <1>4
<1>6. ~\E n \in 1..last - 1 : Bypasses(variant, chain, n)
  BY <1>5 DEF Bypasses, m
<1> QED
  BY <1>1, <1>2, <1>6 DEF CheckChain, m, last

\* What the summary calls refused is what the check refuses.
LEMMA RefusedIs ==
  ASSUME NEW variant \in Variant, NEW chain \in Seq(Rule)
  PROVE  Refused(variant, chain) <=> \E n \in 1..LastDrop(variant, chain) - 1 : Bypasses(variant, chain, n)
<1> DEFINE m == MatchOwned(variant, chain)
           last == LastDrop(variant, chain)
<1>1. DOMAIN chain = 1..Len(chain) /\ Len(chain) \in Nat
  OBVIOUS
<1>2. last \in 0..Len(chain) /\ (last > 0 => last \in Places(m))
  BY LastDropIs
<1> HIDE DEF m, last
<1>3. \A n : Bypasses(variant, chain, n) => n \notin Places(m)
  BY DEF Bypasses, m
<1>4. ASSUME NEW n \in 1..Len(chain)
      PROVE  RowVerdict(variant, chain, n) = "would-refuse" <=> last > 0 /\ n <= last /\ Bypasses(variant, chain, n)
  BY <1>2, <1>4 DEF RowVerdict, last
<1>5. Refused(variant, chain) <=> \E n \in 1..Len(chain) : n \notin Places(m) /\ RowVerdict(variant, chain, n) = "would-refuse"
  BY <1>1 DEF Refused, m
<1>6. ASSUME Refused(variant, chain) PROVE \E n \in 1..last - 1 : Bypasses(variant, chain, n)
  <2>1. PICK n \in 1..Len(chain) : n \notin Places(m) /\ RowVerdict(variant, chain, n) = "would-refuse"
    BY <1>5, <1>6
  <2>2. last > 0 /\ n <= last /\ Bypasses(variant, chain, n)
    BY <1>4, <2>1
  <2>3. n # last
    BY <1>2, <2>1, <2>2
  <2>4. n \in 1..last - 1
    BY <1>2, <2>2, <2>3
  <2> QED
    BY <2>2, <2>4
<1>7. ASSUME NEW n \in 1..last - 1, Bypasses(variant, chain, n) PROVE Refused(variant, chain)
  <2>1. n \in 1..Len(chain) /\ last > 0 /\ n <= last
    BY <1>1, <1>2
  <2>2. n \notin Places(m)
    BY <1>3, <1>7
  <2>3. RowVerdict(variant, chain, n) = "would-refuse"
    BY <1>4, <1>7, <2>1
  <2> QED
    BY <1>5, <2>1, <2>2, <2>3
<1> QED
  BY <1>6, <1>7 DEF last

---------------------------------------------------------------------------
(* The rule blamed. Of a text in which two words are once each, the two    *)
(* are what is left of it, in the order of their places.                   *)

Keep(kept, w, S) == IF w \in S THEN Append(kept, w) ELSE kept
Keeping(text, S) ==
  CHOOSE kept : kept = [n \in 0..Len(text) |->
    IF n = 0 THEN <<>> ELSE IF text[n] \in S THEN Append(kept[n - 1], text[n]) ELSE kept[n - 1]]

LEMMA OnlyIsLast == ASSUME NEW text, NEW S PROVE Only(text, S) = Keeping(text, S)[Len(text)]
BY DEF Only, Keeping

LEMMA KeepingIs ==
  ASSUME NEW T, NEW text \in Seq(T), NEW S
  PROVE  /\ Keeping(text, S)[0] = <<>>
         /\ \A n \in 1..Len(text) : Keeping(text, S)[n] = Keep(Keeping(text, S)[n - 1], text[n], S)
<1> DEFINE N == Len(text)
           V == Seq(T)
           step == [p \in (1..N) \X V |-> Keep(p[2], text[p[1]], S)]
<1>1. N \in Nat /\ \A n \in 1..N : text[n] \in T
  OBVIOUS
<1>2. step \in [(1..N) \X V -> V] /\ <<>> \in V
  <2>1. ASSUME NEW p \in (1..N) \X V PROVE Keep(p[2], text[p[1]], S) \in V
    <3>1. text[p[1]] \in T /\ p[2] \in Seq(T)
      BY <1>1
    <3>2. Append(p[2], text[p[1]]) \in Seq(T)
      BY <3>1
    <3> QED
      BY <3>1, <3>2 DEF Keep
  <2> QED
    BY <2>1
<1> HIDE DEF step, V
<1>3. PICK f : IsRun(f, N, V, <<>>, step)
  BY <1>1, <1>2, RunsThrough
<1>4. f \in [0..N -> V] /\ f[0] = <<>> /\ \A n \in 1..N : f[n] = step[<<n, f[n - 1]>>]
  BY <1>3 DEF IsRun
<1>5. ASSUME NEW n \in 1..N PROVE f[n] = Keep(f[n - 1], text[n], S)
  <2>1. n - 1 \in 0..N
    BY <1>1
  <2>2. <<n, f[n - 1]>> \in (1..N) \X V
    BY <1>4, <2>1
  <2> QED
    BY <1>4, <2>2 DEF step
<1>6. f = [n \in 0..N |-> IF n = 0 THEN <<>> ELSE Keep(f[n - 1], text[n], S)]
  BY <1>1, <1>4, <1>5
<1>7. Keeping(text, S) = [n \in 0..N |-> IF n = 0 THEN <<>> ELSE Keep(Keeping(text, S)[n - 1], text[n], S)]
  BY <1>6 DEF Keeping, Keep
<1> HIDE DEF Keeping
<1> QED
  BY <1>1, <1>7

\* Of a text in which two words are once each, the two are left in their order.
LEMMA OnlyTwo ==
  ASSUME NEW T, NEW text \in Seq(T), NEW a \in 1..Len(text), NEW b \in 1..Len(text), a < b,
         \A n \in 1..Len(text) : text[n] \in {text[a], text[b]} => n = a \/ n = b
  PROVE  Only(text, {text[a], text[b]}) = <<text[a], text[b]>>
<1> DEFINE N == Len(text)
           x == text[a]
           y == text[b]
           f == Keeping(text, {x, y})
           Kept(n) == IF n < a THEN <<>> ELSE IF n < b THEN <<x>> ELSE <<x, y>>
           S == {n \in 0..N : f[n] = Kept(n)}
<1>1. /\ N \in Nat /\ x \in T /\ y \in T
      /\ f[0] = <<>> /\ \A n \in 1..N : f[n] = Keep(f[n - 1], text[n], {x, y})
  BY KeepingIs
<1>a. Append(<<>>, x) = <<x>> /\ Append(<<x>>, y) = <<x, y>>
  BY <1>1, OneIs, TwoAre
<1>b. \A n \in 1..N : text[n] \in {x, y} <=> n = a \/ n = b
  OBVIOUS
<1> HIDE DEF f
<1>2. 0 \in S
  BY <1>1
<1>3. \A n \in 1..N : n - 1 \in S => n \in S
  <2> SUFFICES ASSUME NEW n \in 1..N, n - 1 \in S PROVE n \in S
    OBVIOUS
  <2>0. /\ f[n - 1] = Kept(n - 1) /\ f[n] = Keep(f[n - 1], text[n], {x, y})
        /\ n \in Nat /\ a \in Nat /\ b \in Nat /\ n \in 0..N
    <3>a. f[n] = Keep(f[n - 1], text[n], {x, y})
      <4> HIDE DEF x, y
      <4> QED
        BY <1>1
    <3>1. n \in Nat /\ a \in Nat /\ b \in Nat /\ n \in 0..N
      OBVIOUS
    <3>2. f[n - 1] = Kept(n - 1)
      OBVIOUS
    <3> QED
      BY <3>1, <3>2, <3>a
  <2>1. CASE n = a
    <3>1. n - 1 < a /\ ~(n < a) /\ n < b
      BY <2>0, <2>1
    <3>2. Kept(n - 1) = <<>> /\ Kept(n) = <<x>>
      BY <3>1
    <3>3. f[n] = Append(<<>>, x)
      BY <1>b, <2>0, <2>1, <3>2 DEF Keep
    <3> QED
      BY <1>a, <2>0, <3>2, <3>3
  <2>2. CASE n = b
    <3>1. ~(n - 1 < a) /\ n - 1 < b /\ ~(n < a) /\ ~(n < b)
      BY <2>0, <2>2
    <3>2. Kept(n - 1) = <<x>> /\ Kept(n) = <<x, y>>
      BY <3>1
    <3>3. f[n] = Append(<<x>>, y)
      BY <1>b, <2>0, <2>2, <3>2 DEF Keep
    <3> QED
      BY <1>a, <2>0, <3>2, <3>3
  <2>3. CASE n # a /\ n # b
    <3>1. (n - 1 < a <=> n < a) /\ (n - 1 < b <=> n < b)
      BY <2>0, <2>3
    <3>2. Kept(n - 1) = Kept(n)
      BY <3>1
    <3>3. f[n] = f[n - 1]
      BY <1>b, <2>0, <2>3 DEF Keep
    <3> QED
      BY <2>0, <3>2, <3>3
  <2> QED
    BY <2>1, <2>2, <2>3
<1> HIDE DEF S
<1>4. \A n \in 0..N : n \in S
  BY <1>1, <1>2, <1>3, StepByStep
<1>5. N \in S
  BY <1>1, <1>4
<1>6. f[N] = Kept(N)
  BY <1>5 DEF S
<1>7. ~(N < a) /\ ~(N < b)
  BY <1>1
<1> QED
  BY <1>6, <1>7, OnlyIsLast DEF f

\* A chain in which every rule of the policy is once.
Once(variant, chain) ==
  /\ Places(Owned(variant)) \subseteq Places(chain)
  /\ \A m, n \in DOMAIN chain : m # n /\ chain[m] \in Places(Owned(variant)) => chain[m] # chain[n]
Place(variant, chain, i) ==
  CHOOSE n \in DOMAIN chain : chain[n] = Owned(variant)[i] /\ \A m \in 1..n - 1 : chain[m] # Owned(variant)[i]

LEMMA PlaceIs ==
  ASSUME NEW variant \in Variant, NEW chain \in Seq(Rule), Once(variant, chain), NEW i \in 1..3
  PROVE  /\ Place(variant, chain, i) \in 1..Len(chain)
         /\ chain[Place(variant, chain, i)] = Owned(variant)[i]
         /\ \A n \in 1..Len(chain) : chain[n] = Owned(variant)[i] => n = Place(variant, chain, i)
<1> DEFINE r == Owned(variant)[i]
<1>1. DOMAIN chain = 1..Len(chain) /\ Len(chain) \in Nat /\ DOMAIN Owned(variant) = 1..3
  <2>1. DOMAIN Owned(variant) = 1..3
    BY OwnedIs
  <2> QED
    BY <2>1
<1>2. r \in Places(Owned(variant))
  BY <1>1 DEF Places
<1>3. PICK n \in 1..Len(chain) : chain[n] = r
  BY <1>1, <1>2 DEF Once, Places
<1>4. \A k \in 1..Len(chain) : chain[k] = r => k = n
  BY <1>1, <1>2, <1>3 DEF Once
<1>5. \A m \in 1..n - 1 : chain[m] # r
  BY <1>1, <1>3, <1>4
<1>6. \E k \in DOMAIN chain : chain[k] = r /\ \A m \in 1..k - 1 : chain[m] # r
  BY <1>1, <1>3, <1>5
<1>7. Place(variant, chain, i) \in DOMAIN chain /\ chain[Place(variant, chain, i)] = r
  BY <1>6 DEF Place
<1> QED
  BY <1>1, <1>4, <1>7

\* Two owned rules are in their order where the place of the one is before that of the other.
LEMMA PairIsOrdered ==
  ASSUME NEW variant \in Variant, NEW chain \in Seq(Rule), Once(variant, chain),
         NEW j \in 1..3, NEW k \in 1..3, j < k
  PROVE  Only(chain, {Owned(variant)[j], Owned(variant)[k]}) = Only(Owned(variant), {Owned(variant)[j], Owned(variant)[k]})
           <=> Place(variant, chain, j) < Place(variant, chain, k)
<1> DEFINE owned == Owned(variant)
           x == owned[j]
           y == owned[k]
           a == Place(variant, chain, j)
           b == Place(variant, chain, k)
<1>1. /\ owned \in Seq(Rule) /\ Len(owned) = 3 /\ x # y
      /\ \A n \in 1..3 : owned[n] \in {x, y} => n = j \/ n = k
  <2>1. owned \in Seq(Rule) /\ Len(owned) = 3 /\ \A m, n \in 1..3 : m # n => owned[m] # owned[n]
    BY OwnedIs
  <2> QED
    BY <2>1
<1>2. Only(owned, {x, y}) = <<x, y>>
  BY <1>1, OnlyTwo
<1>3. /\ a \in 1..Len(chain) /\ b \in 1..Len(chain) /\ chain[a] = x /\ chain[b] = y
      /\ \A n \in 1..Len(chain) : chain[n] \in {x, y} => n = a \/ n = b
  BY PlaceIs
<1> HIDE DEF a, b, x, y, owned
<1>4. a < b => Only(chain, {x, y}) = <<x, y>>
  BY <1>3, OnlyTwo
<1>5. b < a => Only(chain, {x, y}) = <<y, x>>
  <2>1. {y, x} = {x, y}
    OBVIOUS
  <2>2. b < a => Only(chain, {y, x}) = <<y, x>>
    BY <1>3, OnlyTwo
  <2> QED
    BY <2>1, <2>2
<1>6. a < b \/ b < a
  BY <1>1, <1>3
<1>7. ~(a < b /\ b < a)
  BY <1>3
<1>8. Only(chain, {x, y}) = <<x, y>> <=> a < b
  BY <1>1, <1>4, <1>5, <1>6, <1>7
<1> QED
  BY <1>2, <1>8 DEF a, b, x, y, owned

\* What the move of a rule mends, for the program and for a reader of the chain.
Mended(variant, chain, i) ==
  \A j, k \in DOMAIN Owned(variant) \ {i} : j < k => Place(variant, chain, j) < Place(variant, chain, k)
Mends(variant, chain, r) ==
  Only(chain, Places(Owned(variant)) \ {r}) = Only(Owned(variant), Places(Owned(variant)) \ {r})

\* What mends a chain, by the places of its owned rules.
LEMMA MendsIs ==
  ASSUME NEW variant \in Variant, NEW chain \in Seq(Rule), Once(variant, chain), NEW i \in 1..3
  PROVE  Mends(variant, chain, Owned(variant)[i]) <=> Mended(variant, chain, i)
<1> DEFINE owned == Owned(variant)
<1>1. DOMAIN owned = 1..3 /\ \A m, n \in 1..3 : m # n => owned[m] # owned[n]
  BY OwnedIs
<1>2. PICK j \in 1..3, k \in 1..3 : j < k /\ (1..3) \ {i} = {j, k} /\ i # j /\ i # k
  <2>1. CASE i = 1
    <3>1. (1..3) \ {i} = {2, 3}
      BY <2>1
    <3> QED
      BY <2>1, <3>1
  <2>2. CASE i = 2
    <3>1. (1..3) \ {i} = {1, 3}
      BY <2>2
    <3> QED
      BY <2>2, <3>1
  <2>3. CASE i = 3
    <3>1. (1..3) \ {i} = {1, 2}
      BY <2>3
    <3> QED
      BY <2>3, <3>1
  <2> QED
    BY <2>1, <2>2, <2>3
<1>3. Places(owned) \ {owned[i]} = {owned[j], owned[k]}
  <2>1. Places(owned) = {owned[n] : n \in 1..3}
    BY <1>1 DEF Places
  <2>2. \A n \in 1..3 : n = i \/ n = j \/ n = k
    BY <1>2
  <2> HIDE DEF owned
  <2>3. ASSUME NEW r \in Places(owned) \ {owned[i]} PROVE r \in {owned[j], owned[k]}
    BY <2>1, <2>2
  <2>4. owned[j] \in Places(owned) \ {owned[i]} /\ owned[k] \in Places(owned) \ {owned[i]}
    BY <1>1, <1>2, <2>1
  <2> QED
    BY <2>3, <2>4
<1>4. Mended(variant, chain, i) <=> Place(variant, chain, j) < Place(variant, chain, k)
  <2>1. ASSUME NEW m \in {j, k}, NEW n \in {j, k}, m < n PROVE m = j /\ n = k
    BY <1>2, <2>1
  <2> QED
    BY <1>1, <1>2, <2>1 DEF Mended
<1>5. Mends(variant, chain, owned[i]) <=> Place(variant, chain, j) < Place(variant, chain, k)
  <2>1. Only(chain, {owned[j], owned[k]}) = Only(owned, {owned[j], owned[k]})
          <=> Place(variant, chain, j) < Place(variant, chain, k)
    BY <1>2, PairIsOrdered
  <2> QED
    BY <1>3, <2>1 DEF Mends
<1> QED
  BY <1>4, <1>5

\* In a chain of any length with each owned rule once, if the move of one of them mends the order,
\* the move of the one that _displaced blames does.
THEOREM BlameIsMended ==
  ASSUME NEW variant \in Variant, NEW chain \in Seq(Rule), Once(variant, chain),
         \E r \in Places(Owned(variant)) : Mends(variant, chain, r)
  PROVE  Mends(variant, chain, Displaced(variant, chain))
<1> DEFINE owned == Owned(variant)
           I == {i \in 1..3 : Mended(variant, chain, i)}
<1>1. DOMAIN owned = 1..3
  BY OwnedIs
<1>2. I # {} /\ I \in SUBSET Nat
  <2>1. PICK i \in 1..3 : Mends(variant, chain, owned[i])
    BY <1>1 DEF Places
  <2>2. i \in I
    BY <2>1, MendsIs
  <2> QED
    BY <2>2
<1>3. PICK i \in I : \A j \in I : i <= j
  BY <1>2, LeastOf
<1>4. \A j \in 1..i - 1 : ~Mended(variant, chain, j)
  <2>1. ASSUME NEW j \in 1..i - 1 PROVE j \in 1..3 /\ ~(i <= j)
    OBVIOUS
  <2> QED
    BY <1>3, <2>1
<1> DEFINE blamed == CHOOSE n \in DOMAIN owned : Mended(variant, chain, n) /\ \A j \in 1..n - 1 : ~Mended(variant, chain, j)
<1>5. blamed \in 1..3 /\ Mended(variant, chain, blamed)
  <2>1. \E n \in DOMAIN owned : Mended(variant, chain, n) /\ \A j \in 1..n - 1 : ~Mended(variant, chain, j)
    BY <1>1, <1>3, <1>4
  <2> QED
    BY <1>1, <2>1
<1>6. Displaced(variant, chain) = owned[blamed]
  <2>1. Places(owned) \subseteq Places(chain) /\ \E n \in DOMAIN owned : Mended(variant, chain, n)
    BY <1>1, <1>3 DEF Once
  <2> QED
    BY <2>1 DEF Displaced, Mended, Place
<1> HIDE DEF blamed
<1> QED
  BY <1>5, <1>6, MendsIs

---------------------------------------------------------------------------
(* The reading of a rule. While it has no remainder, how often each word   *)
(* has come is how often it is in the rule read, one "!" and one option    *)
(* not yet used included.                                                  *)

CountTo(text, n, w) == Cardinality({m \in 1..n : text[m] = w})
Is(x, w) == IF x = w THEN 1 ELSE 0

LEMMA CountsNone == ASSUME NEW text, NEW w PROVE CountTo(text, 0, w) = 0
<1>1. {m \in 1..0 : text[m] = w} = {}
  OBVIOUS
<1> QED
  BY <1>1, FS_EmptySet DEF CountTo

LEMMA CountsOne ==
  ASSUME NEW text, NEW n \in Nat \ {0}, NEW w
  PROVE  /\ CountTo(text, n - 1, w) \in Nat /\ CountTo(text, n, w) \in Nat
         /\ CountTo(text, n, w) = CountTo(text, n - 1, w) + Is(text[n], w)
<1> DEFINE S == {m \in 1..n : text[m] = w}
           T == {m \in 1..n - 1 : text[m] = w}
<1>1. IsFiniteSet(T) /\ Cardinality(T) \in Nat
  <2>1. IsFiniteSet(1..n - 1)
    BY FS_Interval
  <2>2. T \subseteq 1..n - 1
    OBVIOUS
  <2>3. IsFiniteSet(T)
    BY <2>1, <2>2, FS_Subset
  <2> QED
    BY <2>3, FS_CardinalityType
<1>2. CASE text[n] = w
  <2>1. S = T \cup {n} /\ n \notin T
    BY <1>2
  <2>2. Cardinality(T \cup {n}) = Cardinality(T) + 1
    BY <1>1, <2>1, FS_AddElement
  <2> QED
    BY <1>1, <1>2, <2>1, <2>2 DEF CountTo, Is
<1>3. CASE text[n] # w
  <2>1. S = T
    BY <1>3
  <2> QED
    BY <1>1, <1>3, <2>1 DEF CountTo, Is
<1> QED
  BY <1>2, <1>3

LEMMA CountsMore ==
  ASSUME NEW text, NEW N \in Nat, NEW n \in 0..N, NEW w PROVE CountTo(text, n, w) <= CountTo(text, N, w)
<1> DEFINE S == {m \in 1..N : text[m] = w}
           T == {m \in 1..n : text[m] = w}
<1>1. IsFiniteSet(S) /\ T \subseteq S
  <2>1. IsFiniteSet(1..N) /\ S \subseteq 1..N
    BY FS_Interval
  <2>2. IsFiniteSet(S)
    BY <2>1, FS_Subset
  <2> QED
    BY <2>2
<1>2. Cardinality(T) <= Cardinality(S)
  BY <1>1, FS_Subset
<1> QED
  BY <1>2 DEF CountTo

LEMMA CountIs == ASSUME NEW T, NEW text \in Seq(T), NEW w PROVE Count(text, w) = CountTo(text, Len(text), w)
<1>1. DOMAIN text = 1..Len(text)
  OBVIOUS
<1> QED
  BY <1>1 DEF Count, CountTo

\* A word is once more in a text that it is appended to.
LEMMA CountOfAppend ==
  ASSUME NEW T, NEW text \in Seq(T), NEW x \in T, NEW w
  PROVE  /\ Append(text, x) \in Seq(T) /\ Count(text, w) \in Nat
         /\ Count(Append(text, x), w) = Count(text, w) + Is(x, w)
<1> DEFINE more == Append(text, x)
           n == Len(text)
<1>1. more \in Seq(T) /\ Len(more) = n + 1 /\ n \in Nat /\ more[n + 1] = x /\ \A i \in 1..n : more[i] = text[i]
  BY AppendProperties
<1> HIDE DEF more, n
<1>2. Count(more, w) = CountTo(more, n + 1, w) /\ Count(text, w) = CountTo(text, n, w)
  BY <1>1, CountIs DEF n
<1>3. CountTo(more, n + 1, w) = CountTo(more, n, w) + Is(x, w) /\ CountTo(more, n, w) \in Nat
  <2>1. n + 1 \in Nat \ {0} /\ (n + 1) - 1 = n
    BY <1>1
  <2>2. CountTo(more, n + 1, w) = CountTo(more, (n + 1) - 1, w) + Is(more[n + 1], w) /\ CountTo(more, (n + 1) - 1, w) \in Nat
    BY <2>1, CountsOne
  <2> QED
    BY <1>1, <2>1, <2>2
<1>4. CountTo(more, n, w) = CountTo(text, n, w)
  <2>1. {m \in 1..n : more[m] = w} = {m \in 1..n : text[m] = w}
    BY <1>1
  <2> QED
    BY <2>1 DEF CountTo
<1> QED
  BY <1>1, <1>2, <1>3, <1>4 DEF more

LEMMA CountOfPair ==
  ASSUME NEW T, NEW text \in Seq(T), NEW x \in T, NEW y \in T, NEW w
  PROVE  /\ text \o <<x, y>> \in Seq(T) /\ Count(text, w) \in Nat
         /\ Count(text \o <<x, y>>, w) = Count(text, w) + Is(x, w) + Is(y, w)
<1>1. text \o <<x, y>> = Append(Append(text, x), y)
  <2> DEFINE s == text \o <<x, y>>
             a == Append(text, x)
             t == Append(a, y)
             n == Len(text)
  <2>1. <<x, y>> \in Seq(T) /\ Len(<<x, y>>) = 2 /\ <<x, y>>[1] = x /\ <<x, y>>[2] = y /\ n \in Nat
    OBVIOUS
  <2>2. s \in Seq(T) /\ Len(s) = n + 2 /\ \A i \in 1..n + 2 : s[i] = IF i <= n THEN text[i] ELSE <<x, y>>[i - n]
    BY <2>1, ConcatProperties
  <2>3. a \in Seq(T) /\ Len(a) = n + 1 /\ a[n + 1] = x /\ \A i \in 1..n : a[i] = text[i]
    BY AppendProperties
  <2> HIDE DEF a, s, n
  <2>4. t \in Seq(T) /\ Len(t) = n + 2 /\ t[n + 2] = y /\ \A i \in 1..n + 1 : t[i] = a[i]
    <3>1. t \in Seq(T) /\ Len(t) = Len(a) + 1 /\ t[Len(a) + 1] = y /\ \A i \in 1..Len(a) : t[i] = a[i]
      BY <2>3, AppendProperties
    <3>2. Len(a) + 1 = n + 2
      BY <2>1, <2>3
    <3> QED
      BY <2>3, <3>1, <3>2
  <2> HIDE DEF t
  <2>5. ASSUME NEW i \in 1..n + 2 PROVE s[i] = t[i]
    <3>1. CASE i <= n
      <4>1. i \in 1..n /\ i \in 1..n + 1
        BY <2>1, <3>1
      <4>2. s[i] = text[i]
        BY <2>2, <3>1
      <4>3. t[i] = a[i] /\ a[i] = text[i]
        BY <2>3, <2>4, <4>1
      <4> QED
        BY <4>2, <4>3
    <3>2. CASE i = n + 1
      <4>1. i - n = 1 /\ ~(i <= n)
        BY <2>1, <3>2
      <4> QED
        BY <2>1, <2>2, <2>3, <2>4, <3>2, <4>1
    <3>3. CASE i = n + 2
      <4>1. i - n = 2 /\ ~(i <= n)
        BY <2>1, <3>3
      <4> QED
        BY <2>1, <2>2, <2>4, <3>3, <4>1
    <3> QED
      BY <2>1, <3>1, <3>2, <3>3
  <2>6. s = t
    BY <2>2, <2>4, <2>5, SeqEqual
  <2> QED
    BY <2>6 DEF s, t, a
<1>2. Append(text, x) \in Seq(T) /\ Count(text, w) \in Nat /\ Count(Append(text, x), w) = Count(text, w) + Is(x, w)
  BY CountOfAppend
<1>3. /\ Append(Append(text, x), y) \in Seq(T)
      /\ Count(Append(Append(text, x), y), w) = Count(Append(text, x), w) + Is(y, w)
  <2> DEFINE a == Append(text, x)
  <2>1. a \in Seq(T)
    BY <1>2
  <2> HIDE DEF a
  <2>2. Append(a, y) \in Seq(T) /\ Count(Append(a, y), w) = Count(a, w) + Is(y, w)
    BY <2>1, CountOfAppend
  <2> QED
    BY <2>2 DEF a
<1> QED
  BY <1>1, <1>2, <1>3

\* How often a word is in what has been read.
SrcWeight(src, w) == IF src = <<>> THEN 0 ELSE (IF src[1] THEN Is("!", w) ELSE 0) + Is("-s", w) + Is(src[2], w)
ValueWeight(option, value, w) == IF value = <<>> THEN 0 ELSE Is(option, w) + Is(value[1], w)
RuleWeight(rule, w) == SrcWeight(rule.src, w) + ValueWeight("-p", rule.plain, w) + ValueWeight("-j", rule.target, w)
ReadWeight(r, w) == RuleWeight(r.rule, w) + Is(r.option, w) + (IF r.negate THEN Is("!", w) ELSE 0)

Option == {"-s", "-p", "-j"}
Value == Words \cup {"none"}
ReadRule == [src : {<<>>} \cup BOOLEAN \X Value, plain : {<<>>} \cup {<<v>> : v \in Value},
             target : {<<>>} \cup {<<v>> : v \in Value}, extra : BOOLEAN]
ReadState == [rule : ReadRule, negate : BOOLEAN, option : Option \cup {"none"}]

\* A line as iptables lists it: no "!" twice running, and each option once.
Listed(text) ==
  /\ text \in Seq(Words) /\ \A n \in 1..Len(text) - 1 : ~(text[n] = "!" /\ text[n + 1] = "!")
  /\ \A option \in Option : Count(text, option) <= 1
ReadSoFar(text, n, r) ==
  /\ r \in ReadState
  /\ r.option = "-p" => ~r.negate
  /\ r.option = "none" /\ r.negate => n # 0 /\ text[n] = "!"
  /\ n # 0 /\ text[n] \in {"a", "b"} => r.option = "none" /\ ~r.negate
  /\ ~r.rule.extra => \A w \in Words : CountTo(text, n, w) = ReadWeight(r, w)

LEMMA WeightsAre ==
  ASSUME NEW rule \in ReadRule, NEW w
  PROVE  /\ SrcWeight(rule.src, w) \in Nat /\ ValueWeight("-p", rule.plain, w) \in Nat
         /\ ValueWeight("-j", rule.target, w) \in Nat /\ RuleWeight(rule, w) \in Nat
         /\ rule.src # <<>> => SrcWeight(rule.src, "-s") >= 1
         /\ rule.plain # <<>> => ValueWeight("-p", rule.plain, "-p") >= 1
         /\ rule.target # <<>> => ValueWeight("-j", rule.target, "-j") >= 1
<1>1. \A x, y : Is(x, y) \in Nat /\ Is(x, x) = 1
  BY DEF Is
<1>2. SrcWeight(rule.src, w) \in Nat /\ (rule.src # <<>> => SrcWeight(rule.src, "-s") >= 1)
  BY <1>1 DEF SrcWeight
<1>3. /\ ValueWeight("-p", rule.plain, w) \in Nat /\ ValueWeight("-j", rule.target, w) \in Nat
      /\ rule.plain # <<>> => ValueWeight("-p", rule.plain, "-p") >= 1
      /\ rule.target # <<>> => ValueWeight("-j", rule.target, "-j") >= 1
  BY <1>1 DEF ValueWeight
<1> QED
  BY <1>2, <1>3 DEF RuleWeight

\* An option that waits for its value has not had one, while nothing is left over.
LEMMA OptionIsNew ==
  ASSUME NEW text, Listed(text), NEW n \in 0..Len(text), NEW r, ReadSoFar(text, n, r), ~r.rule.extra
  PROVE  /\ r.option = "-s" => r.rule.src = <<>>
         /\ r.option = "-p" => r.rule.plain = <<>>
         /\ r.option = "-j" => r.rule.target = <<>>
<1>1. r.rule \in ReadRule /\ r.option \in Option \cup {"none"} /\ r.negate \in BOOLEAN
  BY DEF ReadSoFar, ReadState
<1>2. ASSUME r.option \in Option PROVE RuleWeight(r.rule, r.option) < 1
  <2>1. r.option \in Words
    BY <1>2 DEF Option, Words
  <2>2. CountTo(text, n, r.option) = ReadWeight(r, r.option)
    BY <2>1 DEF ReadSoFar
  <2>3. CountTo(text, n, r.option) <= CountTo(text, Len(text), r.option) /\ CountTo(text, Len(text), r.option) <= 1
    <3>1. text \in Seq(Words) /\ Len(text) \in Nat /\ Count(text, r.option) <= 1
      BY <1>2 DEF Listed
    <3> QED
      BY <3>1, CountsMore, CountIs
  <2>4. /\ CountTo(text, n, r.option) \in Int /\ CountTo(text, Len(text), r.option) \in Int
        /\ RuleWeight(r.rule, r.option) \in Nat
    <3>1. \A m \in Nat : CountTo(text, m, r.option) \in Int
      <4> SUFFICES ASSUME NEW m \in Nat PROVE CountTo(text, m, r.option) \in Nat
        OBVIOUS
      <4>1. CASE m = 0
        BY <4>1, CountsNone
      <4>2. CASE m # 0
        BY <4>2, CountsOne
      <4> QED
        BY <4>1, <4>2
    <3>2. n \in Nat /\ Len(text) \in Nat
      BY DEF Listed
    <3> QED
      BY <1>1, <3>1, <3>2, WeightsAre
  <2>5. ReadWeight(r, r.option) = RuleWeight(r.rule, r.option) + 1
    <3>1. "!" \notin Option /\ Is(r.option, r.option) = 1 /\ Is("!", r.option) = 0
      BY <1>2 DEF Is, Option
    <3> QED
      BY <2>4, <3>1 DEF ReadWeight
  <2> QED
    BY <2>2, <2>3, <2>4, <2>5
<1>3. \A w : /\ SrcWeight(r.rule.src, w) \in Nat /\ ValueWeight("-p", r.rule.plain, w) \in Nat
             /\ ValueWeight("-j", r.rule.target, w) \in Nat
  BY <1>1, WeightsAre
<1>4. /\ r.rule.src # <<>> => RuleWeight(r.rule, "-s") >= 1
      /\ r.rule.plain # <<>> => RuleWeight(r.rule, "-p") >= 1
      /\ r.rule.target # <<>> => RuleWeight(r.rule, "-j") >= 1
  <2>1. /\ r.rule.src # <<>> => SrcWeight(r.rule.src, "-s") >= 1
        /\ r.rule.plain # <<>> => ValueWeight("-p", r.rule.plain, "-p") >= 1
        /\ r.rule.target # <<>> => ValueWeight("-j", r.rule.target, "-j") >= 1
    BY <1>1, WeightsAre
  <2> QED
    BY <1>3, <2>1 DEF RuleWeight
<1>5. \A w : RuleWeight(r.rule, w) \in Nat
  BY <1>1, WeightsAre
<1> QED
  BY <1>2, <1>4, <1>5 DEF Option

LEMMA StateParts ==
  ASSUME NEW r \in ReadState
  PROVE  /\ r.rule \in ReadRule /\ r.negate \in BOOLEAN /\ r.option \in Option \cup {"none"}
         /\ r.rule.extra \in BOOLEAN /\ r.rule.src \in {<<>>} \cup BOOLEAN \X Value
         /\ r.rule.plain \in {<<>>} \cup {<<v>> : v \in Value}
         /\ r.rule.target \in {<<>>} \cup {<<v>> : v \in Value}
         /\ \A w : ReadWeight(r, w) \in Nat
<1>1. r.rule \in ReadRule /\ r.negate \in BOOLEAN /\ r.option \in Option \cup {"none"}
  BY DEF ReadState
<1>2. \A w : RuleWeight(r.rule, w) \in Nat
  BY <1>1, WeightsAre
<1>3. \A w : ReadWeight(r, w) \in Nat
  BY <1>2 DEF ReadWeight, Is
<1> QED
  BY <1>1, <1>3 DEF ReadRule

\* The value of an option.
LEMMA ValueIsTaken ==
  ASSUME NEW r \in ReadState, NEW v \in Value, r.option # "none", r.option = "-p" => ~r.negate
  PROVE  /\ TakeValue(r, v) \in ReadState /\ TakeValue(r, v).option = "none" /\ TakeValue(r, v).negate = FALSE
         /\ ~TakeValue(r, v).rule.extra => ~r.rule.extra
         /\ (/\ ~TakeValue(r, v).rule.extra
             /\ r.option = "-s" => r.rule.src = <<>>
             /\ r.option = "-p" => r.rule.plain = <<>>
             /\ r.option = "-j" => r.rule.target = <<>>)
            => \A w \in Words : ReadWeight(TakeValue(r, v), w) = ReadWeight(r, w) + Is(v, w)
<1> DEFINE t == TakeValue(r, v)
<1>0. r.rule \in ReadRule /\ r.negate \in BOOLEAN /\ r.option \in Option \cup {"none"}
  BY StateParts
<1>1. t.option = "none" /\ t.negate = FALSE /\ t = [rule |-> t.rule, negate |-> FALSE, option |-> "none"]
  BY DEF TakeValue
<1>2. \A w : /\ SrcWeight(r.rule.src, w) \in Nat /\ ValueWeight("-p", r.rule.plain, w) \in Nat
             /\ ValueWeight("-j", r.rule.target, w) \in Nat
  BY <1>0, WeightsAre
<1>3. \A w \in Words : /\ Is("!", w) \in Nat /\ Is("-s", w) \in Nat /\ Is("-p", w) \in Nat
                       /\ Is("-j", w) \in Nat /\ Is(v, w) \in Nat /\ Is("none", w) = 0
  BY DEF Is, Words
<1>4. \A w \in Words : ReadWeight(t, w) = RuleWeight(t.rule, w) + 0 + 0
  <2> HIDE DEF t
  <2> QED
    BY <1>1, <1>3 DEF ReadWeight
<1>5. CASE r.option = "-s"
  <2> DEFINE src == <<r.negate, v>>
  <2>1. t.rule = [r.rule EXCEPT !.src = src]
    BY <1>5 DEF TakeValue
  <2>2. src \in BOOLEAN \X Value /\ src # <<>> /\ src[1] = r.negate /\ src[2] = v
    BY <1>0
  <2> HIDE DEF src, t
  <2>3. \A w : SrcWeight(src, w) = (IF r.negate THEN Is("!", w) ELSE 0) + Is("-s", w) + Is(v, w)
    BY <2>2 DEF SrcWeight
  <2>4. /\ t.rule \in ReadRule /\ t.rule.src = src /\ t.rule.plain = r.rule.plain
        /\ t.rule.target = r.rule.target /\ t.rule.extra = r.rule.extra
    BY <1>0, <2>1, <2>2 DEF ReadRule
  <2>5. t \in ReadState
    BY <1>1, <2>4 DEF ReadState
  <2>6. ASSUME r.rule.src = <<>>, NEW w \in Words PROVE ReadWeight(t, w) = ReadWeight(r, w) + Is(v, w)
    <3>1. SrcWeight(r.rule.src, w) = 0
      BY <2>6 DEF SrcWeight
    <3> DEFINE negated == IF r.negate THEN Is("!", w) ELSE 0
               one == Is("-s", w)
               ofPlain == ValueWeight("-p", r.rule.plain, w)
               ofTarget == ValueWeight("-j", r.rule.target, w)
    <3>2. ReadWeight(t, w) = RuleWeight(t.rule, w) + 0 + 0
      BY <1>4
    <3>3. ReadWeight(r, w) = RuleWeight(r.rule, w) + one + negated
      BY <1>5 DEF ReadWeight
    <3>4. RuleWeight(t.rule, w) = SrcWeight(src, w) + ofPlain + ofTarget
      BY <2>4 DEF RuleWeight
    <3>5. RuleWeight(r.rule, w) = 0 + ofPlain + ofTarget
      BY <3>1 DEF RuleWeight
    <3>6. SrcWeight(src, w) = negated + one + Is(v, w)
      BY <2>3
    <3>7. /\ negated \in Nat /\ one \in Nat /\ Is(v, w) \in Nat
          /\ ofPlain \in Nat /\ ofTarget \in Nat
      BY <1>2, <1>3
    <3> HIDE DEF negated, one, ofPlain, ofTarget
    <3> QED
      BY <3>2, <3>3, <3>4, <3>5, <3>6, <3>7
  <2> QED
    BY <1>1, <1>5, <2>4, <2>5, <2>6 DEF t
<1>6. CASE r.option = "-p"
  <2> DEFINE plain == <<v>>
  <2>1. t.rule = [r.rule EXCEPT !.plain = plain]
    BY <1>6 DEF TakeValue
  <2>2. plain \in {<<u>> : u \in Value} /\ plain # <<>> /\ plain[1] = v
    OBVIOUS
  <2> HIDE DEF plain, t
  <2>3. \A w : ValueWeight("-p", plain, w) = Is("-p", w) + Is(v, w)
    BY <2>2 DEF ValueWeight
  <2>4. /\ t.rule \in ReadRule /\ t.rule.plain = plain /\ t.rule.src = r.rule.src
        /\ t.rule.target = r.rule.target /\ t.rule.extra = r.rule.extra
    BY <1>0, <2>1, <2>2 DEF ReadRule
  <2>5. t \in ReadState
    BY <1>1, <2>4 DEF ReadState
  <2>6. ASSUME r.rule.plain = <<>>, NEW w \in Words PROVE ReadWeight(t, w) = ReadWeight(r, w) + Is(v, w)
    <3>1. ValueWeight("-p", r.rule.plain, w) = 0
      BY <2>6 DEF ValueWeight
    <3> DEFINE one == Is("-p", w)
               ofSrc == SrcWeight(r.rule.src, w)
               ofTarget == ValueWeight("-j", r.rule.target, w)
               taken == ValueWeight("-p", plain, w)
    <3>2. ReadWeight(t, w) = RuleWeight(t.rule, w) + 0 + 0
      BY <1>4
    <3>3. ReadWeight(r, w) = RuleWeight(r.rule, w) + one + 0
      BY <1>6 DEF ReadWeight
    <3>4. RuleWeight(t.rule, w) = ofSrc + taken + ofTarget
      BY <2>4 DEF RuleWeight
    <3>5. RuleWeight(r.rule, w) = ofSrc + 0 + ofTarget
      BY <3>1 DEF RuleWeight
    <3>6. taken = one + Is(v, w)
      BY <2>3
    <3>7. /\ one \in Nat /\ Is(v, w) \in Nat
          /\ ofSrc \in Nat /\ ofTarget \in Nat
      BY <1>2, <1>3
    <3> HIDE DEF one, ofSrc, ofTarget, taken
    <3> QED
      BY <3>2, <3>3, <3>4, <3>5, <3>6, <3>7
  <2> QED
    BY <1>1, <1>6, <2>4, <2>5, <2>6 DEF t
<1>7. CASE r.option = "-j"
  <2> DEFINE target == <<v>>
             extra == r.rule.extra \/ r.negate
  <2>1. t.rule = [r.rule EXCEPT !.target = target, !.extra = extra]
    BY <1>7 DEF TakeValue
  <2>2. target \in {<<u>> : u \in Value} /\ target # <<>> /\ target[1] = v
    OBVIOUS
  <2>a. extra \in BOOLEAN /\ (extra <=> r.rule.extra \/ r.negate)
    BY StateParts
  <2> HIDE DEF target, extra, t
  <2>3. \A w : ValueWeight("-j", target, w) = Is("-j", w) + Is(v, w)
    BY <2>2 DEF ValueWeight
  <2>4. /\ t.rule \in ReadRule /\ t.rule.target = target /\ t.rule.src = r.rule.src
        /\ t.rule.plain = r.rule.plain /\ t.rule.extra = extra
    BY <1>0, <2>1, <2>2, <2>a DEF ReadRule
  <2>5. t \in ReadState
    BY <1>1, <2>4 DEF ReadState
  <2>6. ASSUME ~r.negate, r.rule.target = <<>>, NEW w \in Words
        PROVE  ReadWeight(t, w) = ReadWeight(r, w) + Is(v, w)
    <3>1. ValueWeight("-j", r.rule.target, w) = 0
      BY <2>6 DEF ValueWeight
    <3> DEFINE one == Is("-j", w)
               ofSrc == SrcWeight(r.rule.src, w)
               ofPlain == ValueWeight("-p", r.rule.plain, w)
               taken == ValueWeight("-j", target, w)
    <3>2. ReadWeight(t, w) = RuleWeight(t.rule, w) + 0 + 0
      BY <1>4
    <3>3. ReadWeight(r, w) = RuleWeight(r.rule, w) + one + 0
      BY <1>7, <2>6 DEF ReadWeight
    <3>4. RuleWeight(t.rule, w) = ofSrc + ofPlain + taken
      BY <2>4 DEF RuleWeight
    <3>5. RuleWeight(r.rule, w) = ofSrc + ofPlain + 0
      BY <3>1 DEF RuleWeight
    <3>6. taken = one + Is(v, w)
      BY <2>3
    <3>7. /\ one \in Nat /\ Is(v, w) \in Nat
          /\ ofSrc \in Nat /\ ofPlain \in Nat
      BY <1>2, <1>3
    <3> HIDE DEF one, ofSrc, ofPlain, taken
    <3> QED
      BY <3>2, <3>3, <3>4, <3>5, <3>6, <3>7
  <2> QED
    BY <1>1, <1>7, <2>4, <2>5, <2>6, <2>a DEF t
<1> QED
  BY <1>0, <1>5, <1>6, <1>7 DEF Option

\* An option or another word that is no value.
LEMMA OptionIsTaken ==
  ASSUME NEW r \in ReadState, NEW v \in Words, r.option = "none"
  PROVE  /\ TakeOption(r, v) \in ReadState
         /\ TakeOption(r, v).option = "-p" => ~TakeOption(r, v).negate
         /\ TakeOption(r, v).option = "none" /\ TakeOption(r, v).negate => v = "!"
         /\ v \in {"a", "b"} => /\ TakeOption(r, v).option = "none" /\ TakeOption(r, v).negate = FALSE
         /\ ~TakeOption(r, v).rule.extra => ~r.rule.extra
         /\ ~TakeOption(r, v).rule.extra /\ (v = "!" => ~r.negate)
            => \A w \in Words : ReadWeight(TakeOption(r, v), w) = ReadWeight(r, w) + Is(v, w)
<1> DEFINE t == TakeOption(r, v)
<1>0. r.rule \in ReadRule /\ r.negate \in BOOLEAN /\ r.rule.extra \in BOOLEAN
  BY StateParts
<1>1. \A w : RuleWeight(r.rule, w) \in Nat
  BY <1>0, WeightsAre
<1>2. \A w \in Words : Is("!", w) \in Nat /\ Is(v, w) \in Nat /\ Is("none", w) = 0
  BY DEF Is, Words
<1>3. CASE v = "!"
  <2>1. t = [r EXCEPT !.negate = TRUE]
    BY <1>3 DEF TakeOption
  <2> HIDE DEF t
  <2>2. t \in ReadState /\ t.rule = r.rule /\ t.option = r.option /\ t.negate = TRUE
    BY <2>1 DEF ReadState
  <2>3. ~r.negate => \A w \in Words : ReadWeight(t, w) = ReadWeight(r, w) + Is(v, w)
    <3> SUFFICES ASSUME ~r.negate, NEW w \in Words PROVE ReadWeight(t, w) = ReadWeight(r, w) + Is(v, w)
      OBVIOUS
    <3>1. ReadWeight(t, w) = RuleWeight(r.rule, w) + 0 + Is(v, w)
      BY <1>2, <1>3, <2>2 DEF ReadWeight
    <3>2. ReadWeight(r, w) = RuleWeight(r.rule, w) + 0 + 0
      BY <1>2, <2>1 DEF ReadWeight
    <3>3. RuleWeight(r.rule, w) \in Nat /\ Is(v, w) \in Nat
      BY <1>1, <1>2
    <3> QED
      BY <3>1, <3>2, <3>3
  <2> QED
    BY <1>0, <1>3, <2>2, <2>3 DEF t
<1>4. CASE v \in {"-s", "-j"} \/ (v = "-p" /\ ~r.negate)
  <2>1. t = [r EXCEPT !.option = v]
    BY <1>4 DEF TakeOption
  <2> HIDE DEF t
  <2>2. t \in ReadState /\ t.rule = r.rule /\ t.option = v /\ t.negate = r.negate
    BY <1>4, <2>1 DEF ReadState, Option
  <2>3. \A w \in Words : ReadWeight(t, w) = ReadWeight(r, w) + Is(v, w)
    <3> SUFFICES ASSUME NEW w \in Words PROVE ReadWeight(t, w) = ReadWeight(r, w) + Is(v, w)
      OBVIOUS
    <3> DEFINE negated == IF r.negate THEN Is("!", w) ELSE 0
    <3>1. ReadWeight(t, w) = RuleWeight(r.rule, w) + Is(v, w) + negated
      BY <2>2 DEF ReadWeight
    <3>2. ReadWeight(r, w) = RuleWeight(r.rule, w) + 0 + negated
      BY <1>2 DEF ReadWeight
    <3>3. negated \in Nat /\ RuleWeight(r.rule, w) \in Nat /\ Is(v, w) \in Nat
      BY <1>1, <1>2
    <3> HIDE DEF negated
    <3> QED
      BY <3>1, <3>2, <3>3
  <2> QED
    BY <1>0, <1>4, <2>2, <2>3 DEF t
<1>5. CASE v # "!" /\ ~(v \in {"-s", "-j"} \/ (v = "-p" /\ ~r.negate))
  <2> DEFINE rule == [r.rule EXCEPT !.extra = TRUE]
  <2>1. t = [r EXCEPT !.rule = rule, !.negate = FALSE]
    BY <1>5 DEF TakeOption
  <2>2. rule \in ReadRule /\ rule.extra = TRUE
    BY <1>0 DEF ReadRule
  <2> HIDE DEF t, rule
  <2>3. t \in ReadState /\ t.rule = rule /\ t.option = "none" /\ t.negate = FALSE
    BY <2>1, <2>2 DEF ReadState
  <2> QED
    BY <2>2, <2>3 DEF t
<1> QED
  BY <1>3, <1>4, <1>5

LEMMA ReadWordIs ==
  ASSUME NEW r \in ReadState, NEW w \in Words, r.option = "-p" => ~r.negate
  PROVE  ReadWord(r, w) \in ReadState /\ (ReadWord(r, w).option = "-p" => ~ReadWord(r, w).negate)
<1>1. CASE r.option # "none"
  <2>1. w \in Value
    BY DEF Value
  <2> QED
    BY <1>1, <2>1, ValueIsTaken DEF ReadWord
<1>2. CASE r.option = "none"
  BY <1>2, OptionIsTaken DEF ReadWord
<1> QED
  BY <1>1, <1>2

\* One more word of a line.
LEMMA ReadOneMore ==
  ASSUME NEW text, Listed(text), NEW n \in 1..Len(text), NEW r, ReadSoFar(text, n - 1, r)
  PROVE  ReadSoFar(text, n, ReadWord(r, text[n]))
<1> DEFINE w == text[n]
           t == ReadWord(r, w)
<1>0. /\ text \in Seq(Words) /\ w \in Words /\ w \in Value /\ n \in Nat \ {0} /\ n - 1 \in 0..Len(text)
      /\ r \in ReadState /\ (r.option = "-p" => ~r.negate)
  BY DEF Listed, ReadSoFar, Value
<1>1. r.option = "none" /\ w = "!" => ~r.negate
  <2> SUFFICES ASSUME r.option = "none", w = "!", r.negate PROVE FALSE
    OBVIOUS
  <2>1. n - 1 # 0 /\ text[n - 1] = "!"
    BY DEF ReadSoFar
  <2>2. n - 1 \in 1..Len(text) - 1 /\ (n - 1) + 1 = n
    BY <1>0, <2>1
  <2> QED
    BY <2>1, <2>2 DEF Listed
<1>2. t \in ReadState
  BY <1>0, <1>1, ReadWordIs
<1>3. ASSUME ~t.rule.extra, ~r.rule.extra, \A v \in Words : ReadWeight(t, v) = ReadWeight(r, v) + Is(w, v), NEW v \in Words
      PROVE  CountTo(text, n, v) = ReadWeight(t, v)
  <2>1. CountTo(text, n - 1, v) = ReadWeight(r, v)
    BY <1>3 DEF ReadSoFar
  <2>2. CountTo(text, n, v) = CountTo(text, n - 1, v) + Is(w, v)
    BY <1>0, CountsOne
  <2> QED
    BY <1>3, <2>1, <2>2
<1>4. CASE r.option # "none"
  <2>1. t = TakeValue(r, w)
    BY <1>4 DEF ReadWord
  <2>2. t.option = "none" /\ t.negate = FALSE /\ (~t.rule.extra => ~r.rule.extra)
    BY <1>0, <1>4, <2>1, ValueIsTaken
  <2>3. ASSUME ~t.rule.extra PROVE \A v \in Words : ReadWeight(t, v) = ReadWeight(r, v) + Is(w, v)
    <3>1. /\ r.option = "-s" => r.rule.src = <<>>
          /\ r.option = "-p" => r.rule.plain = <<>>
          /\ r.option = "-j" => r.rule.target = <<>>
      BY <1>0, <2>2, <2>3, OptionIsNew
    <3> QED
      BY <1>0, <1>4, <2>1, <2>3, <3>1, ValueIsTaken
  <2> HIDE DEF t, w
  <2>4. ReadSoFar(text, n, t)
    BY <1>2, <1>3, <2>2, <2>3 DEF ReadSoFar
  <2> QED
    BY <2>4 DEF t, w
<1>5. CASE r.option = "none"
  <2>1. t = TakeOption(r, w)
    BY <1>5 DEF ReadWord
  <2>2. /\ t.option = "-p" => ~t.negate
        /\ t.option = "none" /\ t.negate => w = "!"
        /\ w \in {"a", "b"} => t.option = "none" /\ t.negate = FALSE
        /\ ~t.rule.extra => ~r.rule.extra /\ \A v \in Words : ReadWeight(t, v) = ReadWeight(r, v) + Is(w, v)
    <3> DEFINE u == TakeOption(r, w)
    <3>1. /\ u.option = "-p" => ~u.negate
          /\ u.option = "none" /\ u.negate => w = "!"
          /\ w \in {"a", "b"} => u.option = "none" /\ u.negate = FALSE
          /\ ~u.rule.extra => ~r.rule.extra
          /\ ~u.rule.extra => \A v \in Words : ReadWeight(u, v) = ReadWeight(r, v) + Is(w, v)
      BY <1>0, <1>1, <1>5, OptionIsTaken
    <3>2. t = u
      BY <2>1
    <3> HIDE DEF t, u, w
    <3> QED
      BY <3>1, <3>2
  <2>3. n # 0 /\ text[n] = w
    BY <1>0
  <2> HIDE DEF t, w
  <2>4. ReadSoFar(text, n, t)
    BY <1>2, <1>3, <2>2, <2>3 DEF ReadSoFar
  <2> QED
    BY <2>4 DEF t, w
<1> QED
  BY <1>4, <1>5

\* What is read of a line after n words.
Parsing(text) ==
  CHOOSE read : read = [n \in 0..Len(text) |-> IF n = 0 THEN Unread ELSE ReadWord(read[n - 1], text[n])]

LEMMA ParsedIsLast == ASSUME NEW text
  PROVE ParseRule(text) = (IF Parsing(text)[Len(text)].option # "none"
                           THEN TakeValue(Parsing(text)[Len(text)], "none") ELSE Parsing(text)[Len(text)]).rule
BY DEF ParseRule, Parsing

LEMMA ParsingIs ==
  ASSUME NEW text \in Seq(Words)
  PROVE  /\ Parsing(text)[0] = Unread
         /\ \A n \in 1..Len(text) : Parsing(text)[n] = ReadWord(Parsing(text)[n - 1], text[n])
<1> DEFINE N == Len(text)
           V == {r \in ReadState : r.option = "-p" => ~r.negate}
           step == [p \in (1..N) \X V |-> ReadWord(p[2], text[p[1]])]
<1>1. N \in Nat /\ \A n \in 1..N : text[n] \in Words
  OBVIOUS
<1>2. step \in [(1..N) \X V -> V] /\ Unread \in V
  <2>1. ASSUME NEW p \in (1..N) \X V PROVE ReadWord(p[2], text[p[1]]) \in V
    <3>1. p[2] \in ReadState /\ text[p[1]] \in Words /\ (p[2].option = "-p" => ~p[2].negate)
      BY <1>1
    <3> QED
      BY <3>1, ReadWordIs
  <2>2. NoRule \in ReadRule
    BY DEF NoRule, ReadRule
  <2>3. Unread \in V
    BY <2>2 DEF Unread, ReadState
  <2> HIDE DEF V
  <2> QED
    BY <2>1, <2>3
<1> HIDE DEF step, V
<1>3. PICK f : IsRun(f, N, V, Unread, step)
  BY <1>1, <1>2, RunsThrough
<1>4. f \in [0..N -> V] /\ f[0] = Unread /\ \A n \in 1..N : f[n] = step[<<n, f[n - 1]>>]
  BY <1>3 DEF IsRun
<1>5. ASSUME NEW n \in 1..N PROVE f[n] = ReadWord(f[n - 1], text[n])
  <2>1. n - 1 \in 0..N
    BY <1>1
  <2>2. <<n, f[n - 1]>> \in (1..N) \X V
    BY <1>4, <2>1
  <2> QED
    BY <1>4, <2>2 DEF step
<1>6. f = [n \in 0..N |-> IF n = 0 THEN Unread ELSE ReadWord(f[n - 1], text[n])]
  BY <1>1, <1>4, <1>5
<1>7. Parsing(text) = [n \in 0..N |-> IF n = 0 THEN Unread ELSE ReadWord(Parsing(text)[n - 1], text[n])]
  BY <1>6 DEF Parsing
<1> HIDE DEF Parsing
<1> QED
  BY <1>1, <1>7

\* A line of any length has been read so far.
LEMMA ReadWhole ==
  ASSUME NEW text, Listed(text)
  PROVE  ReadSoFar(text, Len(text), Parsing(text)[Len(text)])
<1> DEFINE N == Len(text)
           f == Parsing(text)
           S == {n \in 0..N : ReadSoFar(text, n, f[n])}
<1>1. text \in Seq(Words)
  BY DEF Listed
<1>2. N \in Nat /\ f[0] = Unread /\ \A n \in 1..N : f[n] = ReadWord(f[n - 1], text[n])
  BY <1>1, ParsingIs
<1> HIDE DEF f
<1>3. ReadSoFar(text, 0, Unread)
  <2>1. NoRule \in ReadRule /\ NoRule.extra = FALSE
    BY DEF NoRule, ReadRule
  <2>2. Unread \in ReadState /\ Unread.option = "none" /\ Unread.negate = FALSE /\ Unread.rule = NoRule
    BY <2>1 DEF Unread, ReadState
  <2>3. \A w \in Words : ReadWeight(Unread, w) = 0
    <3>1. \A w : RuleWeight(NoRule, w) = 0 + 0 + 0
      BY DEF RuleWeight, SrcWeight, ValueWeight, NoRule
    <3>2. \A w \in Words : Is("none", w) = 0
      BY DEF Is, Words
    <3> QED
      BY <2>2, <3>1, <3>2 DEF ReadWeight
  <2>4. \A w \in Words : CountTo(text, 0, w) = 0
    BY CountsNone
  <2> QED
    BY <2>2, <2>3, <2>4 DEF ReadSoFar
<1>4. 0 \in S
  BY <1>2, <1>3
<1>5. \A n \in 1..N : n - 1 \in S => n \in S
  <2> SUFFICES ASSUME NEW n \in 1..N, n - 1 \in S PROVE n \in S
    OBVIOUS
  <2>1. ReadSoFar(text, n - 1, f[n - 1])
    OBVIOUS
  <2>2. ReadSoFar(text, n, f[n])
    BY <1>2, <2>1, ReadOneMore
  <2> QED
    BY <1>2, <2>2
<1> HIDE DEF S
<1>6. \A n \in 0..N : n \in S
  BY <1>2, <1>4, <1>5, StepByStep
<1>7. N \in S
  BY <1>2, <1>6
<1> QED
  BY <1>7 DEF S, f

\* How often a word is in the rule as the program writes it.
LEMMA RenderCounts ==
  ASSUME NEW rule \in ReadRule, NEW w PROVE Count(Render(rule), w) = RuleWeight(rule, w)
<1> DEFINE T == Value \cup Option
           src == IF rule.src = <<>> THEN <<>> ELSE (IF rule.src[1] THEN <<"!">> ELSE <<>>) \o <<"-s", rule.src[2]>>
           plain == IF rule.plain = <<>> THEN <<>> ELSE <<"-p", rule.plain[1]>>
           target == IF rule.target = <<>> THEN <<>> ELSE <<"-j", rule.target[1]>>
<1>0. /\ rule.src \in {<<>>} \cup BOOLEAN \X Value /\ rule.plain \in {<<>>} \cup {<<v>> : v \in Value}
      /\ rule.target \in {<<>>} \cup {<<v>> : v \in Value}
  BY DEF ReadRule
<1>1. Render(rule) = (src \o plain) \o target
  BY DEF Render
<1>2. \A x, y : Is(x, y) \in Nat
  BY DEF Is
<1>a. "!" \in T /\ "-s" \in T /\ "-p" \in T /\ "-j" \in T /\ \A v \in Value : v \in T
  BY DEF Value, Option, Words
<1>b. Count(<<>>, w) = 0 /\ <<>> \in Seq(T)
  <2>1. <<>> \in Seq(T) /\ Len(<<>>) = 0
    OBVIOUS
  <2>2. Count(<<>>, w) = CountTo(<<>>, 0, w)
    BY <2>1, CountIs
  <2> QED
    BY <2>1, <2>2, CountsNone
<1>3. src \in Seq(T) /\ Count(src, w) = SrcWeight(rule.src, w)
  <2>1. CASE rule.src = <<>>
    BY <1>b, <2>1 DEF SrcWeight
  <2>2. CASE rule.src # <<>>
    <3> DEFINE mark == IF rule.src[1] THEN <<"!">> ELSE <<>>
               v == rule.src[2]
    <3>1. v \in T /\ rule.src[1] \in BOOLEAN
      BY <1>0, <1>a, <2>2
    <3>2. mark \in Seq(T) /\ Count(mark, w) = IF rule.src[1] THEN Is("!", w) ELSE 0
      <4>1. CASE rule.src[1]
        <5>1. Append(<<>>, "!") = <<"!">>
          BY <1>a, OneIs
        <5>2. Append(<<>>, "!") \in Seq(T) /\ Count(Append(<<>>, "!"), w) = Count(<<>>, w) + Is("!", w)
          <6> HIDE DEF T
          <6> QED
            BY <1>a, <1>b, CountOfAppend
        <5> QED
          BY <1>2, <1>b, <4>1, <5>1, <5>2
      <4>2. CASE ~rule.src[1]
        BY <1>b, <4>2
      <4> QED
        BY <4>1, <4>2
    <3>3. src = mark \o <<"-s", v>>
      BY <2>2
    <3> HIDE DEF mark, v, T
    <3>4. mark \o <<"-s", v>> \in Seq(T) /\ Count(mark \o <<"-s", v>>, w) = Count(mark, w) + Is("-s", w) + Is(v, w)
      BY <1>a, <3>1, <3>2, CountOfPair
    <3>5. SrcWeight(rule.src, w) = (IF rule.src[1] THEN Is("!", w) ELSE 0) + Is("-s", w) + Is(v, w)
      BY <2>2 DEF SrcWeight, v
    <3> HIDE DEF src
    <3> QED
      BY <3>2, <3>3, <3>4, <3>5
  <2> QED
    BY <2>1, <2>2
<1> HIDE DEF src
<1>4. src \o plain \in Seq(T) /\ Count(src \o plain, w) = SrcWeight(rule.src, w) + ValueWeight("-p", rule.plain, w)
  <2>0. SrcWeight(rule.src, w) \in Nat
    BY WeightsAre
  <2>1. CASE rule.plain = <<>>
    <3>1. src \o plain = src
      BY <1>3, <2>1, ConcatEmptySeq
    <3>2. ValueWeight("-p", rule.plain, w) = 0
      BY <2>1 DEF ValueWeight
    <3> DEFINE more == ValueWeight("-p", rule.plain, w)
               was == SrcWeight(rule.src, w)
    <3>3. was \in Nat /\ more = 0 /\ Count(src, w) = was
      BY <1>3, <2>0, <3>2
    <3> HIDE DEF plain, more, was
    <3>4. Count(src \o plain, w) = was + more
      BY <3>1, <3>3
    <3> QED
      BY <1>3, <3>1, <3>4 DEF more, was
  <2>2. CASE rule.plain # <<>>
    <3> DEFINE v == rule.plain[1]
    <3>1. v \in T
      BY <1>0, <1>a, <2>2
    <3>2. plain = <<"-p", v>>
      BY <2>2
    <3> HIDE DEF v, T, plain
    <3>3. src \o <<"-p", v>> \in Seq(T) /\ Count(src \o <<"-p", v>>, w) = Count(src, w) + Is("-p", w) + Is(v, w)
      BY <1>3, <1>a, <3>1, CountOfPair
    <3>4. ValueWeight("-p", rule.plain, w) = Is("-p", w) + Is(v, w)
      BY <2>2 DEF ValueWeight, v
    <3> QED
      BY <1>2, <1>3, <2>0, <3>2, <3>3, <3>4
  <2> QED
    BY <2>1, <2>2
<1> HIDE DEF plain
<1>5. Count((src \o plain) \o target, w) = SrcWeight(rule.src, w) + ValueWeight("-p", rule.plain, w) + ValueWeight("-j", rule.target, w)
  <2> DEFINE front == src \o plain
             n == SrcWeight(rule.src, w) + ValueWeight("-p", rule.plain, w)
  <2>0. n \in Nat /\ front \in Seq(T) /\ Count(front, w) = n
    BY <1>4, WeightsAre
  <2> HIDE DEF front, n
  <2>1. CASE rule.target = <<>>
    <3>1. front \o target = front
      BY <2>0, <2>1, ConcatEmptySeq
    <3>2. ValueWeight("-j", rule.target, w) = 0
      BY <2>1 DEF ValueWeight
    <3> DEFINE more == ValueWeight("-j", rule.target, w)
    <3>3. more = 0
      BY <3>2
    <3> HIDE DEF target, more
    <3>4. Count(front \o target, w) = n + more
      BY <2>0, <3>1, <3>3
    <3> QED
      BY <3>4 DEF front, n, more
  <2>2. CASE rule.target # <<>>
    <3> DEFINE v == rule.target[1]
    <3>1. v \in T
      BY <1>0, <1>a, <2>2
    <3>2. target = <<"-j", v>>
      BY <2>2
    <3> HIDE DEF v, T, target
    <3>3. Count(front \o <<"-j", v>>, w) = Count(front, w) + Is("-j", w) + Is(v, w)
      BY <1>a, <2>0, <3>1, CountOfPair
    <3>4. ValueWeight("-j", rule.target, w) = Is("-j", w) + Is(v, w)
      BY <2>2 DEF ValueWeight, v
    <3>5. Count(front \o target, w) = n + ValueWeight("-j", rule.target, w)
      BY <1>2, <2>0, <3>2, <3>3, <3>4
    <3> QED
      BY <3>5 DEF front, n
  <2> QED
    BY <2>1, <2>2
<1> QED
  BY <1>1, <1>5 DEF RuleWeight

\* A line of any length that parse_rule reads without a remainder is the rule it is read as: no
\* word of it is lost and none is added.
THEOREM ParsedWhole ==
  ASSUME NEW text, Listed(text), ~ParseRule(text).extra, text # <<>>, text[Len(text)] \in {"a", "b"}, NEW w \in Words
  PROVE  Count(text, w) = Count(Render(ParseRule(text)), w)
<1> DEFINE r == Parsing(text)[Len(text)]
<1>1. text \in Seq(Words) /\ Len(text) \in Nat /\ Len(text) # 0
  BY DEF Listed
<1>2. ReadSoFar(text, Len(text), r)
  BY ReadWhole
<1> HIDE DEF r
<1>3. r \in ReadState /\ r.option = "none" /\ ~r.negate
  BY <1>1, <1>2 DEF ReadSoFar
<1>4. ParseRule(text) = r.rule /\ r.rule \in ReadRule
  BY <1>3, ParsedIsLast DEF r, ReadState
<1>5. CountTo(text, Len(text), w) = ReadWeight(r, w)
  BY <1>2, <1>4 DEF ReadSoFar
<1>6. ReadWeight(r, w) = RuleWeight(r.rule, w)
  <2>1. Is("none", w) = 0 /\ RuleWeight(r.rule, w) \in Nat
    BY <1>4, WeightsAre DEF Is, Words
  <2> QED
    BY <1>3, <2>1 DEF ReadWeight
<1> QED
  BY <1>1, <1>4, <1>5, <1>6, CountIs, RenderCounts

---------------------------------------------------------------------------
(* The texts a run comes to are texts: a chain of rules, a line in which   *)
(* no "!" follows another, a lock of lines.                                *)

ChainTyped ==
  /\ at \in {"chain", "rule"} \X {"listed"}
  /\ at[1] = "chain" => host.variant \in Variant /\ mem \in Seq(Rule)
  /\ at[1] = "rule" => mem \in Seq(Words) /\ \A n \in 1..Len(mem) - 1 : ~(mem[n] = "!" /\ mem[n + 1] = "!")
LockTyped == at = <<"lock", "read">> /\ host \in Lock

\* Chains and lines grow by a rule or a word.
LEMMA ChainIsTyped == (ChainInit => ChainTyped) /\ (ChainTyped /\ [ChainNext]_programVars => ChainTyped')
<1>1. ASSUME ChainInit PROVE ChainTyped
  <2>1. mem = <<>> /\ (at = <<"chain", "listed">> \/ at = <<"rule", "listed">>)
    BY <1>1 DEF ChainInit
  <2>2. mem \in Seq(Rule) /\ mem \in Seq(Words) /\ Len(mem) = 0
    BY <2>1, EmptySeq
  <2>3. at[1] = "chain" => host.variant \in Variant
    <3>1. at = <<"rule", "listed">> => at[1] # "chain"
      OBVIOUS
    <3>2. at # <<"rule", "listed">> =>
            host \in [variant : Variant, forward : {<<>>, <<"docker user">>, <<"other", "docker user">>}]
      BY <1>1 DEF ChainInit
    <3> QED
      BY <3>1, <3>2
  <2> QED
    BY <2>1, <2>2, <2>3 DEF ChainTyped
<1>2. ASSUME ChainTyped, ListRule PROVE ChainTyped'
  <2>1. at[1] = "chain" /\ at' = at /\ host' = host /\ mem \in Seq(Rule)
    BY <1>2 DEF ListRule, At, ChainTyped
  <2>2. PICK r \in Rule : mem' = Append(mem, r)
    BY <1>2 DEF ListRule
  <2>3. mem' \in Seq(Rule)
    BY <2>1, <2>2, AppendProperties
  <2> QED
    BY <1>2, <2>1, <2>3 DEF ChainTyped
<1>3. ASSUME ChainTyped, ListWord PROVE ChainTyped'
  <2>1. at[1] = "rule" /\ at' = at /\ host' = host
    BY <1>3 DEF ListWord, At
  <2>2. PICK w \in Words : mem' = Append(mem, w) /\ ~(w = "!" /\ mem # <<>> /\ mem[Len(mem)] = "!")
    BY <1>3 DEF ListWord
  <2>3. mem \in Seq(Words) /\ Len(mem) \in Nat /\ \A n \in 1..Len(mem) - 1 : ~(mem[n] = "!" /\ mem[n + 1] = "!")
    BY <1>3, <2>1 DEF ChainTyped
  <2>4. /\ mem' \in Seq(Words) /\ Len(mem') = Len(mem) + 1 /\ mem'[Len(mem) + 1] = w
        /\ \A n \in 1..Len(mem) : mem'[n] = mem[n]
    BY <2>2, <2>3, AppendProperties
  <2>5. ASSUME NEW n \in 1..Len(mem') - 1, mem'[n] = "!", mem'[n + 1] = "!" PROVE FALSE
    <3>1. n \in 1..Len(mem) /\ mem[n] = "!"
      BY <2>3, <2>4, <2>5
    <3>2. CASE n = Len(mem)
      <4>1. mem # <<>>
        BY <2>3, <3>1
      <4> QED
        BY <2>2, <2>4, <2>5, <3>1, <3>2, <4>1
    <3>3. CASE n # Len(mem)
      <4>1. n \in 1..Len(mem) - 1 /\ n + 1 \in 1..Len(mem)
        BY <2>3, <3>1, <3>3
      <4>2. mem[n + 1] = "!"
        BY <2>4, <2>5, <4>1
      <4> QED
        BY <2>3, <3>1, <4>1, <4>2
    <3> QED
      BY <3>2, <3>3
  <2> QED
    BY <1>3, <2>1, <2>4, <2>5 DEF ChainTyped
<1>4. ASSUME ChainTyped, UNCHANGED programVars PROVE ChainTyped'
  BY <1>4 DEF ChainTyped, programVars
<1> QED
  BY <1>1, <1>2, <1>3, <1>4 DEF ChainNext

\* A lock grows by a line.
LEMMA LockIsTyped == (LockInit => LockTyped) /\ (LockTyped /\ (GrowLock \/ UNCHANGED programVars) => LockTyped')
<1>1. LockInit => LockTyped
  BY EmptySeq DEF LockInit, LockTyped, Lock
<1>2. ASSUME LockTyped, GrowLock PROVE LockTyped'
  <2>1. at' = <<"lock", "read">> /\ host \in Seq(Line)
    BY <1>2 DEF GrowLock, Act, Goto, LockTyped, Lock
  <2>2. PICK line \in Line : host' = Append(host, line)
    BY <1>2 DEF GrowLock
  <2>3. host' \in Seq(Line)
    BY <2>1, <2>2, AppendProperties
  <2> QED
    BY <2>1, <2>3 DEF LockTyped, Lock
<1>3. LockTyped /\ UNCHANGED programVars => LockTyped'
  BY DEF LockTyped, programVars
<1> QED
  BY <1>1, <1>2, <1>3

\* What a chain and a line promise, from the theorems above.
LEMMA ChainIsJudged == ASSUME ChainTyped PROVE ChainHolds
<1>1. NothingPasses
  BY CarriedDrops DEF ChainTyped, NothingPasses, CheckAll
<1>2. PolicyIsCarried
  BY PolicyPasses DEF ChainTyped, PolicyIsCarried
<1>3. SummaryAgrees
  <2> SUFFICES ASSUME at[1] = "chain"
      PROVE  /\ CheckChain(host.variant, mem) = "bypass" => Refused(host.variant, mem)
             /\ CheckChain(host.variant, mem) = "carried" => ~Refused(host.variant, mem)
    BY DEF SummaryAgrees
  <2>1. Refused(host.variant, mem) <=> \E n \in 1..LastDrop(host.variant, mem) - 1 : Bypasses(host.variant, mem, n)
    BY RefusedIs DEF ChainTyped
  <2> QED
    BY <2>1 DEF CheckChain
<1>4. BlamedMends
  <2> SUFFICES ASSUME at[1] = "chain", Once(host.variant, mem),
                      \E r \in Places(Owned(host.variant)) : Mends(host.variant, mem, r)
      PROVE  Mends(host.variant, mem, Displaced(host.variant, mem))
    BY DEF BlamedMends, Once, Mends
  <2> QED
    BY BlameIsMended DEF ChainTyped
<1>5. ParsedIsWhole
  <2> SUFFICES ASSUME at[1] = "rule", ~ParseRule(mem).extra, \A w \in {"-s", "-p", "-j"} : Count(mem, w) <= 1,
                      mem # <<>>, mem[Len(mem)] \in {"a", "b"}, NEW w \in Words
      PROVE  Count(mem, w) = Count(Render(ParseRule(mem)), w)
    BY DEF ParsedIsWhole
  <2>1. Listed(mem)
    BY DEF ChainTyped, Listed, Option
  <2> QED
    BY <2>1, ParsedWhole
<1> QED
  BY <1>1, <1>2, <1>3, <1>4, <1>5 DEF ChainHolds

\* What a lock promises.
LEMMA LockIsReadAlike == ASSUME LockTyped PROVE PipReadsNoMore
BY PipReadsItAlike DEF LockTyped, PipReadsNoMore
=============================================================================
