---------------------------- MODULE ChainProofs ----------------------------
(***************************************************************************)
(* Proofs about the two trackers of the chain.                             *)
(*                                                                         *)
(* Inclusion, for every block tree, window, cache and size of the          *)
(* channels: the verdict of a tracked win is the outcome of its slot on    *)
(* the last head's chain, and the record of a slot does not keep a verdict *)
(* that was revised.  Its first part is about the ancestry of a head,      *)
(* which is a recursive function over blocks: a chain is closed under      *)
(* parents, has at most one block per slot and no gap between a block and  *)
(* its parent.                                                             *)
(*                                                                         *)
(* HeadVotes, for every registry, cap, votes and blocks: tallies are of    *)
(* distinct voters, heads are tracked and their crossings reported.  Its   *)
(* first part is about the balance of a set of validators, a recursive     *)
(* function over the registry.                                             *)
(***************************************************************************)
EXTENDS Inclusion, HeadVotes, FiniteSetTheorems, SequenceTheorems, WellFoundedInduction, TLAPS

-----------------------------------------------------------------------------
(* Chains.                                                                 *)

\* A non-empty set of naturals has a least element.
LEMMA LeastNatural ==
    ASSUME NEW T \in SUBSET Nat, T # {}
    PROVE  \E x \in T : \A y \in T : x <= y
<1> DEFINE R == OpToRel(<, Nat)
<1>1. IsWellFoundedOn(R, Nat)
  BY NatLessThanWellFounded
<1>2. \A x, y \in Nat : x < y => <<x, y>> \in R
  BY DEF OpToRel
<1> HIDE DEF R
<1>3. PICK x \in T : \A y \in T : ~(<<y, x>> \in R)
  BY <1>1, WFMin
<1>4. \A y \in T : x <= y
  <2> TAKE y \in T
  <2>1. x \in Nat /\ y \in Nat
    OBVIOUS
  <2>2. ~(y < x)
    BY <1>2, <1>3, <2>1
  <2> QED BY <2>1, <2>2
<1> QED BY <1>4

\* What the assumption says of one block.
LEMMA BlockFacts ==
    ASSUME NEW b \in Blocks
    PROVE  /\ Info[b].slot \in Nat /\ Info[b].parent \in Blocks
           /\ Info[b].parent # b => Info[Info[b].parent].slot < Info[b].slot
           /\ Info[b].parent = b => Info[b].slot = 0
           /\ Info[b].ours \in Slots \cup {NoSlot}
           /\ Info[b].ours \in {NoSlot, Info[b].slot}
<1>1. Info[b] \in BlockInfo
  BY InclusionAssumption
<1>2. Info[b].slot \in Nat /\ Info[b].parent \in Blocks /\ Info[b].ours \in Slots \cup {NoSlot}
  BY <1>1 DEF BlockInfo
<1>3. Info[Info[b].parent].slot < Info[b].slot \/ (Info[b].parent = b /\ Info[b].slot = 0)
  BY InclusionAssumption
<1>4. Info[b].ours \in {NoSlot, Info[b].slot}
  BY InclusionAssumption
<1>5. Info[b].parent = b => Info[b].slot = 0
  BY <1>2, <1>3
<1> QED BY <1>2, <1>3, <1>4, <1>5

\* Chain satisfies its recursive definition: the sets that every set of blocks
\* closed under parents contains do.
LEMMA ChainUnfolds ==
    ASSUME NEW h \in Blocks
    PROVE  Chain[h] = IF Info[h].parent = h THEN {h} ELSE {h} \cup Chain[Info[h].parent]
<1> DEFINE Closed(S) == \A y \in S : Info[y].parent \in S
           Below(b) == {x \in Blocks : \A S \in SUBSET Blocks : b \in S /\ Closed(S) => x \in S}
           Unfold(f, b) == IF Info[b].parent = b THEN {b} ELSE {b} \cup f[Info[b].parent]
           F == [b \in Blocks |-> Below(b)]
<1>1. ASSUME NEW b \in Blocks, Info[b].parent = b
      PROVE  Below(b) = {b}
  <2>1. {b} \in SUBSET Blocks /\ b \in {b} /\ Closed({b})
    BY <1>1
  <2> QED BY <2>1
<1>2. ASSUME NEW b \in Blocks, NEW p \in Blocks, Info[b].parent = p
      PROVE  Below(b) = {b} \cup Below(p)
  <2>1. ASSUME NEW x \in Below(b), x # b PROVE x \in Below(p)
    <3>1. ASSUME NEW S \in SUBSET Blocks, p \in S, Closed(S) PROVE x \in S
      <4>1. S \cup {b} \in SUBSET Blocks /\ b \in S \cup {b}
        OBVIOUS
      <4>2. Closed(S \cup {b})
        BY <1>2, <3>1
      <4>3. x \in S \cup {b}
        BY <4>1, <4>2
      <4> QED BY <2>1, <4>3
    <3> QED BY <3>1
  <2>2. ASSUME NEW x \in Below(p) PROVE x \in Below(b)
    <3>1. ASSUME NEW S \in SUBSET Blocks, b \in S, Closed(S) PROVE x \in S
      BY <1>2, <2>2, <3>1
    <3> QED BY <3>1
  <2>3. b \in Below(b)
    OBVIOUS
  <2> QED BY <2>1, <2>2, <2>3
<1> HIDE DEF Below
<1>3. ASSUME NEW b \in Blocks PROVE F[b] = Unfold(F, b)
  <2>1. Info[b].parent \in Blocks
    BY BlockFacts
  <2> QED BY <1>1, <1>2, <2>1
<1>4. F = [b \in Blocks |-> Unfold(F, b)]
  BY <1>3
<1> HIDE DEF F, Unfold
<1>5. \E f : f = [b \in Blocks |-> Unfold(f, b)]
  BY <1>4
<1>6. Chain = CHOOSE f : f = [b \in Blocks |-> Unfold(f, b)]
  BY DEF Chain, Unfold
<1> DEFINE P(f) == f = [b \in Blocks |-> Unfold(f, b)]
<1>7. P(CHOOSE f : P(f))
  BY <1>5
<1>8. Chain = [b \in Blocks |-> Unfold(Chain, b)]
  BY <1>6, <1>7
<1>9. Chain[h] = Unfold(Chain, h)
  BY <1>8
<1> QED BY <1>9 DEF Unfold

\* What makes the ancestors of a head a chain.
Linear(h) ==
    /\ h \in Chain[h] /\ Chain[h] \subseteq Blocks
    /\ \A b \in Chain[h] : Info[b].slot <= Info[h].slot /\ Info[b].parent \in Chain[h]
    /\ \A b, c \in Chain[h] :
        /\ Info[b].slot = Info[c].slot => b = c
        /\ Info[c].slot < Info[b].slot => Info[c].slot <= Info[Info[b].parent].slot
    /\ \E b \in Chain[h] : Info[b].slot = 0

\* The chain of a block over a parent with a chain.
LEMMA ChainGrows ==
    ASSUME NEW h \in Blocks, Info[h].parent # h, Linear(Info[h].parent)
    PROVE  Linear(h)
<1> DEFINE p == Info[h].parent
<1>1. /\ Chain[h] = {h} \cup Chain[p]
      /\ p \in Blocks /\ Info[p].slot < Info[h].slot /\ Info[h].slot \in Nat /\ Info[p].slot \in Nat
  BY ChainUnfolds, BlockFacts
<1>2. /\ p \in Chain[p] /\ Chain[p] \subseteq Blocks
      /\ \A b \in Chain[p] : Info[b].slot <= Info[p].slot /\ Info[b].parent \in Chain[p]
      /\ \A b, c \in Chain[p] :
          /\ Info[b].slot = Info[c].slot => b = c
          /\ Info[c].slot < Info[b].slot => Info[c].slot <= Info[Info[b].parent].slot
      /\ \E b \in Chain[p] : Info[b].slot = 0
  BY DEF Linear
<1> HIDE DEF p
<1>3. \A b \in Chain[p] : Info[b].slot \in Nat /\ Info[b].slot < Info[h].slot
  <2> TAKE b \in Chain[p]
  <2>1. Info[b].slot \in Nat
    BY <1>2, BlockFacts
  <2> QED BY <1>1, <1>2, <2>1
<1>4. Info[h].parent = p
  BY DEF p
<1>5. h \in Chain[h] /\ Chain[h] \subseteq Blocks /\ \E b \in Chain[h] : Info[b].slot = 0
  BY <1>1, <1>2
<1>6. \A b \in Chain[h] : Info[b].slot <= Info[h].slot /\ Info[b].parent \in Chain[h]
  BY <1>1, <1>2, <1>3, <1>4
<1>7. ASSUME NEW b \in Chain[h], NEW c \in Chain[h]
      PROVE  /\ Info[b].slot = Info[c].slot => b = c
             /\ Info[c].slot < Info[b].slot => Info[c].slot <= Info[Info[b].parent].slot
  <2>1. CASE b = h /\ c = h
    BY <1>1, <2>1
  <2>2. CASE b = h /\ c \in Chain[p]
    BY <1>1, <1>2, <1>3, <1>4, <2>2
  <2>3. CASE b \in Chain[p] /\ c = h
    BY <1>1, <1>3, <2>3
  <2>4. CASE b \in Chain[p] /\ c \in Chain[p]
    BY <1>2, <2>4
  <2> QED BY <1>1, <2>1, <2>2, <2>3, <2>4
<1> QED BY <1>5, <1>6, <1>7 DEF Linear

\* Every block has a chain: there is no lowest block without one.
LEMMA ChainIsLinear == \A h \in Blocks : Linear(h)
<1> DEFINE Bad == {h \in Blocks : ~Linear(h)}
           T == {Info[h].slot : h \in Bad}
<1> SUFFICES ASSUME Bad # {} PROVE FALSE
  OBVIOUS
<1>1. T \in SUBSET Nat /\ T # {}
  BY BlockFacts
<1>2. PICK x \in T : \A y \in T : x <= y
  BY <1>1, LeastNatural
<1>3. PICK h \in Bad : Info[h].slot = x
  BY <1>2
<1>4. CASE Info[h].parent = h
  <2>1. Chain[h] = {h} /\ Info[h].slot = 0
    BY <1>4, ChainUnfolds, BlockFacts
  <2>2. Linear(h)
    BY <1>4, <2>1 DEF Linear
  <2> QED BY <2>2
<1>5. CASE Info[h].parent # h
  <2> DEFINE p == Info[h].parent
  <2>1. p \in Blocks /\ Info[p].slot \in Nat /\ Info[h].slot \in Nat /\ Info[p].slot < Info[h].slot
    BY <1>5, BlockFacts
  <2>2. p \notin Bad
    <3>1. ASSUME p \in Bad PROVE FALSE
      <4>1. Info[p].slot \in T
        BY <3>1
      <4>2. Info[h].slot <= Info[p].slot
        <5>1. x <= Info[p].slot
          BY <1>2, <4>1
        <5> QED BY <1>3, <5>1
      <4> HIDE DEF p
      <4> QED BY <2>1, <4>2
    <3> QED BY <3>1
  <2>3. Linear(p)
    BY <2>1, <2>2
  <2> HIDE DEF p
  <2>4. Linear(h)
    BY <1>5, <2>3, ChainGrows DEF p
  <2> QED BY <2>4
<1> QED BY <1>4, <1>5

-----------------------------------------------------------------------------
(* Verdicts.                                                               *)

\* The walk from the head ends at the highest block of its chain that is not after
\* the won slot.
LEMMA CursorFacts ==
    ASSUME NEW h \in Blocks, NEW s \in Slots
    PROVE  /\ Cursor(h, s) \in Chain[h] /\ Info[Cursor(h, s)].slot <= s
           /\ \A c \in Chain[h] : Info[c].slot <= s => Info[c].slot <= Info[Cursor(h, s)].slot
<1> DEFINE R == Chain[h] \ After(h, s)
           D == {s - Info[b].slot : b \in R}
<1>1. Linear(h) /\ s \in Nat
  BY ChainIsLinear, InclusionAssumption
<1>2. \A b \in R : b \in Chain[h] /\ Info[b].slot \in Nat /\ Info[b].slot <= s
  <2> TAKE b \in R
  <2>1. b \in Chain[h] /\ b \in Blocks /\ ~(Info[b].slot > s)
    BY <1>1 DEF Linear, After
  <2>2. Info[b].slot \in Nat
    BY <2>1, BlockFacts
  <2> QED BY <1>1, <2>1, <2>2
<1>3. PICK g \in Chain[h] : Info[g].slot = 0
  BY <1>1 DEF Linear
<1>4. g \in R
  BY <1>1, <1>3 DEF After
<1> HIDE DEF R
<1>5. D \in SUBSET Nat /\ D # {}
  <2>1. \A b \in R : s - Info[b].slot \in Nat
    BY <1>1, <1>2
  <2> QED BY <1>4, <2>1
<1>6. PICK x \in D : \A y \in D : x <= y
  BY <1>5, LeastNatural
<1>7. PICK b \in R : x = s - Info[b].slot
  BY <1>6
<1>8. ASSUME NEW c \in R PROVE Info[c].slot <= Info[b].slot
  <2>1. x <= s - Info[c].slot
    BY <1>6
  <2>2. Info[c].slot \in Nat /\ Info[b].slot \in Nat
    BY <1>2
  <2> QED BY <1>1, <1>7, <2>1, <2>2
<1> DEFINE P(k) == \A c \in R : Info[c].slot <= Info[k].slot
<1>9. \E k \in R : P(k)
  BY <1>8
<1> HIDE DEF P
<1>10. (CHOOSE k \in R : P(k)) \in R /\ P(CHOOSE k \in R : P(k))
  BY <1>9
<1>11. Cursor(h, s) = CHOOSE k \in R : P(k)
  BY Zenon DEF Cursor, R, P
<1>12. Cursor(h, s) \in R /\ \A c \in R : Info[c].slot <= Info[Cursor(h, s)].slot
  BY <1>10, <1>11 DEF P
<1>13. \A c \in Chain[h] : Info[c].slot <= s => c \in R
  <2> TAKE c \in Chain[h]
  <2>1. Info[c].slot \in Nat
    BY <1>1, BlockFacts DEF Linear
  <2> QED BY <1>1, <2>1 DEF R, After
<1> QED BY <1>2, <1>12, <1>13

\* The lowest block of a head's chain after the won slot.
LEMMA NextBlockFacts ==
    ASSUME NEW h \in Blocks, NEW s \in Slots, Info[h].slot > s
    PROVE  /\ NextBlock(h, s) \in Chain[h] /\ Info[NextBlock(h, s)].slot > s
           /\ \A c \in Chain[h] : Info[c].slot > s => Info[NextBlock(h, s)].slot <= Info[c].slot
<1> DEFINE A == After(h, s)
           T == {Info[b].slot : b \in A}
<1>1. Linear(h) /\ s \in Nat
  BY ChainIsLinear, InclusionAssumption
<1>2. \A b \in A : b \in Chain[h] /\ Info[b].slot \in Nat /\ Info[b].slot > s
  BY <1>1, BlockFacts DEF Linear, After
<1>3. h \in A
  BY <1>1 DEF Linear, After
<1>4. \A c \in Chain[h] : Info[c].slot > s => c \in A
  BY DEF After
<1> HIDE DEF A
<1>5. T \in SUBSET Nat /\ T # {}
  BY <1>2, <1>3
<1>6. PICK x \in T : \A y \in T : x <= y
  BY <1>5, LeastNatural
<1>7. PICK b \in A : x = Info[b].slot
  BY <1>6
<1> DEFINE P(k) == \A c \in A : Info[k].slot <= Info[c].slot
<1>8. \E k \in A : P(k)
  BY <1>6, <1>7
<1> HIDE DEF P
<1>9. (CHOOSE k \in A : P(k)) \in A /\ P(CHOOSE k \in A : P(k))
  BY <1>8
<1>10. NextBlock(h, s) = CHOOSE k \in A : P(k)
  BY Zenon DEF NextBlock, A, P
<1>11. NextBlock(h, s) \in A /\ \A c \in A : Info[NextBlock(h, s)].slot <= Info[c].slot
  BY <1>9, <1>10 DEF P
<1> QED BY <1>2, <1>4, <1>11

\* The verdict resolveVerdict reaches from two blocks is the outcome of the slot on
\* the whole chain: the walk ends at the winning block exactly when it is on the chain,
\* and the block after it is its only child there.
THEOREM VerdictIsOutcome ==
    ASSUME NEW h \in Blocks, NEW s \in Slots, NEW root \in Blocks,
           Info[root].slot = s, Info[h].slot > s
    PROVE  Verdict(h, s, root) = Outcome(h, s, root)
<1> DEFINE cur == Cursor(h, s)
           nb == NextBlock(h, s)
<1>1. /\ cur \in Chain[h] /\ Info[cur].slot <= s
      /\ \A c \in Chain[h] : Info[c].slot <= s => Info[c].slot <= Info[cur].slot
  BY CursorFacts
<1>2. /\ nb \in Chain[h] /\ Info[nb].slot > s
      /\ \A c \in Chain[h] : Info[c].slot > s => Info[nb].slot <= Info[c].slot
  BY NextBlockFacts
<1>3. Verdict(h, s, root) =
        IF cur # root THEN "orphaned" ELSE IF Info[nb].base = s THEN "canonical" ELSE "missed"
  BY DEF Verdict
<1> HIDE DEF cur, nb
<1>4. /\ h \in Chain[h] /\ Chain[h] \subseteq Blocks
      /\ \A b \in Chain[h] : Info[b].parent \in Chain[h]
      /\ \A b, c \in Chain[h] :
          /\ Info[b].slot = Info[c].slot => b = c
          /\ Info[c].slot < Info[b].slot => Info[c].slot <= Info[Info[b].parent].slot
  BY ChainIsLinear DEF Linear
<1>5. s \in Nat /\ \A b \in Chain[h] : Info[b].slot \in Nat
  BY <1>4, InclusionAssumption, BlockFacts
<1>6. CASE root \notin Chain[h]
  BY <1>1, <1>3, <1>6 DEF Outcome
<1>7. CASE root \in Chain[h]
  <2>1. cur = root
    <3>1. Info[cur].slot = s
      <4>1. s <= Info[cur].slot
        BY <1>1, <1>5, <1>7
      <4> QED BY <1>1, <1>5, <4>1
    <3> QED BY <1>1, <1>4, <1>7, <3>1
  <2>2. Info[nb].parent = root /\ nb # root
    <3> DEFINE p == Info[nb].parent
    <3>1. p \in Chain[h]
      BY <1>2, <1>4
    <3>2. s <= Info[p].slot
      BY <1>2, <1>4, <1>5, <1>7
    <3>3. Info[p].slot < Info[nb].slot
      <4>1. nb \in Blocks
        BY <1>2, <1>4
      <4>2. p # nb
        BY <1>2, <1>5, <4>1, BlockFacts
      <4> QED BY <4>1, <4>2, BlockFacts
    <3>4. ~(Info[p].slot > s)
      BY <1>2, <1>5, <3>1, <3>3
    <3>5. Info[p].slot = s
      BY <1>5, <3>1, <3>2, <3>4
    <3>6. p = root
      BY <1>4, <1>7, <3>1, <3>5
    <3> QED BY <1>2, <1>5, <1>7, <3>6
  <2>3. ASSUME NEW b \in Chain[h], b # root, Info[b].parent = root
        PROVE  b = nb
    <3>1. b \in Blocks /\ Info[b].slot > s
      <4>1. b \in Blocks
        BY <1>4
      <4> QED BY <1>5, <2>3, <4>1, BlockFacts
    <3>2. Info[nb].slot <= Info[b].slot
      BY <1>2, <3>1
    <3>3. ~(Info[nb].slot < Info[b].slot)
      <4>1. ASSUME Info[nb].slot < Info[b].slot PROVE FALSE
        <5>1. Info[nb].slot <= Info[root].slot
          BY <1>2, <1>4, <2>3, <4>1
        <5> QED BY <1>2, <1>5, <5>1
      <4> QED BY <4>1
    <3>4. Info[nb].slot = Info[b].slot
      BY <1>2, <1>5, <3>2, <3>3
    <3> QED BY <1>2, <1>4, <3>4
  <2>4. (\E b \in Chain[h] : b # root /\ Info[b].parent = root /\ Info[b].base = s)
           <=> Info[nb].base = s
    BY <1>2, <2>2, <2>3
  <2> QED BY <1>3, <1>7, <2>1, <2>4 DEF Outcome
<1> QED BY <1>6, <1>7

-----------------------------------------------------------------------------
(* The inductive invariant.                                                *)

\* A tracked win is of a Gloas slot, and its block commits to the payload of the slot.
WinsMatch ==
    \A s \in Slots : tracked[s] # NoWin => Info[tracked[s].root].ours = s /\ s >= GloasSlot

\* Tracking began with an inclusion that is recorded or on its way.
InclusionKnown ==
    \A s \in Slots : tracked[s] # NoWin => includedCh[s] > 0 \/ recorded[s] # "none"

\* The newest verdict on its way is the tracked one; with none on its way it was
\* recorded, or dropped and overtaken by the inclusion.
LastVerdictCounts ==
    \A s \in Slots :
        tracked[s] # NoWin /\ tracked[s].verdict # "unknown" =>
            IF statusCh[s] # <<>> THEN statusCh[s][Len(statusCh[s])] = tracked[s].verdict
            ELSE recorded[s] \in {"none", "pending", tracked[s].verdict}

InclusionInv ==
    InclusionTypeOK /\ WinsMatch /\ InclusionKnown /\ LastVerdictCounts /\ VerdictFollowsHead

LEMMA InclusionInit == Init => InclusionInv
<1> SUFFICES ASSUME Init PROVE InclusionInv
  OBVIOUS
<1> USE DEF Init
<1>1. InclusionTypeOK
  <2>1. statusCh \in [Slots -> Seq(Verdicts)] /\ \A s \in Slots : Len(statusCh[s]) <= ChannelSize
    BY InclusionAssumption
  <2> QED BY <2>1, InclusionAssumption DEF InclusionTypeOK, Statuses
<1>2. WinsMatch /\ InclusionKnown /\ LastVerdictCounts
  BY DEF WinsMatch, InclusionKnown, LastVerdictCounts
<1>3. VerdictFollowsHead
  BY DEF VerdictFollowsHead
<1> QED BY <1>1, <1>2, <1>3 DEF InclusionInv

\* Verdicts are verdicts.
LEMMA VerdictType ==
    ASSUME NEW h, NEW s, NEW root
    PROVE  Verdict(h, s, root) \in Verdicts
BY DEF Verdict, Verdicts

\* A win that is not absent is a win.
LEMMA WinType ==
    ASSUME NEW t \in [Slots -> Win \cup {NoWin}], NEW s \in Slots, t[s] # NoWin
    PROVE  t[s] \in Win /\ t[s].root \in Blocks /\ t[s].verdict \in Verdicts \cup {"unknown"}
<1>1. t[s] \in Win
  OBVIOUS
<1> QED BY <1>1 DEF Win

\* Arming leaves every other slot alone, and a win it starts is unjudged.
LEMMA ArmedFacts ==
    ASSUME tracked \in [Slots -> Win \cup {NoWin}], WinsMatch, NEW b \in Blocks
    PROVE  /\ Armed(b) \in [Slots -> Win \cup {NoWin}]
           /\ \A s \in Slots :
                \/ Armed(b)[s] = tracked[s]
                \/ /\ Info[b].ours = s /\ s >= GloasSlot
                   /\ Armed(b)[s] = [root |-> b, verdict |-> "unknown"]
<1>1. Info[b].ours \in Slots \cup {NoSlot}
  BY BlockFacts
<1>2. [root |-> b, verdict |-> "unknown"] \in Win
  BY DEF Win
<1>3. CASE Info[b].ours # NoSlot /\ Info[b].ours >= GloasSlot
  <2>1. Armed(b) = [tracked EXCEPT ![Info[b].ours] = [root |-> b, verdict |-> "unknown"]]
    BY <1>3 DEF Armed
  <2> QED BY <1>1, <1>2, <1>3, <2>1
<1>4. CASE ~(Info[b].ours # NoSlot /\ Info[b].ours >= GloasSlot)
  <2>1. Armed(b) = tracked
    BY <1>4 DEF Armed
  <2> QED BY <2>1
<1> QED BY <1>3, <1>4

\* A head keeps the invariant, whatever blocks are down.
LEMMA HeadKeeps ==
    ASSUME InclusionInv, NEW b \in Blocks, NEW down, ProcessHead(b, down)
    PROVE  InclusionInv'
<1> DEFINE t == Armed(b)
           ch == Changed(b, t, down)
           live == {s \in Slots : t[s] # NoWin /\ Info[b].slot > s}
           judged == [s \in Slots |-> IF s \in ch
                          THEN [t[s] EXCEPT !.verdict = Verdict(b, s, t[s].root)]
                          ELSE t[s]]
<1>1. /\ heads < MaxHeads /\ heads' = heads + 1
      /\ RoomFor(b, ch)
      /\ includedCh' = [s \in Slots |-> includedCh[s] + (IF s = Info[b].ours THEN 1 ELSE 0)]
      /\ statusCh' = [s \in Slots |-> IF s \in ch
                                      THEN Append(statusCh[s], Verdict(b, s, t[s].root))
                                      ELSE statusCh[s]]
      /\ tracked' = PrunedWins(judged, Info[b].slot)
      /\ \E c : blockCache' = PrunedCache(c, Info[b].slot)
                /\ c = blockCache \cup {b} \cup UNION {Answered(b, s, down) : s \in live}
      /\ lastHead' = [block |-> b, complete |-> \A s \in live : Asked(b, s) \cap down = {}]
      /\ recorded' = recorded
  BY Zenon DEF ProcessHead
<1>2. /\ InclusionTypeOK /\ WinsMatch /\ InclusionKnown /\ LastVerdictCounts
      /\ tracked \in [Slots -> Win \cup {NoWin}]
  BY DEF InclusionInv, InclusionTypeOK
<1>3. /\ t \in [Slots -> Win \cup {NoWin}]
      /\ \A s \in Slots : \/ t[s] = tracked[s]
                          \/ /\ Info[b].ours = s /\ s >= GloasSlot
                             /\ t[s] = [root |-> b, verdict |-> "unknown"]
  BY <1>2, ArmedFacts
<1>4. \A s \in ch : s \in Slots /\ t[s] # NoWin /\ Info[b].slot > s
  BY DEF Changed
<1>5. \A s \in Slots :
        t[s] # NoWin /\ Info[b].slot > s /\ Asked(b, s) \cap down = {} /\ s \notin ch =>
            t[s].verdict = Verdict(b, s, t[s].root)
  BY DEF Changed
<1>6. \A s \in Slots : \/ tracked'[s] = NoWin
                       \/ tracked'[s] = judged[s]
  BY <1>1 DEF PrunedWins
<1>7. \A s \in Slots : tracked'[s] # NoWin =>
        /\ t[s] # NoWin /\ t[s] \in Win /\ t[s].root \in Blocks
        /\ t[s].verdict \in Verdicts \cup {"unknown"}
        /\ tracked'[s] \in Win
        /\ tracked'[s].root = t[s].root
        /\ tracked'[s].verdict = IF s \in ch THEN Verdict(b, s, t[s].root) ELSE t[s].verdict
  <2> TAKE s \in Slots
  <2> HAVE tracked'[s] # NoWin
  <2>1. tracked'[s] = IF s \in ch THEN [t[s] EXCEPT !.verdict = Verdict(b, s, t[s].root)] ELSE t[s]
    BY <1>6
  <2>2. t[s] # NoWin
    BY <1>4, <2>1
  <2>3. t[s] \in Win /\ t[s].root \in Blocks /\ t[s].verdict \in Verdicts \cup {"unknown"}
    BY <1>3, <2>2, WinType
  <2>4. Verdict(b, s, t[s].root) \in Verdicts
    BY VerdictType
  <2> HIDE DEF t, ch
  <2> QED BY <2>1, <2>2, <2>3, <2>4 DEF Win
<1>8. Info[b].ours \in Slots \cup {NoSlot} /\ Info[b].ours \in {NoSlot, Info[b].slot}
      /\ Info[b].slot \in Nat
  BY BlockFacts
<1>9. \A s \in Slots : s \in Nat
  BY InclusionAssumption
<1> HIDE DEF t, ch, judged
<1>10. \A s \in Slots : tracked'[s] # NoWin =>
          Info[tracked'[s].root].ours = s /\ s >= GloasSlot
  <2> TAKE s \in Slots
  <2> HAVE tracked'[s] # NoWin
  <2>1. tracked'[s].root = t[s].root /\ t[s] # NoWin
    BY <1>7
  <2>2. CASE t[s] = tracked[s]
    BY <1>2, <2>1, <2>2 DEF WinsMatch
  <2>3. CASE Info[b].ours = s /\ s >= GloasSlot /\ t[s] = [root |-> b, verdict |-> "unknown"]
    BY <2>1, <2>3
  <2> QED BY <1>3, <2>2, <2>3
<1>11. InclusionTypeOK'
  <2>1. tracked' \in [Slots -> Win \cup {NoWin}]
    <3>1. \A s \in Slots : tracked'[s] \in Win \cup {NoWin}
      BY <1>7
    <3>2. tracked' = [s \in Slots |-> tracked'[s]]
      BY <1>1 DEF PrunedWins
    <3> QED BY <3>1, <3>2
  <2>2. blockCache' \subseteq Blocks
    <3>1. PICK c : /\ blockCache' = PrunedCache(c, Info[b].slot)
                   /\ c = blockCache \cup {b} \cup UNION {Answered(b, s, down) : s \in live}
      BY <1>1
    <3>2. blockCache \subseteq Blocks
      BY <1>2 DEF InclusionTypeOK
    <3>3. \A s \in live : Answered(b, s, down) \subseteq Blocks
      <4> TAKE s \in live
      <4>1. s \in Slots
        OBVIOUS
      <4>2. Cursor(b, s) \in Chain[b]
        BY <4>1, CursorFacts
      <4>3. After(b, s) \subseteq Chain[b] /\ Chain[b] \subseteq Blocks
        BY ChainIsLinear DEF After, Linear
      <4> QED BY <4>2, <4>3 DEF Answered, Asked
    <3>4. c \subseteq Blocks
      BY <3>1, <3>2, <3>3
    <3> QED BY <3>1, <3>4 DEF PrunedCache
  <2>3. includedCh' \in [Slots -> 0 .. ChannelSize]
    <3>1. \A s \in Slots : includedCh[s] \in 0 .. ChannelSize
      BY <1>2 DEF InclusionTypeOK
    <3>2. \A s \in Slots : s = Info[b].ours => includedCh[s] < ChannelSize
      BY <1>1, <1>9, InclusionAssumption DEF RoomFor
    <3>3. ChannelSize \in Nat
      BY InclusionAssumption
    <3>4. \A s \in Slots : includedCh[s] + (IF s = Info[b].ours THEN 1 ELSE 0) \in 0 .. ChannelSize
      BY <3>1, <3>2, <3>3
    <3> QED BY <1>1, <3>4
  <2>4. \A s \in Slots : statusCh'[s] \in Seq(Verdicts) /\ Len(statusCh'[s]) <= ChannelSize
    <3> TAKE s \in Slots
    <3>1. statusCh[s] \in Seq(Verdicts) /\ Len(statusCh[s]) <= ChannelSize /\ ChannelSize \in Nat
      BY <1>2, InclusionAssumption DEF InclusionTypeOK
    <3>2. CASE s \in ch
      <4>1. statusCh'[s] = Append(statusCh[s], Verdict(b, s, t[s].root))
        BY <1>1, <3>2
      <4>2. Len(statusCh[s]) < ChannelSize
        BY <1>1, <3>2 DEF RoomFor
      <4>3. Verdict(b, s, t[s].root) \in Verdicts
        BY VerdictType
      <4>4. statusCh'[s] \in Seq(Verdicts) /\ Len(statusCh'[s]) = Len(statusCh[s]) + 1
        BY <3>1, <4>1, <4>3, AppendProperties
      <4>5. Len(statusCh[s]) \in Nat
        BY <3>1, LenProperties
      <4> QED BY <3>1, <4>2, <4>4, <4>5
    <3>3. CASE s \notin ch
      BY <1>1, <3>1, <3>3
    <3> QED BY <3>2, <3>3
  <2>5. recorded' \in [Slots -> Statuses] /\ heads' \in 0 .. MaxHeads
    BY <1>1, <1>2, InclusionAssumption DEF InclusionTypeOK
  <2>6. statusCh' \in [Slots -> Seq(Verdicts)]
    BY <1>1, <2>4
  <2> QED BY <2>1, <2>2, <2>3, <2>4, <2>5, <2>6 DEF InclusionTypeOK
<1>12. InclusionKnown'
  <2>1. \A s \in Slots : includedCh[s] \in Nat
    BY <1>2, InclusionAssumption DEF InclusionTypeOK
  <2>2. ASSUME NEW s \in Slots, tracked'[s] # NoWin
        PROVE  includedCh'[s] > 0 \/ recorded'[s] # "none"
    <3>1. t[s] # NoWin
      BY <1>7, <2>2
    <3>2. CASE t[s] = tracked[s]
      BY <1>1, <1>2, <2>1, <3>1, <3>2 DEF InclusionKnown
    <3>3. CASE Info[b].ours = s
      BY <1>1, <2>1, <3>3
    <3> QED BY <1>3, <3>2, <3>3
  <2> QED BY <2>2 DEF InclusionKnown
<1>13. LastVerdictCounts'
  <2>1. ASSUME NEW s \in Slots, tracked'[s] # NoWin, tracked'[s].verdict # "unknown"
        PROVE  IF statusCh'[s] # <<>> THEN statusCh'[s][Len(statusCh'[s])] = tracked'[s].verdict
               ELSE recorded'[s] \in {"none", "pending", tracked'[s].verdict}
    <3>1. statusCh[s] \in Seq(Verdicts)
      BY <1>2 DEF InclusionTypeOK
    <3>2. CASE s \in ch
      <4> DEFINE v == Verdict(b, s, t[s].root)
      <4>1. statusCh'[s] = Append(statusCh[s], v) /\ tracked'[s].verdict = v /\ v \in Verdicts
        BY <1>1, <1>7, <2>1, <3>2, VerdictType
      <4> HIDE DEF v
      <4>2. /\ Append(statusCh[s], v) # <<>>
            /\ Append(statusCh[s], v)[Len(Append(statusCh[s], v))] = v
        BY <3>1, <4>1, AppendProperties
      <4> QED BY <4>1, <4>2
    <3>3. CASE s \notin ch
      <4>1. statusCh'[s] = statusCh[s] /\ recorded' = recorded /\ tracked'[s].verdict = t[s].verdict
        BY <1>1, <1>7, <2>1, <3>3
      <4>2. t[s] = tracked[s] /\ t[s] # NoWin
        BY <1>3, <1>7, <2>1, <4>1
      <4> QED BY <1>2, <2>1, <4>1, <4>2 DEF LastVerdictCounts
    <3> QED BY <3>2, <3>3
  <2> QED BY <2>1 DEF LastVerdictCounts
<1>14. VerdictFollowsHead'
  <2>1. ASSUME lastHead'.complete, NEW s \in Slots, tracked'[s] # NoWin,
               Info[lastHead'.block].slot > s
        PROVE  tracked'[s].verdict = Outcome(lastHead'.block, s, tracked'[s].root)
    <3>1. lastHead'.block = b /\ \A r \in live : Asked(b, r) \cap down = {}
      BY <1>1, <2>1
    <3>2. /\ t[s] # NoWin /\ tracked'[s].root = t[s].root /\ t[s].root \in Blocks
          /\ Info[b].slot > s
      BY <1>7, <2>1, <3>1
    <3>3. Asked(b, s) \cap down = {}
      BY <3>1, <3>2
    <3>4. tracked'[s].verdict = Verdict(b, s, t[s].root)
      BY <1>5, <1>7, <2>1, <3>2, <3>3
    <3>5. Info[t[s].root].slot = s
      <4>1. Info[t[s].root].ours = s
        BY <1>10, <2>1, <3>2
      <4>2. Info[t[s].root].ours \in {NoSlot, Info[t[s].root].slot}
        BY <3>2, BlockFacts
      <4> QED BY <1>9, <4>1, <4>2, InclusionAssumption
    <3> QED BY <3>1, <3>2, <3>4, <3>5, VerdictIsOutcome
  <2> QED BY <2>1 DEF VerdictFollowsHead, Outcome
<1> QED BY <1>10, <1>11, <1>12, <1>13, <1>14 DEF InclusionInv, WinsMatch

\* The results loop records an inclusion.
LEMMA IncludedKeeps ==
    ASSUME InclusionInv, NEW r \in Slots, HandleIncluded(r)
    PROVE  InclusionInv'
<1>1. /\ includedCh[r] > 0
      /\ includedCh' = [includedCh EXCEPT ![r] = @ - 1]
      /\ recorded' = [recorded EXCEPT ![r] = IF r >= GloasSlot THEN "pending" ELSE "canonical"]
      /\ UNCHANGED <<tracked, blockCache, statusCh, lastHead, heads>>
  BY DEF HandleIncluded
<1>2. InclusionTypeOK /\ WinsMatch /\ InclusionKnown /\ LastVerdictCounts /\ VerdictFollowsHead
  BY DEF InclusionInv
<1>3. /\ includedCh \in [Slots -> 0 .. ChannelSize] /\ recorded \in [Slots -> Statuses]
      /\ ChannelSize \in Nat
  BY <1>2, InclusionAssumption DEF InclusionTypeOK
<1>4. InclusionTypeOK'
  <2>1. includedCh' \in [Slots -> 0 .. ChannelSize]
    BY <1>1, <1>3
  <2>2. recorded' \in [Slots -> Statuses]
    BY <1>1, <1>3 DEF Statuses, Verdicts
  <2> QED BY <1>1, <1>2, <2>1, <2>2 DEF InclusionTypeOK
<1>5. \A s \in Slots : (recorded'[s] = recorded[s] /\ includedCh'[s] = includedCh[s]) \/ s = r
  BY <1>1, <1>3
<1>6. recorded'[r] # "none" /\ (r >= GloasSlot => recorded'[r] = "pending")
  BY <1>1, <1>3
<1>7. WinsMatch' /\ VerdictFollowsHead'
  BY <1>1, <1>2 DEF WinsMatch, VerdictFollowsHead, Outcome
<1>8. InclusionKnown'
  BY <1>1, <1>2, <1>5, <1>6 DEF InclusionKnown
<1>9. LastVerdictCounts'
  BY <1>1, <1>2, <1>5, <1>6 DEF LastVerdictCounts, WinsMatch
<1> QED BY <1>4, <1>7, <1>8, <1>9 DEF InclusionInv

\* The results loop records a verdict.
LEMMA StatusKeeps ==
    ASSUME InclusionInv, NEW r \in Slots, HandlePayloadStatus(r)
    PROVE  InclusionInv'
<1>1. /\ statusCh[r] # <<>>
      /\ statusCh' = [statusCh EXCEPT ![r] = Tail(@)]
      /\ recorded' = [recorded EXCEPT ![r] = IF @ = "none" THEN @ ELSE Head(statusCh[r])]
      /\ UNCHANGED <<tracked, blockCache, includedCh, lastHead, heads>>
  BY DEF HandlePayloadStatus
<1>2. InclusionTypeOK /\ WinsMatch /\ InclusionKnown /\ LastVerdictCounts /\ VerdictFollowsHead
  BY DEF InclusionInv
<1>3. /\ recorded \in [Slots -> Statuses] /\ ChannelSize \in Nat
      /\ statusCh \in [Slots -> Seq(Verdicts)] /\ \A s \in Slots : Len(statusCh[s]) <= ChannelSize
  BY <1>2, InclusionAssumption DEF InclusionTypeOK
<1> DEFINE q == statusCh[r]
<1>4. /\ q \in Seq(Verdicts) /\ q # <<>> /\ Len(q) \in Nat /\ Len(q) >= 1 /\ Len(q) <= ChannelSize
      /\ statusCh'[r] = Tail(q) /\ recorded'[r] = IF recorded[r] = "none" THEN "none" ELSE Head(q)
      /\ \A s \in Slots : s # r => statusCh'[s] = statusCh[s] /\ recorded'[s] = recorded[s]
  BY <1>1, <1>3, EmptySeq, LenProperties
<1> HIDE DEF q
<1>5. /\ Head(q) = q[1] /\ Head(q) \in Verdicts
      /\ Tail(q) \in Seq(Verdicts) /\ Len(Tail(q)) = Len(q) - 1
      /\ \A i \in 1 .. Len(Tail(q)) : Tail(q)[i] = q[i + 1]
  BY <1>4, HeadTailProperties
<1>6. InclusionTypeOK'
  <2>1. statusCh' \in [Slots -> Seq(Verdicts)]
    BY <1>1, <1>3, <1>4, <1>5
  <2>2. recorded' \in [Slots -> Statuses]
    <3>1. recorded'[r] \in Statuses
      BY <1>4, <1>5 DEF Statuses
    <3> QED BY <1>1, <1>3, <1>4, <3>1
  <2>3. \A s \in Slots : Len(statusCh'[s]) <= ChannelSize
    BY <1>3, <1>4, <1>5
  <2> QED BY <1>1, <1>2, <2>1, <2>2, <2>3 DEF InclusionTypeOK
<1>7. WinsMatch' /\ VerdictFollowsHead'
  BY <1>1, <1>2 DEF WinsMatch, VerdictFollowsHead, Outcome
<1>8. InclusionKnown'
  <2>1. recorded[r] # "none" => recorded'[r] # "none"
    BY <1>4, <1>5 DEF Verdicts
  <2> QED BY <1>1, <1>2, <1>4, <2>1 DEF InclusionKnown
<1>9. LastVerdictCounts'
  <2>1. ASSUME NEW s \in Slots, tracked[s] # NoWin, tracked[s].verdict # "unknown"
        PROVE  IF statusCh'[s] # <<>> THEN statusCh'[s][Len(statusCh'[s])] = tracked[s].verdict
               ELSE recorded'[s] \in {"none", "pending", tracked[s].verdict}
    <3>1. CASE s # r
      BY <1>2, <1>4, <2>1, <3>1 DEF LastVerdictCounts
    <3>2. CASE s = r
      <4>1. q[Len(q)] = tracked[r].verdict
        BY <1>2, <1>4, <2>1, <3>2 DEF LastVerdictCounts, q
      <4>2. CASE Tail(q) # <<>>
        <5>1. Len(Tail(q)) \in 1 .. Len(Tail(q))
          BY <1>4, <1>5, <4>2, EmptySeq
        <5>2. Tail(q)[Len(Tail(q))] = q[Len(q)]
          BY <1>4, <1>5, <5>1
        <5> QED BY <1>4, <3>2, <4>1, <4>2, <5>2
      <4>3. CASE Tail(q) = <<>>
        <5>1. Len(q) = 1
          <6>1. Len(Tail(q)) = 0
            <7>1. Len(<<>>) = 0
              OBVIOUS
            <7> QED BY <4>3, <7>1, Zenon
          <6> QED BY <1>4, <1>5, <6>1
        <5>2. Head(q) = tracked[r].verdict
          BY <1>5, <4>1, <5>1
        <5> QED BY <1>4, <3>2, <4>3, <5>2
      <4> QED BY <4>2, <4>3
    <3> QED BY <3>1, <3>2
  <2> QED BY <1>1, <2>1 DEF LastVerdictCounts
<1> QED BY <1>6, <1>7, <1>8, <1>9 DEF InclusionInv

-----------------------------------------------------------------------------
(* The theorems.                                                           *)

\* The inductive invariant holds of every state: what is tracked, on its way and
\* recorded about a won slot fits together.
THEOREM InclusionInvariant == Spec => []InclusionInv
<1>1. Init => InclusionInv
  BY InclusionInit
<1>2. InclusionInv /\ [Next]_vars => InclusionInv'
  <2> SUFFICES ASSUME InclusionInv, [Next]_vars PROVE InclusionInv'
    OBVIOUS
  <2>1. ASSUME NEW b \in Blocks, NEW down, ProcessHead(b, down) PROVE InclusionInv'
    BY <2>1, HeadKeeps
  <2>2. ASSUME NEW s \in Slots, HandleIncluded(s) PROVE InclusionInv'
    BY <2>2, IncludedKeeps
  <2>3. ASSUME NEW s \in Slots, HandlePayloadStatus(s) PROVE InclusionInv'
    BY <2>3, StatusKeeps
  <2>4. CASE UNCHANGED vars
    <3>1. /\ InclusionTypeOK /\ WinsMatch /\ InclusionKnown
          /\ LastVerdictCounts /\ VerdictFollowsHead
      BY DEF InclusionInv
    <3>2. UNCHANGED <<tracked, blockCache, includedCh, statusCh, recorded, lastHead, heads>>
      BY <2>4 DEF vars, channels
    <3>3. InclusionTypeOK' /\ WinsMatch' /\ InclusionKnown'
      BY <3>1, <3>2 DEF InclusionTypeOK, WinsMatch, InclusionKnown
    <3>4. LastVerdictCounts' /\ VerdictFollowsHead'
      BY <3>1, <3>2 DEF LastVerdictCounts, VerdictFollowsHead, Outcome
    <3> QED BY <3>3, <3>4 DEF InclusionInv
  <2> QED BY <2>1, <2>2, <2>3, <2>4 DEF Next
<1> QED BY <1>1, <1>2, PTL DEF Spec

\* After a head whose ancestry could be read, every tracked win has the outcome of its
\* slot on that head's chain (evaluateTrackedWins, resolveVerdict), for every tree of
\* blocks and every reorg.
THEOREM VerdictsFollowTheHead == Spec => []VerdictFollowsHead
<1>1. InclusionInv => VerdictFollowsHead
  BY DEF InclusionInv
<1> QED BY <1>1, InclusionInvariant, PTL

\* With the channels drained, the record of a judged win holds its last verdict or is
\* pending (handleIncluded, handlePayloadStatus), in whatever order the loop took the
\* events of the two channels.
THEOREM NoVerdictIsStale == Spec => []NoStaleVerdict
<1>1. InclusionInv => NoStaleVerdict
  <2> SUFFICES ASSUME InclusionInv, NEW s \in Slots, Quiet(s), tracked[s] # NoWin,
                      tracked[s].verdict # "unknown"
               PROVE  recorded[s] \in {"pending", tracked[s].verdict}
    BY DEF NoStaleVerdict
  <2>1. includedCh[s] = 0 /\ statusCh[s] = <<>>
    BY DEF Quiet
  <2>2. recorded[s] # "none"
    BY <2>1 DEF InclusionInv, InclusionKnown
  <2>3. recorded[s] \in {"none", "pending", tracked[s].verdict}
    BY <2>1 DEF InclusionInv, LastVerdictCounts
  <2> QED BY <2>2, <2>3
<1> QED BY <1>1, InclusionInvariant, PTL

-----------------------------------------------------------------------------
(* Balances.                                                               *)

\* What validator i - 1 adds to the sum over V.
Share(V, i) == IF i - 1 \in V THEN Weight[i - 1] ELSE 0

LEMMA ShareType ==
    ASSUME NEW V, NEW i \in 0 .. NumValidators, i # 0
    PROVE  Share(V, i) \in Nat /\ i - 1 \in 0 .. NumValidators
<1>1. NumValidators \in Nat /\ Weight \in [Validators -> Nat]
  BY HeadVotesAssumption
<1>2. i - 1 \in Validators /\ i - 1 \in 0 .. NumValidators
  BY <1>1 DEF Validators
<1> QED BY <1>1, <1>2 DEF Share

\* The sums exist over every part of the registry, so Sums satisfies its
\* recursive definition: there is no first validator that ends them.
LEMMA SumsUnfold ==
    ASSUME NEW V
    PROVE  \A i \in 0 .. NumValidators :
             Sums(V)[i] = IF i = 0 THEN 0 ELSE Sums(V)[i - 1] + Share(V, i)
<1> DEFINE N == NumValidators
           Step(f, i) == IF i = 0 THEN 0 ELSE f[i - 1] + Share(V, i)
           Sum(n) == \E f \in [0 .. n -> Nat] : \A i \in 0 .. n : f[i] = Step(f, i)
           Bad == {n \in 0 .. N : ~Sum(n)}
<1>1. N \in Nat
  BY HeadVotesAssumption
<1>2. Sum(0)
  <2>1. [i \in 0 .. 0 |-> 0] \in [0 .. 0 -> Nat]
    OBVIOUS
  <2>2. \A i \in 0 .. 0 : [j \in 0 .. 0 |-> 0][i] = Step([j \in 0 .. 0 |-> 0], i)
    OBVIOUS
  <2> QED BY <2>1, <2>2
<1>3. ASSUME NEW n \in 0 .. N, n # 0, Sum(n - 1)
      PROVE  Sum(n)
  <2>1. PICK f \in [0 .. n - 1 -> Nat] : \A i \in 0 .. n - 1 : f[i] = Step(f, i)
    BY <1>3
  <2>2. n - 1 \in 0 .. n - 1 /\ Share(V, n) \in Nat /\ n \in Nat
    BY <1>1, <1>3, ShareType
  <2> DEFINE F == [i \in 0 .. n |-> IF i = n THEN f[n - 1] + Share(V, n) ELSE f[i]]
  <2>3. \A i \in 0 .. n : i # n => i \in 0 .. n - 1
    BY <2>2
  <2>4. F \in [0 .. n -> Nat]
    BY <2>1, <2>2, <2>3
  <2>5. ASSUME NEW i \in 0 .. n PROVE F[i] = Step(F, i)
    <3>1. CASE i = n
      <4>1. F[i] = f[n - 1] + Share(V, n)
        BY <3>1
      <4>2. n - 1 # n /\ n - 1 \in 0 .. n
        BY <2>2
      <4>3. F[i - 1] = f[n - 1]
        BY <3>1, <4>2
      <4> QED BY <1>3, <3>1, <4>1, <4>3
    <3>2. CASE i # n /\ i # 0
      <4>1. i - 1 # n /\ i - 1 \in 0 .. n /\ i \in 0 .. n - 1
        BY <2>2, <3>2
      <4>2. F[i] = f[i] /\ F[i - 1] = f[i - 1]
        BY <3>2, <4>1
      <4> QED BY <2>1, <3>2, <4>1, <4>2
    <3>3. CASE i = 0 /\ i # n
      <4>1. F[i] = f[i] /\ i \in 0 .. n - 1
        BY <2>2, <3>3
      <4> QED BY <2>1, <3>3, <4>1
    <3> QED BY <3>1, <3>2, <3>3
  <2> HIDE DEF F, Step
  <2> QED BY <2>4, <2>5
<1> HIDE DEF Sum
<1>4. Bad = {}
  <2> SUFFICES ASSUME Bad # {} PROVE FALSE
    OBVIOUS
  <2>1. Bad \in SUBSET Nat
    BY <1>1
  <2>2. PICK n \in Bad : \A y \in Bad : n <= y
    BY <2>1, LeastNatural
  <2>3. n \in 0 .. N /\ n # 0 /\ ~Sum(n)
    BY <1>2, <2>2
  <2>4. n - 1 \in 0 .. N /\ ~(n <= n - 1)
    BY <1>1, <2>3
  <2>5. Sum(n - 1)
    BY <2>2, <2>4
  <2> QED BY <1>3, <2>3, <2>5
<1>5. Sum(N)
  BY <1>1, <1>4
<1>6. PICK f \in [0 .. N -> Nat] : \A i \in 0 .. N : f[i] = Step(f, i)
  BY <1>5 DEF Sum
<1> DEFINE P(g) == g = [i \in 0 .. N |-> Step(g, i)]
<1>7. P(f)
  BY <1>6
<1>8. P(CHOOSE g : P(g))
  BY <1>7
<1>9. Sums(V) = CHOOSE g : P(g)
  BY DEF Sums, Share
<1>10. Sums(V) = [i \in 0 .. N |-> Step(Sums(V), i)]
  BY <1>8, <1>9
<1> HIDE DEF Step
<1>11. \A i \in 0 .. N : Sums(V)[i] = Step(Sums(V), i)
  BY <1>10
<1> QED BY <1>11 DEF Step

\* Sums over nobody are zero, sums are naturals, and another validator adds its
\* weight from its place on.
LEMMA SumsEmpty == \A i \in 0 .. NumValidators : Sums({})[i] = 0
<1> DEFINE Bad == {i \in 0 .. NumValidators : Sums({})[i] # 0}
<1> SUFFICES ASSUME Bad # {} PROVE FALSE
  OBVIOUS
<1>1. NumValidators \in Nat /\ Bad \in SUBSET Nat
  BY HeadVotesAssumption
<1>2. PICK n \in Bad : \A y \in Bad : n <= y
  BY <1>1, LeastNatural
<1>3. n # 0
  BY <1>2, SumsUnfold
<1>4. n - 1 \in 0 .. NumValidators /\ ~(n <= n - 1)
  BY <1>1, <1>2, <1>3
<1>5. Sums({})[n - 1] = 0
  BY <1>2, <1>4
<1>6. Sums({})[n] = Sums({})[n - 1] + Share({}, n)
  BY <1>2, <1>3, SumsUnfold
<1> QED BY <1>2, <1>5, <1>6 DEF Share

LEMMA SumsType ==
    ASSUME NEW V
    PROVE  \A i \in 0 .. NumValidators : Sums(V)[i] \in Nat
<1> DEFINE Bad == {i \in 0 .. NumValidators : Sums(V)[i] \notin Nat}
<1> SUFFICES ASSUME Bad # {} PROVE FALSE
  OBVIOUS
<1>1. NumValidators \in Nat /\ Bad \in SUBSET Nat
  BY HeadVotesAssumption
<1>2. PICK n \in Bad : \A y \in Bad : n <= y
  BY <1>1, LeastNatural
<1>3. n # 0
  BY <1>2, SumsUnfold
<1>4. n - 1 \in 0 .. NumValidators /\ ~(n <= n - 1)
  BY <1>1, <1>2, <1>3
<1>5. Sums(V)[n - 1] \in Nat /\ Share(V, n) \in Nat
  BY <1>2, <1>3, <1>4, ShareType
<1>6. Sums(V)[n] = Sums(V)[n - 1] + Share(V, n)
  BY <1>2, <1>3, SumsUnfold
<1> QED BY <1>2, <1>5, <1>6

LEMMA SumsAdd ==
    ASSUME NEW V, NEW v \in Validators, v \notin V
    PROVE  \A i \in 0 .. NumValidators :
             Sums(V \cup {v})[i] = Sums(V)[i] + (IF v < i THEN Weight[v] ELSE 0)
<1> DEFINE W == V \cup {v}
           Extra(i) == IF v < i THEN Weight[v] ELSE 0
           Bad == {i \in 0 .. NumValidators : Sums(W)[i] # Sums(V)[i] + Extra(i)}
<1> SUFFICES ASSUME Bad # {} PROVE FALSE
  OBVIOUS
<1>1. NumValidators \in Nat /\ Bad \in SUBSET Nat /\ Weight[v] \in Nat /\ v \in Nat
  BY HeadVotesAssumption DEF Validators
<1>2. PICK n \in Bad : \A y \in Bad : n <= y
  BY <1>1, LeastNatural
<1>3. n # 0
  <2>1. 0 \in 0 .. NumValidators
    BY <1>1
  <2>2. Sums(W)[0] = 0 /\ Sums(V)[0] = 0
    BY <2>1, SumsUnfold
  <2>3. Extra(0) = 0
    BY <1>1
  <2> QED BY <1>2, <2>2, <2>3
<1>4. n - 1 \in 0 .. NumValidators /\ ~(n <= n - 1) /\ n \in 0 .. NumValidators
  BY <1>1, <1>2, <1>3
<1>5. Sums(W)[n - 1] = Sums(V)[n - 1] + Extra(n - 1)
  BY <1>2, <1>4
<1>6. Sums(W)[n] = Sums(W)[n - 1] + Share(W, n) /\ Sums(V)[n] = Sums(V)[n - 1] + Share(V, n)
  BY <1>3, <1>4, SumsUnfold
<1>7. Sums(V)[n - 1] \in Nat /\ Share(V, n) \in Nat /\ Share(W, n) \in Nat
  BY <1>3, <1>4, SumsType, ShareType
<1>8. Share(W, n) + Extra(n - 1) = Share(V, n) + Extra(n)
  <2>1. CASE n - 1 = v
    <3>1. Share(W, n) = Weight[v] /\ Share(V, n) = 0
      BY <2>1 DEF Share
    <3>2. Extra(n - 1) = 0 /\ Extra(n) = Weight[v]
      BY <1>1, <1>4, <2>1
    <3> QED BY <1>1, <3>1, <3>2
  <2>2. CASE n - 1 # v
    <3>1. Share(W, n) = Share(V, n)
      BY <2>2 DEF Share
    <3>2. Extra(n - 1) = Extra(n)
      BY <1>1, <1>4, <2>2
    <3> QED BY <1>7, <3>1, <3>2
  <2> QED BY <2>1, <2>2
<1>9. Extra(n) \in Nat /\ Extra(n - 1) \in Nat
  BY <1>1
<1> HIDE DEF Extra, W
<1>10. Sums(W)[n] = Sums(V)[n] + Extra(n)
  BY <1>5, <1>6, <1>7, <1>8, <1>9
<1> QED BY <1>2, <1>10

\* What Balance computes: nobody weighs nothing, another validator adds its weight.
LEMMA BalanceFacts ==
    /\ Balance({}) = 0
    /\ \A V : Balance(V) \in Nat
    /\ \A V : \A v \in Validators : v \notin V => Balance(V \cup {v}) = Balance(V) + Weight[v]
<1>1. NumValidators \in Nat /\ NumValidators \in 0 .. NumValidators
  BY HeadVotesAssumption
<1>2. Balance({}) = 0
  BY <1>1, SumsEmpty DEF Balance
<1>3. ASSUME NEW V PROVE Balance(V) \in Nat
  BY <1>1, SumsType DEF Balance
<1>4. ASSUME NEW V, NEW v \in Validators, v \notin V
      PROVE  Balance(V \cup {v}) = Balance(V) + Weight[v]
  <2>1. v < NumValidators
    BY <1>1 DEF Validators
  <2>2. Sums(V \cup {v})[NumValidators] = Sums(V)[NumValidators] + (IF v < NumValidators THEN Weight[v] ELSE 0)
    BY <1>1, <1>4, SumsAdd
  <2> QED BY <2>1, <2>2 DEF Balance
<1> QED BY <1>2, <1>3, <1>4

-----------------------------------------------------------------------------
(* The state of a slot.                                                    *)

\* The tallies of the model, and what holds of one of slot s.
Tally == [voters : SUBSET Validators, inBlock : SUBSET Validators, eth : Nat, count : Nat,
          fired : Nat, thresholdFired : BOOLEAN, dirty : BOOLEAN]
Exact(s, tally) ==
    /\ tally.voters \subseteq Members[s]
    /\ tally.eth = Balance(tally.voters) /\ tally.count = Cardinality(tally.voters)
    /\ tally.fired <= tally.eth

\* The state of slot s: at most MaxRoots tallies, each exact.
StateOK(s, st) ==
    /\ st = [head |-> st.head, roots |-> st.roots]
    /\ st.head \in Roots \cup {NoRoot} /\ DOMAIN st.roots \subseteq Roots
    /\ st.roots \in [DOMAIN st.roots -> Tally]
    /\ IsFiniteSet(DOMAIN st.roots) /\ Cardinality(DOMAIN st.roots) <= MaxRoots
    /\ \A r \in DOMAIN st.roots : Exact(s, st.roots[r])

LEMMA NewTallyFacts ==
    ASSUME NEW s \in VoteSlots
    PROVE  NewTally \in Tally /\ Exact(s, NewTally) /\ ~NewTally.thresholdFired /\ NewTally.eth = 0
<1>1. NewTally \in Tally
  BY DEF NewTally, Tally
<1>2. NewTally.voters = {} /\ NewTally.eth = 0 /\ NewTally.count = 0 /\ NewTally.fired = 0
      /\ NewTally.thresholdFired = FALSE
  BY DEF NewTally
<1>3. Balance({}) = 0 /\ Cardinality({}) = 0
  BY BalanceFacts, FS_EmptySet
<1>4. Exact(s, NewTally)
  BY <1>2, <1>3 DEF Exact
<1> QED BY <1>1, <1>2, <1>4

LEMMA NewSlotFacts ==
    ASSUME NEW s \in VoteSlots
    PROVE  StateOK(s, NewSlot) /\ NewSlot.head = NoRoot /\ DOMAIN NewSlot.roots = {}
<1>1. NewSlot.head = NoRoot /\ NewSlot.roots = [r \in {} |-> NewTally]
      /\ NewSlot = [head |-> NewSlot.head, roots |-> NewSlot.roots]
  BY DEF NewSlot
<1>2. DOMAIN NewSlot.roots = {}
  BY <1>1
<1>3. IsFiniteSet({}) /\ Cardinality({}) = 0
  BY FS_EmptySet
<1>4. MaxRoots \in Nat
  BY HeadVotesAssumption
<1>5. NewSlot.roots \in [{} -> Tally]
  BY <1>1
<1> QED BY <1>1, <1>2, <1>3, <1>4, <1>5 DEF StateOK

\* getOrCreateRootState keeps what is there, and adds an empty tally at most.
LEMMA WithRootFacts ==
    ASSUME NEW s \in VoteSlots, NEW st, StateOK(s, st), NEW r \in Roots
    PROVE  LET w == WithRoot(st, r) IN
           /\ StateOK(s, w) /\ w.head = st.head
           /\ DOMAIN st.roots \subseteq DOMAIN w.roots
           /\ \A q \in DOMAIN st.roots : w.roots[q] = st.roots[q]
           /\ \A q \in DOMAIN w.roots \ DOMAIN st.roots : q = r /\ w.roots[q] = NewTally
           /\ r \in DOMAIN w.roots \/ Cardinality(DOMAIN st.roots) >= MaxRoots
<1> DEFINE w == WithRoot(st, r)
<1>1. CASE r \in DOMAIN st.roots \/ Cardinality(DOMAIN st.roots) >= MaxRoots
  <2>1. w = st
    BY <1>1 DEF WithRoot
  <2> HIDE DEF w
  <2> QED BY <1>1, <2>1 DEF w
<1>2. CASE ~(r \in DOMAIN st.roots \/ Cardinality(DOMAIN st.roots) >= MaxRoots)
  <2> DEFINE D == DOMAIN st.roots
             g == [y \in D \cup {r} |-> IF y = r THEN NewTally ELSE st.roots[y]]
  <2>1. w = [st EXCEPT !.roots = g]
    BY <1>2 DEF WithRoot, Put
  <2>2. /\ st = [head |-> st.head, roots |-> st.roots] /\ st.roots \in [D -> Tally] /\ D \subseteq Roots
        /\ st.head \in Roots \cup {NoRoot}
        /\ IsFiniteSet(D) /\ \A q \in D : Exact(s, st.roots[q])
    BY DEF StateOK
  <2>3. w = [head |-> st.head, roots |-> g]
    BY <2>1, <2>2
  <2>4. w.head = st.head /\ w.roots = g /\ w = [head |-> w.head, roots |-> w.roots]
    BY <2>3
  <2>5. DOMAIN w.roots = D \cup {r}
    BY <2>4
  <2>6. \A q \in D : w.roots[q] = st.roots[q]
    BY <1>2, <2>4
  <2>7. w.roots[r] = NewTally
    BY <2>4
  <2>8. NewTally \in Tally /\ Exact(s, NewTally)
    BY NewTallyFacts
  <2>9. w.roots \in [D \cup {r} -> Tally]
    BY <2>2, <2>4, <2>8
  <2>10. IsFiniteSet(D \cup {r}) /\ Cardinality(D \cup {r}) = Cardinality(D) + 1
    BY <1>2, <2>2, FS_AddElement
  <2>11. Cardinality(D) \in Nat /\ MaxRoots \in Nat
    BY <2>2, FS_CardinalityType, HeadVotesAssumption
  <2>12. Cardinality(D \cup {r}) <= MaxRoots
    BY <1>2, <2>10, <2>11
  <2> HIDE DEF w, g, D
  <2>13. \A q \in DOMAIN w.roots : Exact(s, w.roots[q])
    BY <2>2, <2>5, <2>6, <2>7, <2>8
  <2>14. StateOK(s, w)
    BY <2>2, <2>4, <2>5, <2>9, <2>10, <2>12, <2>13 DEF StateOK
  <2>15. \A q \in DOMAIN w.roots \ D : q = r
    BY <2>5
  <2> QED BY <2>4, <2>5, <2>6, <2>7, <2>14, <2>15 DEF D, w
<1> QED BY <1>1, <1>2

\* A tally of a slot is replaced by another exact one.
LEMMA ReplacedFacts ==
    ASSUME NEW s \in VoteSlots, NEW st, StateOK(s, st), NEW r \in DOMAIN st.roots,
           NEW t \in Tally, Exact(s, t)
    PROVE  LET w == [st EXCEPT !.roots[r] = t] IN
           /\ StateOK(s, w) /\ w.head = st.head /\ DOMAIN w.roots = DOMAIN st.roots
           /\ w.roots[r] = t
           /\ \A q \in DOMAIN st.roots : q # r => w.roots[q] = st.roots[q]
<1> DEFINE D == DOMAIN st.roots
           w == [st EXCEPT !.roots[r] = t]
           g == [st.roots EXCEPT ![r] = t]
<1>1. /\ st = [head |-> st.head, roots |-> st.roots] /\ st.roots \in [D -> Tally] /\ D \subseteq Roots
      /\ st.head \in Roots \cup {NoRoot} /\ IsFiniteSet(D) /\ Cardinality(D) <= MaxRoots
      /\ \A q \in D : Exact(s, st.roots[q])
  BY DEF StateOK
<1>2. w = [head |-> st.head, roots |-> g]
  BY <1>1
<1>3. w.head = st.head /\ w.roots = g /\ w = [head |-> w.head, roots |-> w.roots]
  BY <1>2
<1>4. g \in [D -> Tally] /\ DOMAIN g = D /\ g[r] = t /\ \A q \in D : q # r => g[q] = st.roots[q]
  BY <1>1
<1>5. \A q \in D : Exact(s, g[q])
  BY <1>1, <1>4
<1> HIDE DEF w, g, D
<1>6. StateOK(s, w)
  BY <1>1, <1>3, <1>4, <1>5 DEF StateOK
<1> QED BY <1>3, <1>4, <1>6 DEF D, w

\* A report resets the tally and may mark its threshold as fired.
LEMMA ResetFacts ==
    ASSUME NEW s \in VoteSlots, NEW t \in Tally, Exact(s, t)
    PROVE  /\ Reset(t) \in Tally /\ Exact(s, Reset(t)) /\ Reset(t).eth = t.eth
           /\ Reset(t).thresholdFired = t.thresholdFired
           /\ [Reset(t) EXCEPT !.thresholdFired = TRUE] \in Tally
           /\ Exact(s, [Reset(t) EXCEPT !.thresholdFired = TRUE])
           /\ [Reset(t) EXCEPT !.thresholdFired = TRUE].eth = t.eth
<1> DEFINE u == [Reset(t) EXCEPT !.thresholdFired = TRUE]
<1>1. Reset(t) \in Tally /\ u \in Tally
  BY DEF Reset, Tally
<1>2. /\ Reset(t).voters = t.voters /\ Reset(t).eth = t.eth /\ Reset(t).count = t.count
      /\ Reset(t).fired = t.eth /\ Reset(t).thresholdFired = t.thresholdFired
  BY DEF Reset, Tally
<1>3. /\ u.voters = t.voters /\ u.eth = t.eth /\ u.count = t.count /\ u.fired = t.eth
  BY DEF Reset, Tally
<1>4. t.eth \in Nat
  BY DEF Tally
<1> HIDE DEF u
<1>5. Exact(s, Reset(t)) /\ Exact(s, u)
  BY <1>2, <1>3, <1>4 DEF Exact
<1> QED BY <1>1, <1>2, <1>3, <1>5 DEF u

\* maybeFireThreshold keeps every balance; when the root is the head and at the
\* threshold, an update is dispatched now or was before.
FireFacts(s, st, r, o) ==
    /\ o = [st |-> o.st, fired |-> o.fired]
    /\ StateOK(s, o.st) /\ o.st.head = st.head /\ DOMAIN o.st.roots = DOMAIN st.roots
    /\ \A q \in DOMAIN st.roots :
        /\ o.st.roots[q].eth = st.roots[q].eth
        /\ o.st.roots[q].thresholdFired => st.roots[q].thresholdFired \/ (q = r /\ o.fired)
    /\ st.head = r /\ threshold > 0 /\ AtLeast(s, st.roots[r].eth, threshold) =>
         o.fired \/ st.roots[r].thresholdFired

LEMMA MaybeFireFacts ==
    ASSUME NEW s \in VoteSlots, NEW st, StateOK(s, st), NEW r \in DOMAIN st.roots,
           NEW o \in MaybeFire(s, st, r)
    PROVE  FireFacts(s, st, r, o)
<1>1. PICK p \in Primaries(st) :
        o = IF Crosses(s, st, r, p)
            THEN [st |-> [st EXCEPT !.roots[r] = [Reset(st.roots[r]) EXCEPT !.thresholdFired = TRUE]], fired |-> TRUE]
            ELSE [st |-> st, fired |-> FALSE]
  BY DEF MaybeFire
<1>2. st.roots[r] \in Tally /\ Exact(s, st.roots[r])
  BY DEF StateOK
<1>3. CASE Crosses(s, st, r, p)
  <2> DEFINE t == [Reset(st.roots[r]) EXCEPT !.thresholdFired = TRUE]
             w == [st EXCEPT !.roots[r] = t]
  <2>1. t \in Tally /\ Exact(s, t) /\ t.eth = st.roots[r].eth
    BY <1>2, ResetFacts
  <2>2. o.st = w /\ o.fired = TRUE /\ o = [st |-> o.st, fired |-> o.fired]
    BY <1>1, <1>3
  <2> HIDE DEF t
  <2>3. /\ StateOK(s, w) /\ w.head = st.head /\ DOMAIN w.roots = DOMAIN st.roots
        /\ w.roots[r] = t
        /\ \A q \in DOMAIN st.roots : q # r => w.roots[q] = st.roots[q]
    BY <2>1, ReplacedFacts
  <2> HIDE DEF w
  <2>4. \A q \in DOMAIN st.roots : w.roots[q].eth = st.roots[q].eth
    BY <2>1, <2>3
  <2> QED BY <2>2, <2>3, <2>4 DEF FireFacts
<1>4. CASE ~Crosses(s, st, r, p)
  <2>1. o.st = st /\ o.fired = FALSE /\ o = [st |-> o.st, fired |-> o.fired]
    BY <1>1, <1>4
  <2>2. st.head = r => p = r
    BY DEF Primaries
  <2>3. st.head = r /\ threshold > 0 /\ AtLeast(s, st.roots[r].eth, threshold) =>
          st.roots[r].thresholdFired
    BY <1>4, <2>2 DEF Crosses
  <2> QED BY <2>1, <2>3 DEF FireFacts
<1> QED BY <1>3, <1>4

\* A vote that counts.
LEMMA TalliedFacts ==
    ASSUME NEW s \in VoteSlots, NEW t \in Tally, Exact(s, t), NEW v \in Members[s], v \notin t.voters
    PROVE  /\ Tallied(t, v) \in Tally /\ Exact(s, Tallied(t, v))
           /\ Tallied(t, v).thresholdFired = t.thresholdFired
<1> DEFINE u == Tallied(t, v)
<1>1. v \in Validators /\ Weight[v] \in Nat
  BY HeadVotesAssumption
<1>2. u \in Tally
  <2>1. t.eth + Weight[v] \in Nat /\ t.count + 1 \in Nat
    BY <1>1 DEF Tally
  <2>2. t.voters \cup {v} \in SUBSET Validators
    BY <1>1 DEF Tally
  <2> QED BY <2>1, <2>2 DEF Tallied, Tally
<1>3. /\ u.voters = t.voters \cup {v} /\ u.eth = t.eth + Weight[v] /\ u.count = t.count + 1
      /\ u.fired = t.fired /\ u.thresholdFired = t.thresholdFired
  BY DEF Tallied, Tally
<1>4. t.eth \in Nat /\ t.fired \in Nat /\ t.voters \in SUBSET Validators
  BY DEF Tally
<1>5. NumValidators - 1 \in Int /\ 0 \in Int
  BY HeadVotesAssumption
<1>6. IsFiniteSet(Validators)
  BY <1>5, FS_Interval DEF Validators
<1>7. IsFiniteSet(t.voters)
  BY <1>4, <1>6, FS_Subset
<1>8. Cardinality(t.voters \cup {v}) = Cardinality(t.voters) + 1
  BY <1>7, FS_AddElement
<1>9. Balance(t.voters \cup {v}) = Balance(t.voters) + Weight[v]
  BY <1>1, BalanceFacts
<1>10. t.voters \cup {v} \subseteq Members[s]
  BY DEF Exact
<1> HIDE DEF u
<1>11. Exact(s, u)
  <2>1. u.eth = Balance(u.voters) /\ u.count = Cardinality(u.voters)
    BY <1>3, <1>8, <1>9 DEF Exact
  <2>2. u.fired <= u.eth
    BY <1>1, <1>3, <1>4 DEF Exact
  <2> QED BY <1>3, <1>10, <2>1, <2>2 DEF Exact
<1> QED BY <1>2, <1>3, <1>11 DEF u

\* evictLeastVotedRoot makes room.
LEMMA EvictedFacts ==
    ASSUME NEW s \in VoteSlots, NEW st, StateOK(s, st), NEW e \in Evicted(st)
    PROVE  /\ StateOK(s, e) /\ e.head = st.head /\ DOMAIN e.roots \subseteq DOMAIN st.roots
           /\ \A q \in DOMAIN e.roots : e.roots[q] = st.roots[q]
           /\ Cardinality(DOMAIN e.roots) < MaxRoots
<1> DEFINE D == DOMAIN st.roots
<1>1. PICK r \in D : e = [st EXCEPT !.roots = Restrict(st.roots, D \ {r})]
  BY DEF Evicted, Without
<1> DEFINE g == [q \in D \ {r} |-> st.roots[q]]
<1>2. e = [st EXCEPT !.roots = g]
  BY <1>1 DEF Restrict
<1>3. /\ st = [head |-> st.head, roots |-> st.roots] /\ st.roots \in [D -> Tally] /\ D \subseteq Roots
      /\ st.head \in Roots \cup {NoRoot} /\ IsFiniteSet(D) /\ Cardinality(D) <= MaxRoots
      /\ \A q \in D : Exact(s, st.roots[q])
  BY DEF StateOK
<1>4. e = [head |-> st.head, roots |-> g]
  BY <1>2, <1>3
<1>5. e.head = st.head /\ e.roots = g /\ e = [head |-> e.head, roots |-> e.roots]
  BY <1>4
<1>6. g \in [D \ {r} -> Tally] /\ DOMAIN g = D \ {r} /\ \A q \in D \ {r} : g[q] = st.roots[q]
  BY <1>3
<1>7. IsFiniteSet(D \ {r}) /\ Cardinality(D \ {r}) = Cardinality(D) - 1
  BY <1>3, FS_RemoveElement
<1>8. Cardinality(D) \in Nat /\ MaxRoots \in Nat
  BY <1>3, FS_CardinalityType, HeadVotesAssumption
<1>9. Cardinality(D \ {r}) < MaxRoots /\ Cardinality(D \ {r}) <= MaxRoots
  BY <1>3, <1>7, <1>8
<1> HIDE DEF g, D
<1>10. \A q \in DOMAIN g : Exact(s, g[q])
  BY <1>3, <1>6
<1>11. StateOK(s, e)
  BY <1>3, <1>5, <1>6, <1>7, <1>9, <1>10 DEF StateOK
<1> QED BY <1>5, <1>6, <1>9, <1>11 DEF D

\* Naming head b: it is tracked, and a tally that was there is kept as it was.
LEMMA RenamedFacts ==
    ASSUME NEW s \in VoteSlots, StateOK(s, State(s)), NEW b \in Roots, NEW w \in Renamed(s, b)
    PROVE  /\ StateOK(s, w) /\ w.head = b /\ b \in DOMAIN w.roots
           /\ \A q \in DOMAIN w.roots :
                \/ q \in DOMAIN State(s).roots /\ w.roots[q] = State(s).roots[q]
                \/ w.roots[q] = NewTally
<1> DEFINE st0 == State(s)
           st == [st0 EXCEPT !.head = b]
<1>1. st0 = [head |-> st0.head, roots |-> st0.roots]
  BY DEF StateOK
<1> HIDE DEF st0
<1>2. st = [head |-> b, roots |-> st0.roots]
  BY <1>1
<1>3. st.head = b /\ st.roots = st0.roots /\ st = [head |-> st.head, roots |-> st.roots]
  BY <1>2
<1>4. StateOK(s, st0)
  BY DEF st0
<1> HIDE DEF st
<1>5. StateOK(s, st)
  BY <1>3, <1>4 DEF StateOK
<1>6. w \in (IF b \in DOMAIN WithRoot(st, b).roots THEN {WithRoot(st, b)}
             ELSE {WithRoot(e, b) : e \in Evicted(st)})
  BY DEF Renamed, st, st0
<1>7. CASE b \in DOMAIN WithRoot(st, b).roots
  <2>1. w = WithRoot(st, b)
    BY <1>6, <1>7
  <2>2. /\ StateOK(s, w) /\ w.head = st.head
        /\ \A q \in DOMAIN st.roots : w.roots[q] = st.roots[q]
        /\ \A q \in DOMAIN w.roots \ DOMAIN st.roots : q = b /\ w.roots[q] = NewTally
    BY <1>5, <2>1, WithRootFacts
  <2>3. b \in DOMAIN w.roots
    BY <1>7, <2>1
  <2> QED BY <1>3, <2>2, <2>3 DEF st0
<1>8. CASE b \notin DOMAIN WithRoot(st, b).roots
  <2>1. PICK e \in Evicted(st) : w = WithRoot(e, b)
    BY <1>6, <1>8
  <2>2. /\ StateOK(s, e) /\ e.head = st.head /\ DOMAIN e.roots \subseteq DOMAIN st.roots
        /\ \A q \in DOMAIN e.roots : e.roots[q] = st.roots[q]
        /\ Cardinality(DOMAIN e.roots) < MaxRoots
    BY <1>5, EvictedFacts
  <2>3. /\ StateOK(s, w) /\ w.head = e.head
        /\ \A q \in DOMAIN e.roots : w.roots[q] = e.roots[q]
        /\ \A q \in DOMAIN w.roots \ DOMAIN e.roots : q = b /\ w.roots[q] = NewTally
        /\ b \in DOMAIN w.roots \/ Cardinality(DOMAIN e.roots) >= MaxRoots
    BY <2>1, <2>2, WithRootFacts
  <2>4. Cardinality(DOMAIN e.roots) \in Nat /\ MaxRoots \in Nat
    BY <2>2, FS_CardinalityType, HeadVotesAssumption DEF StateOK
  <2>5. b \in DOMAIN w.roots
    BY <2>2, <2>3, <2>4
  <2> QED BY <1>3, <2>2, <2>3, <2>5 DEF st0
<1> QED BY <1>7, <1>8

-----------------------------------------------------------------------------
(* The inductive invariant and the steps of the tracker.                   *)

\* Slot s in state st, when the pairs in reported have been reported as crossing.
SlotInv(s, st, reported) ==
    /\ StateOK(s, st)
    /\ st.head # NoRoot => st.head \in DOMAIN st.roots
    /\ \A r \in DOMAIN st.roots : st.roots[r].thresholdFired => <<s, r>> \in reported

VotesInv ==
    /\ slotStates = [s \in DOMAIN slotStates |-> slotStates[s]]
    /\ DOMAIN slotStates \subseteq VoteSlots
    /\ \A s \in DOMAIN slotStates : SlotInv(s, slotStates[s], met)
    /\ fetching \in DOMAIN BlockSlot \cup {NoRoot}

\* Slot s may be left in state st: its head is not at the threshold without a report,
\* unless it was before.
Reports(s, st, reported) ==
    /\ st.head \in DOMAIN st.roots
    /\ threshold > 0 /\ AtLeast(s, st.roots[st.head].eth, threshold)
    /\ s \in DOMAIN slotStates =>
         \/ st.head # slotStates[s].head
         \/ st.roots[st.head].eth # slotStates[s].roots[slotStates[s].head].eth
    => <<s, st.head>> \in reported

LEMMA StateFacts ==
    ASSUME VotesInv, NEW s \in VoteSlots
    PROVE  SlotInv(s, State(s), met) /\ (s \notin DOMAIN slotStates => State(s) = NewSlot)
<1>1. CASE s \in DOMAIN slotStates
  BY <1>1 DEF VotesInv, State
<1>2. CASE s \notin DOMAIN slotStates
  <2>1. State(s) = NewSlot
    BY <1>2 DEF State
  <2>2. StateOK(s, NewSlot) /\ NewSlot.head = NoRoot /\ DOMAIN NewSlot.roots = {}
    BY NewSlotFacts
  <2>3. SlotInv(s, NewSlot, met)
    BY <2>2 DEF SlotInv
  <2> QED BY <2>1, <2>3
<1> QED BY <1>1, <1>2

\* What is reported stays reported.
LEMMA SlotInvMonotone ==
    ASSUME NEW s, NEW st, NEW M, NEW N, SlotInv(s, st, M), M \subseteq N
    PROVE  SlotInv(s, st, N)
BY DEF SlotInv

\* A step that leaves the heads and their balances alone has nothing to report.
LEMMA QuietStep ==
    ASSUME VotesInv, threshold' = threshold \/ slotStates' = slotStates,
           DOMAIN slotStates' \subseteq DOMAIN slotStates,
           \A s \in DOMAIN slotStates' :
             /\ slotStates'[s].head = slotStates[s].head
             /\ \A r \in DOMAIN slotStates[s].roots : slotStates'[s].roots[r].eth = slotStates[s].roots[r].eth
             /\ slotStates[s].head = NoRoot => NoRoot \notin DOMAIN slotStates'[s].roots
    PROVE  CrossingReported
<1> SUFFICES ASSUME NEW s \in DOMAIN slotStates', HeadAtThreshold(s)',
                    \/ slotStates'[s].head # slotStates[s].head
                    \/ slotStates'[s].roots[slotStates'[s].head].eth # slotStates[s].roots[slotStates[s].head].eth
             PROVE  FALSE
  BY DEF CrossingReported
<1>1. slotStates'[s].head = slotStates[s].head /\ s \in DOMAIN slotStates
  OBVIOUS
<1>2. slotStates'[s].head \in DOMAIN slotStates'[s].roots
  BY DEF HeadAtThreshold
<1>3. slotStates[s].head # NoRoot
  BY <1>1, <1>2
<1>4. slotStates[s].head \in DOMAIN slotStates[s].roots
  BY <1>1, <1>3 DEF VotesInv, SlotInv
<1> QED BY <1>1, <1>4

LEMMA StoreKeeps ==
    ASSUME VotesInv, NEW s \in VoteSlots, NEW r, NEW o, NEW S, s \notin S, Store(s, r, o, S),
           threshold' = threshold, fetching' \in DOMAIN BlockSlot \cup {NoRoot},
           SlotInv(s, o.st, met'), Reports(s, o.st, met')
    PROVE  VotesInv' /\ CrossingReported
<1> DEFINE D == (DOMAIN slotStates \cup {s}) \ S
<1>1. slotStates' = [q \in D |-> Put(slotStates, s, o.st)[q]]
  BY DEF Store, Without, Restrict, Put
<1>2. DOMAIN slotStates' = D
  BY <1>1
<1>3. \A q \in D : slotStates'[q] = IF q = s THEN o.st ELSE slotStates[q]
  BY <1>1 DEF Put
<1>4. s \in D /\ D \subseteq VoteSlots /\ \A q \in D : q # s => q \in DOMAIN slotStates
  BY DEF VotesInv
<1>5. met \subseteq met'
  BY DEF Store
<1>6. slotStates' = [q \in DOMAIN slotStates' |-> slotStates'[q]]
  BY <1>1
<1> HIDE DEF D
<1>7. ASSUME NEW q \in D PROVE SlotInv(q, slotStates'[q], met')
  <2>1. CASE q = s
    BY <1>3, <2>1
  <2>2. CASE q # s
    <3>1. SlotInv(q, slotStates[q], met)
      BY <1>4, <2>2 DEF VotesInv
    <3>2. SlotInv(q, slotStates[q], met')
      BY <1>5, <3>1, SlotInvMonotone
    <3> QED BY <1>3, <2>2, <3>2
  <2> QED BY <2>1, <2>2
<1>8. VotesInv'
  BY <1>2, <1>4, <1>6, <1>7 DEF VotesInv
<1>9. CrossingReported
  <2> SUFFICES ASSUME NEW q \in D, HeadAtThreshold(q)',
                 q \in DOMAIN slotStates =>
                   \/ slotStates'[q].head # slotStates[q].head
                   \/ slotStates'[q].roots[slotStates'[q].head].eth # slotStates[q].roots[slotStates[q].head].eth
               PROVE  <<q, slotStates'[q].head>> \in met'
    BY <1>2 DEF CrossingReported
  <2>1. q = s
    BY <1>3, <1>4
  <2>2. slotStates'[s] = o.st
    BY <1>3, <2>1
  <2>3. /\ slotStates'[s].head \in DOMAIN slotStates'[s].roots
        /\ threshold' > 0 /\ AtLeast(s, slotStates'[s].roots[slotStates'[s].head].eth, threshold')
    BY <2>1 DEF HeadAtThreshold, AtLeast, TotalETH
  <2> QED BY <2>1, <2>2, <2>3 DEF Reports
<1> QED BY <1>8, <1>9

LEMMA AttestationKeeps ==
    ASSUME VotesInv, NEW a \in Votes, Attestation(a)
    PROVE  VotesInv' /\ CrossingReported
<1> DEFINE s == a.slot
           r == a.root
           st0 == State(s)
           st == WithRoot(st0, r)
<1>1. s \in VoteSlots /\ r \in Roots
  BY HeadVotesAssumption
<1>2. SlotInv(s, st0, met) /\ (s \notin DOMAIN slotStates => st0 = NewSlot)
      /\ (s \in DOMAIN slotStates => st0 = slotStates[s])
  BY <1>1, StateFacts DEF State
<1>3. StateOK(s, st0) /\ (st0.head # NoRoot => st0.head \in DOMAIN st0.roots)
  BY <1>2 DEF SlotInv
<1> HIDE DEF st0
<1>4. /\ StateOK(s, st) /\ st.head = st0.head
      /\ DOMAIN st0.roots \subseteq DOMAIN st.roots
      /\ \A q \in DOMAIN st0.roots : st.roots[q] = st0.roots[q]
      /\ \A q \in DOMAIN st.roots \ DOMAIN st0.roots : q = r /\ st.roots[q] = NewTally
  BY <1>1, <1>3, WithRootFacts
<1>5. ~NewTally.thresholdFired
  BY DEF NewTally
<1> HIDE DEF st
<1>6. SlotInv(s, st, met)
  BY <1>2, <1>3, <1>4, <1>5 DEF SlotInv
<1>7. threshold' = threshold /\ fetching' \in DOMAIN BlockSlot \cup {NoRoot}
  BY DEF Attestation, coverageVars, VotesInv
<1>8. NoRoot \notin DOMAIN st.roots
  BY <1>4, HeadVotesAssumption DEF StateOK
\* The head is tracked from the state before.
<1>9. st.head \in DOMAIN st.roots => st0.head \in DOMAIN st0.roots /\ s \in DOMAIN slotStates
  <2> SUFFICES ASSUME st.head \in DOMAIN st.roots PROVE st0.head \in DOMAIN st0.roots /\ s \in DOMAIN slotStates
    OBVIOUS
  <2>1. st0.head # NoRoot
    BY <1>4, <1>8
  <2>2. s \in DOMAIN slotStates
    BY <1>2, <2>1 DEF NewSlot
  <2> QED BY <1>3, <2>1, <2>2
<1>10. \/ Counted(st, a) /\ \E o \in MaybeFire(s, [st EXCEPT !.roots[r] = Tallied(st.roots[r], a.validator)], r) :
                              Store(s, r, o, {})
       \/ Store(s, r, [st |-> st, fired |-> FALSE], {})
  BY DEF Attestation, st, st0
<1>11. CASE Counted(st, a) /\ \E o \in MaybeFire(s, [st EXCEPT !.roots[r] = Tallied(st.roots[r], a.validator)], r) :
                                Store(s, r, o, {})
  <2> DEFINE t == Tallied(st.roots[r], a.validator)
             w == [st EXCEPT !.roots[r] = t]
  <2>1. PICK o \in MaybeFire(s, w, r) : Store(s, r, o, {})
    BY <1>11
  <2>2. /\ r \in DOMAIN st.roots /\ a.validator \in Members[s]
        /\ a.validator \notin st.roots[r].voters
    BY <1>11 DEF Counted
  <2>3. st.roots[r] \in Tally /\ Exact(s, st.roots[r])
    BY <1>4, <2>2 DEF StateOK
  <2>4. t \in Tally /\ Exact(s, t) /\ t.thresholdFired = st.roots[r].thresholdFired
    BY <1>1, <2>2, <2>3, TalliedFacts
  <2> HIDE DEF t
  <2>5. /\ StateOK(s, w) /\ w.head = st.head /\ DOMAIN w.roots = DOMAIN st.roots
        /\ w.roots[r] = t
        /\ \A q \in DOMAIN st.roots : q # r => w.roots[q] = st.roots[q]
    BY <1>1, <1>4, <2>2, <2>4, ReplacedFacts
  <2> HIDE DEF w
  <2>6. FireFacts(s, w, r, o)
    BY <1>1, <2>1, <2>2, <2>5, MaybeFireFacts
  <2>7. met' = IF o.fired THEN met \cup {<<s, r>>} ELSE met
    BY <2>1 DEF Store
  <2>8. /\ StateOK(s, o.st) /\ o.st.head = st.head /\ DOMAIN o.st.roots = DOMAIN st.roots
        /\ \A q \in DOMAIN st.roots :
            /\ o.st.roots[q].eth = w.roots[q].eth
            /\ o.st.roots[q].thresholdFired => w.roots[q].thresholdFired \/ (q = r /\ o.fired)
        /\ st.head = r /\ threshold > 0 /\ AtLeast(s, w.roots[r].eth, threshold) =>
             o.fired \/ w.roots[r].thresholdFired
    BY <2>5, <2>6 DEF FireFacts
  <2>9. \A q \in DOMAIN st.roots : w.roots[q].thresholdFired => <<s, q>> \in met
    BY <1>6, <2>4, <2>5 DEF SlotInv
  <2>10. SlotInv(s, o.st, met')
    <3>1. \A q \in DOMAIN o.st.roots : o.st.roots[q].thresholdFired => <<s, q>> \in met'
      BY <2>7, <2>8, <2>9
    <3>2. o.st.head # NoRoot => o.st.head \in DOMAIN o.st.roots
      BY <1>6, <2>8 DEF SlotInv
    <3> QED BY <2>8, <3>1, <3>2 DEF SlotInv
  <2>11. Reports(s, o.st, met')
    <3> SUFFICES ASSUME o.st.head \in DOMAIN o.st.roots,
                        threshold > 0, AtLeast(s, o.st.roots[o.st.head].eth, threshold),
                        s \in DOMAIN slotStates =>
                          \/ o.st.head # slotStates[s].head
                          \/ o.st.roots[o.st.head].eth # slotStates[s].roots[slotStates[s].head].eth
                 PROVE  <<s, o.st.head>> \in met'
      BY DEF Reports
    <3>1. CASE o.st.head = r
      <4>1. o.fired \/ w.roots[r].thresholdFired
        BY <2>2, <2>8, <3>1
      <4> QED BY <2>2, <2>7, <2>9, <3>1, <4>1
    <3>2. CASE o.st.head # r
      <4>1. st.head \in DOMAIN st.roots /\ st0.head \in DOMAIN st0.roots /\ s \in DOMAIN slotStates
        BY <1>9, <2>8
      <4>2. o.st.roots[st.head].eth = st0.roots[st0.head].eth
        BY <1>4, <2>5, <2>8, <3>2, <4>1
      <4> QED BY <1>2, <1>4, <2>8, <4>1, <4>2
    <3> QED BY <3>1, <3>2
  <2> QED BY <1>1, <1>7, <2>1, <2>10, <2>11, StoreKeeps
<1>12. CASE Store(s, r, [st |-> st, fired |-> FALSE], {})
  <2> DEFINE o == [st |-> st, fired |-> FALSE]
  <2>1. o.st = st /\ o.fired = FALSE /\ Store(s, r, o, {})
    BY <1>12
  <2> HIDE DEF o
  <2>2. met' = met
    BY <2>1 DEF Store
  <2>3. SlotInv(s, o.st, met')
    BY <1>6, <2>1, <2>2
  <2>4. Reports(s, o.st, met')
    <3>1. ASSUME st.head \in DOMAIN st.roots
          PROVE  /\ s \in DOMAIN slotStates /\ st.head = slotStates[s].head
                 /\ st.roots[st.head].eth = slotStates[s].roots[slotStates[s].head].eth
      BY <1>2, <1>4, <1>9, <3>1
    <3> QED BY <2>1, <3>1 DEF Reports
  <2> QED BY <1>1, <1>7, <2>1, <2>3, <2>4, StoreKeeps
<1> QED BY <1>10, <1>11, <1>12

\* A head event names the head and looks at what it gathered as a fork.
LEMMA NamedFacts ==
    ASSUME VotesInv, NEW s \in VoteSlots, NEW b \in Roots, NEW o \in Named(s, b),
           met' = IF o.fired THEN met \cup {<<s, b>>} ELSE met
    PROVE  SlotInv(s, o.st, met') /\ Reports(s, o.st, met')
<1>1. SlotInv(s, State(s), met)
  BY StateFacts
<1>2. StateOK(s, State(s))
  BY <1>1 DEF SlotInv
<1> DEFINE Looked(p) == [p EXCEPT !.st.roots[b].dirty = p.st.roots[b].dirty \/ p.st.roots[b].count > 0]
<1>2a. PICK w \in Renamed(s, b) : \E p \in MaybeFire(s, w, b) : o = Looked(p)
  BY DEF Named
<1>3. PICK p \in MaybeFire(s, w, b) : o = Looked(p)
  BY <1>2a
<1>4. /\ StateOK(s, w) /\ w.head = b /\ b \in DOMAIN w.roots
      /\ \A q \in DOMAIN w.roots :
           \/ q \in DOMAIN State(s).roots /\ w.roots[q] = State(s).roots[q]
           \/ w.roots[q] = NewTally
  BY <1>2, RenamedFacts
<1>5. FireFacts(s, w, b, p)
  BY <1>4, MaybeFireFacts
<1> DEFINE u == p.st.roots[b]
           t == [u EXCEPT !.dirty = u.dirty \/ u.count > 0]
<1>6. StateOK(s, p.st) /\ p.st.head = b /\ DOMAIN p.st.roots = DOMAIN w.roots
  BY <1>4, <1>5 DEF FireFacts
<1>7. u \in Tally /\ Exact(s, u)
  BY <1>4, <1>6 DEF StateOK
<1> HIDE DEF u
<1>8. /\ t \in Tally /\ t.voters = u.voters /\ t.eth = u.eth /\ t.count = u.count
      /\ t.fired = u.fired /\ t.thresholdFired = u.thresholdFired
  BY <1>7 DEF Tally
<1>9. p = [st |-> p.st, fired |-> p.fired]
  BY <1>5 DEF FireFacts
<1>10. o = [p EXCEPT !.st = [p.st EXCEPT !.roots[b] = t]]
  BY <1>3 DEF u
<1> HIDE DEF t
<1>11. o.st = [p.st EXCEPT !.roots[b] = t] /\ o.fired = p.fired
  BY <1>9, <1>10
<1>12. Exact(s, t)
  BY <1>7, <1>8 DEF Exact
<1>13. /\ StateOK(s, o.st) /\ o.st.head = p.st.head /\ DOMAIN o.st.roots = DOMAIN p.st.roots
       /\ o.st.roots[b] = t
       /\ \A q \in DOMAIN p.st.roots : q # b => o.st.roots[q] = p.st.roots[q]
  BY <1>4, <1>6, <1>8, <1>11, <1>12, ReplacedFacts
<1>14. \A q \in DOMAIN w.roots :
         /\ o.st.roots[q].eth = w.roots[q].eth
         /\ o.st.roots[q].thresholdFired => w.roots[q].thresholdFired \/ (q = b /\ o.fired)
  <2> TAKE q \in DOMAIN w.roots
  <2>1. /\ p.st.roots[q].eth = w.roots[q].eth
        /\ p.st.roots[q].thresholdFired => w.roots[q].thresholdFired \/ (q = b /\ p.fired)
    BY <1>5 DEF FireFacts
  <2>2. o.st.roots[q].eth = p.st.roots[q].eth /\ o.st.roots[q].thresholdFired = p.st.roots[q].thresholdFired
    BY <1>6, <1>8, <1>13 DEF u
  <2> QED BY <1>11, <2>1, <2>2
<1>15. \A q \in DOMAIN w.roots : w.roots[q].thresholdFired => <<s, q>> \in met
  BY <1>1, <1>4 DEF SlotInv, NewTally
<1>16. SlotInv(s, o.st, met')
  <2>1. \A q \in DOMAIN o.st.roots : o.st.roots[q].thresholdFired => <<s, q>> \in met'
    BY <1>6, <1>13, <1>14, <1>15
  <2>2. o.st.head \in DOMAIN o.st.roots
    BY <1>4, <1>6, <1>13
  <2> QED BY <1>13, <2>1, <2>2 DEF SlotInv
<1>17. Reports(s, o.st, met')
  <2>1. o.st.head = b
    BY <1>6, <1>13
  <2> SUFFICES ASSUME threshold > 0, AtLeast(s, o.st.roots[b].eth, threshold)
               PROVE  <<s, b>> \in met'
    BY <2>1 DEF Reports
  <2>2. p.fired \/ w.roots[b].thresholdFired
    BY <1>4, <1>5, <1>14 DEF FireFacts
  <2> QED BY <1>4, <1>11, <1>15, <2>2
<1> QED BY <1>16, <1>17

LEMMA HeadEventKeeps ==
    ASSUME VotesInv, NEW b \in DOMAIN BlockSlot, HeadEvent(b)
    PROVE  VotesInv' /\ CrossingReported
<1> DEFINE s == BlockSlot[b]
<1>1. s \in VoteSlots /\ b \in Roots
  BY HeadVotesAssumption
<1>2. threshold' = threshold /\ fetching' \in DOMAIN BlockSlot \cup {NoRoot}
  BY DEF HeadEvent, VotesInv
<1>3. \/ \E o \in Named(s, b) : Store(s, b, o, Stale(s))
      \/ slotStates' = Without(slotStates, Stale(s)) /\ met' = met
  BY DEF HeadEvent
<1>4. s \notin Stale(s)
  BY <1>1, HeadVotesAssumption DEF Stale, VoteSlots
<1> HIDE DEF s
<1>5. CASE \E o \in Named(s, b) : Store(s, b, o, Stale(s))
  <2>1. PICK o \in Named(s, b) : Store(s, b, o, Stale(s))
    BY <1>5
  <2>2. met' = IF o.fired THEN met \cup {<<s, b>>} ELSE met
    BY <2>1 DEF Store
  <2>3. SlotInv(s, o.st, met') /\ Reports(s, o.st, met')
    BY <1>1, <2>2, NamedFacts
  <2> QED BY <1>1, <1>2, <1>4, <2>1, <2>3, StoreKeeps
<1>6. CASE slotStates' = Without(slotStates, Stale(s)) /\ met' = met
  <2> DEFINE D == DOMAIN slotStates \ Stale(s)
  <2>1. slotStates' = [q \in D |-> slotStates[q]]
    BY <1>6 DEF Without, Restrict
  <2>2. /\ DOMAIN slotStates' = D /\ D \subseteq DOMAIN slotStates
        /\ \A q \in D : slotStates'[q] = slotStates[q]
        /\ slotStates' = [q \in DOMAIN slotStates' |-> slotStates'[q]]
    BY <2>1
  <2> HIDE DEF D
  <2>3. VotesInv'
    <3>1. \A q \in DOMAIN slotStates' : SlotInv(q, slotStates'[q], met')
      BY <1>6, <2>2 DEF VotesInv
    <3>2. DOMAIN slotStates' \subseteq VoteSlots
      BY <2>2 DEF VotesInv
    <3> QED BY <1>2, <2>2, <3>1, <3>2 DEF VotesInv
  <2>4. \A q \in D : slotStates[q].head = NoRoot => NoRoot \notin DOMAIN slotStates'[q].roots
    BY <2>2, HeadVotesAssumption DEF VotesInv, SlotInv, StateOK
  <2>5. CrossingReported
    BY <1>2, <2>2, <2>4, QuietStep
  <2> QED BY <2>3, <2>5
<1> QED BY <1>3, <1>5, <1>6

LEMMA FlushKeeps ==
    ASSUME VotesInv, FlushDirty
    PROVE  VotesInv' /\ CrossingReported
<1> DEFINE some == {s \in DOMAIN slotStates : DOMAIN slotStates[s].roots # {}}
<1>1. PICK primary \in [some -> UNION {Primaries(slotStates[s]) : s \in some}] :
        /\ \A s \in some : primary[s] \in Primaries(slotStates[s])
        /\ slotStates' = [s \in DOMAIN slotStates |->
                            IF s \in some THEN Flushed(s, primary[s]) ELSE slotStates[s]]
        /\ met \subseteq met' /\ threshold' = threshold /\ fetching' = fetching
  BY DEF FlushDirty, coverageVars
<1> HIDE DEF some
<1>2. /\ DOMAIN slotStates' = DOMAIN slotStates
      /\ slotStates' = [s \in DOMAIN slotStates' |-> slotStates'[s]]
      /\ \A s \in DOMAIN slotStates : slotStates'[s] = IF s \in some THEN Flushed(s, primary[s]) ELSE slotStates[s]
  BY <1>1
<1>3. ASSUME NEW s \in DOMAIN slotStates
      PROVE  /\ SlotInv(s, slotStates'[s], met')
             /\ slotStates'[s].head = slotStates[s].head
             /\ \A r \in DOMAIN slotStates[s].roots : slotStates'[s].roots[r].eth = slotStates[s].roots[r].eth
             /\ DOMAIN slotStates'[s].roots = DOMAIN slotStates[s].roots
  <2> DEFINE st == slotStates[s]
  <2>1. SlotInv(s, st, met) /\ StateOK(s, st) /\ s \in VoteSlots
    BY DEF VotesInv, SlotInv
  <2>2. CASE s \in some
    <3> DEFINE r == primary[s]
               t == IF Due(s, r) THEN Reset(st.roots[r]) ELSE st.roots[r]
               w == [st EXCEPT !.roots[r] = t]
    <3>1. r \in DOMAIN st.roots
      BY <1>1, <2>2 DEF Primaries
    <3>2. st.roots[r] \in Tally /\ Exact(s, st.roots[r])
      BY <2>1, <3>1 DEF StateOK
    <3>3. /\ t \in Tally /\ Exact(s, t) /\ t.eth = st.roots[r].eth
          /\ t.thresholdFired = st.roots[r].thresholdFired
      BY <2>1, <3>2, ResetFacts
    <3>4. slotStates'[s] = w
      BY <1>2, <2>2 DEF Flushed
    <3> HIDE DEF t, r, st
    <3>5. /\ StateOK(s, w) /\ w.head = st.head /\ DOMAIN w.roots = DOMAIN st.roots
          /\ w.roots[r] = t
          /\ \A q \in DOMAIN st.roots : q # r => w.roots[q] = st.roots[q]
      BY <2>1, <3>1, <3>3, ReplacedFacts
    <3> HIDE DEF w
    <3>6. \A q \in DOMAIN st.roots : w.roots[q].eth = st.roots[q].eth
                                     /\ w.roots[q].thresholdFired = st.roots[q].thresholdFired
      BY <3>3, <3>5
    <3>7. SlotInv(s, w, met')
      BY <1>1, <2>1, <3>5, <3>6 DEF SlotInv
    <3> QED BY <3>4, <3>5, <3>6, <3>7 DEF st
  <2>3. CASE s \notin some
    <3>1. slotStates'[s] = st
      BY <1>2, <2>3
    <3>2. SlotInv(s, st, met')
      BY <1>1, <2>1, SlotInvMonotone
    <3> QED BY <3>1, <3>2
  <2> QED BY <2>2, <2>3
<1>4. VotesInv'
  BY <1>1, <1>2, <1>3 DEF VotesInv
<1>5. \A s \in DOMAIN slotStates' : slotStates[s].head = NoRoot => NoRoot \notin DOMAIN slotStates'[s].roots
  BY <1>2, <1>3, HeadVotesAssumption DEF SlotInv, StateOK
<1>6. CrossingReported
  BY <1>1, <1>2, <1>3, <1>5, QuietStep
<1> QED BY <1>4, <1>6

-----------------------------------------------------------------------------
(* The attestations of a block.                                            *)

\* Slot states as a block's bitmaps leave them: heads and balances as they were.
Kept(ss) ==
    /\ DOMAIN ss = DOMAIN slotStates /\ ss = [s \in DOMAIN slotStates |-> ss[s]]
    /\ \A s \in DOMAIN slotStates :
        /\ SlotInv(s, ss[s], met)
        /\ ss[s].head = slotStates[s].head
        /\ \A r \in DOMAIN slotStates[s].roots :
             r \in DOMAIN ss[s].roots /\ ss[s].roots[r].eth = slotStates[s].roots[r].eth

LEMMA MarkedKeeps ==
    ASSUME VotesInv, NEW b \in DOMAIN BlockSlot, NEW ss, Kept(ss), NEW v \in Landed(b)
    PROVE  Kept(Marked(ss, v))
<1> DEFINE s == v.slot
           r == v.root
           st == WithRoot(ss[s], r)
           u == st.roots[r]
           t == [u EXCEPT !.inBlock = u.inBlock \cup v.members]
           w == IF r \in DOMAIN st.roots THEN [st EXCEPT !.roots[r] = t] ELSE st
<1>1. s \in DOMAIN slotStates /\ s \in VoteSlots /\ r \in Roots /\ v.members \subseteq Validators
  BY HeadVotesAssumption DEF Landed
<1>2. SlotInv(s, ss[s], met) /\ StateOK(s, ss[s])
  BY <1>1 DEF Kept, SlotInv
<1>3. /\ StateOK(s, st) /\ st.head = ss[s].head
      /\ DOMAIN ss[s].roots \subseteq DOMAIN st.roots
      /\ \A q \in DOMAIN ss[s].roots : st.roots[q] = ss[s].roots[q]
      /\ \A q \in DOMAIN st.roots \ DOMAIN ss[s].roots : q = r /\ st.roots[q] = NewTally
  BY <1>1, <1>2, WithRootFacts
<1>4. Marked(ss, v) = [ss EXCEPT ![s] = w]
  BY DEF Marked
<1> HIDE DEF st
<1>5. SlotInv(s, st, met)
  BY <1>2, <1>3 DEF SlotInv, NewTally
<1>6. /\ SlotInv(s, w, met) /\ w.head = st.head /\ DOMAIN w.roots = DOMAIN st.roots
      /\ \A q \in DOMAIN st.roots : w.roots[q].eth = st.roots[q].eth
  <2>1. CASE r \in DOMAIN st.roots
    <3>1. u \in Tally /\ Exact(s, u)
      BY <1>3, <2>1 DEF StateOK
    <3> HIDE DEF u
    <3>2. u.inBlock \cup v.members \in SUBSET Validators
      BY <1>1, <3>1 DEF Tally
    <3>3. /\ t \in Tally /\ t.voters = u.voters /\ t.eth = u.eth /\ t.count = u.count
          /\ t.fired = u.fired /\ t.thresholdFired = u.thresholdFired
      BY <3>1, <3>2 DEF Tally
    <3> HIDE DEF t
    <3>4. Exact(s, t)
      BY <3>1, <3>3 DEF Exact
    <3>5. w = [st EXCEPT !.roots[r] = t]
      BY <2>1
    <3>6. /\ StateOK(s, w) /\ w.head = st.head /\ DOMAIN w.roots = DOMAIN st.roots
          /\ w.roots[r] = t
          /\ \A q \in DOMAIN st.roots : q # r => w.roots[q] = st.roots[q]
      BY <1>1, <1>3, <2>1, <3>3, <3>4, <3>5, ReplacedFacts
    <3> HIDE DEF w
    <3>7. \A q \in DOMAIN st.roots : w.roots[q].eth = st.roots[q].eth
                                     /\ w.roots[q].thresholdFired = st.roots[q].thresholdFired
      BY <3>3, <3>6 DEF u
    <3>8. SlotInv(s, w, met)
      BY <1>5, <3>6, <3>7 DEF SlotInv
    <3> QED BY <3>6, <3>7, <3>8
  <2>2. CASE r \notin DOMAIN st.roots
    BY <1>5, <2>2
  <2> QED BY <2>1, <2>2
<1> HIDE DEF w
<1> DEFINE m == [ss EXCEPT ![s] = w]
<1>7. /\ DOMAIN m = DOMAIN slotStates /\ m = [q \in DOMAIN slotStates |-> m[q]]
      /\ m[s] = w /\ \A q \in DOMAIN slotStates : q # s => m[q] = ss[q]
  BY <1>1 DEF Kept
<1>8. \A q \in DOMAIN slotStates[s].roots :
        q \in DOMAIN w.roots /\ w.roots[q].eth = slotStates[s].roots[q].eth
  BY <1>1, <1>3, <1>6 DEF Kept
<1>9. w.head = slotStates[s].head
  BY <1>1, <1>3, <1>6 DEF Kept
<1> HIDE DEF m
<1>10. ASSUME NEW q \in DOMAIN slotStates
       PROVE  /\ SlotInv(q, m[q], met)
              /\ m[q].head = slotStates[q].head
              /\ \A p \in DOMAIN slotStates[q].roots :
                   p \in DOMAIN m[q].roots /\ m[q].roots[p].eth = slotStates[q].roots[p].eth
  <2>1. CASE q = s
    BY <1>6, <1>7, <1>8, <1>9, <2>1
  <2>2. CASE q # s
    BY <1>7, <2>2 DEF Kept
  <2> QED BY <2>1, <2>2
<1>11. Kept(m)
  BY <1>7, <1>10 DEF Kept
<1> QED BY <1>4, <1>11 DEF m

\* Marks satisfies its recursive definition.
LEMMA MarksUnfold ==
    ASSUME NEW order, Len(order) \in Nat
    PROVE  \A i \in 0 .. Len(order) :
             Marks(order)[i] = IF i = 0 THEN slotStates ELSE Marked(Marks(order)[i - 1], order[i])
<1> DEFINE N == Len(order)
           Step(f, i) == IF i = 0 THEN slotStates ELSE Marked(f[i - 1], order[i])
           Upto(n) == \E f : f = [i \in 0 .. n |-> Step(f, i)]
           Bad == {n \in 0 .. N : ~Upto(n)}
<1>1. Upto(0)
  <2> DEFINE f == [i \in 0 .. 0 |-> slotStates]
  <2>1. f = [i \in 0 .. 0 |-> Step(f, i)]
    OBVIOUS
  <2> HIDE DEF f, Step
  <2> QED BY <2>1
<1>2. ASSUME NEW n \in 0 .. N, n # 0, Upto(n - 1)
      PROVE  Upto(n)
  <2>1. PICK f : f = [i \in 0 .. n - 1 |-> Step(f, i)]
    BY <1>2
  <2> DEFINE F == [i \in 0 .. n |-> IF i = n THEN Marked(f[n - 1], order[n]) ELSE f[i]]
  <2>2. \A i \in 0 .. n - 1 : f[i] = Step(f, i)
    <3> HIDE DEF Step
    <3> QED BY <2>1
  <2>3. n \in Nat
    OBVIOUS
  <2>4. ASSUME NEW i \in 0 .. n PROVE F[i] = Step(F, i)
    <3>1. CASE i = n
      <4>1. n - 1 # n /\ n - 1 \in 0 .. n
        BY <1>2, <2>3
      <4>2. F[i - 1] = f[n - 1]
        BY <3>1, <4>1
      <4> QED BY <1>2, <3>1, <4>2
    <3>2. CASE i # n /\ i # 0
      <4>1. i - 1 # n /\ i - 1 \in 0 .. n /\ i \in 0 .. n - 1
        BY <2>3, <3>2
      <4>2. F[i] = f[i] /\ F[i - 1] = f[i - 1]
        BY <3>2, <4>1
      <4> QED BY <2>2, <3>2, <4>1, <4>2
    <3>3. CASE i = 0 /\ i # n
      <4>1. F[i] = f[i] /\ i \in 0 .. n - 1
        BY <2>3, <3>3
      <4> QED BY <2>2, <3>3, <4>1
    <3> QED BY <3>1, <3>2, <3>3
  <2> HIDE DEF Step
  <2>5. F = [i \in 0 .. n |-> Step(F, i)]
    BY <2>4
  <2> HIDE DEF F
  <2> QED BY <2>5
<1> HIDE DEF Upto
<1>3. Bad = {}
  <2> SUFFICES ASSUME Bad # {} PROVE FALSE
    OBVIOUS
  <2>1. Bad \in SUBSET Nat
    OBVIOUS
  <2>2. PICK n \in Bad : \A y \in Bad : n <= y
    BY <2>1, LeastNatural
  <2>3. n \in 0 .. N /\ n # 0 /\ ~Upto(n)
    BY <1>1, <2>2
  <2>4. n - 1 \in 0 .. N /\ ~(n <= n - 1)
    BY <2>3
  <2>5. Upto(n - 1)
    BY <2>2, <2>4
  <2> QED BY <1>2, <2>3, <2>5
<1>4. Upto(N)
  BY <1>3
<1> DEFINE P(g) == g = [i \in 0 .. N |-> Step(g, i)]
<1> HIDE DEF Step
<1>5. \E f : P(f)
  BY <1>4 DEF Upto
<1>6. P(CHOOSE g : P(g))
  BY <1>5
<1>7. Marks(order) = CHOOSE g : P(g)
  BY DEF Marks, Step
<1>8. Marks(order) = [i \in 0 .. N |-> Step(Marks(order), i)]
  BY <1>6, <1>7
<1>9. \A i \in 0 .. N : Marks(order)[i] = Step(Marks(order), i)
  BY <1>8
<1> QED BY <1>9 DEF Step

\* However many bitmaps a block carries, they leave what is kept.
LEMMA MarksKeep ==
    ASSUME VotesInv, NEW b \in DOMAIN BlockSlot, NEW order, Len(order) \in Nat,
           \A i \in 1 .. Len(order) : order[i] \in Landed(b)
    PROVE  Kept(Marks(order)[Len(order)])
<1> DEFINE Bad == {i \in 0 .. Len(order) : ~Kept(Marks(order)[i])}
<1> SUFFICES ASSUME Bad # {} PROVE FALSE
  OBVIOUS
<1>1. Bad \in SUBSET Nat
  OBVIOUS
<1>2. PICK n \in Bad : \A y \in Bad : n <= y
  BY <1>1, LeastNatural
<1>3. Kept(slotStates)
  BY DEF Kept, VotesInv
<1>4. n # 0
  <2>1. 0 \in 0 .. Len(order)
    OBVIOUS
  <2>2. Marks(order)[0] = slotStates
    BY <2>1, MarksUnfold
  <2> QED BY <1>2, <1>3, <2>2
<1>5. n - 1 \in 0 .. Len(order) /\ ~(n <= n - 1) /\ n \in 1 .. Len(order)
  BY <1>2, <1>4
<1>6. Kept(Marks(order)[n - 1])
  BY <1>2, <1>5
<1>7. Marks(order)[n] = Marked(Marks(order)[n - 1], order[n])
  BY <1>2, <1>4, MarksUnfold
<1>8. Kept(Marks(order)[n])
  BY <1>5, <1>6, <1>7, MarkedKeeps
<1> QED BY <1>2, <1>8

LEMMA MeasureKeeps ==
    ASSUME VotesInv, Measure
    PROVE  VotesInv' /\ CrossingReported
<1>1. PICK order \in SetToSeqs(Landed(fetching)) : slotStates' = Marks(order)[Len(order)]
  BY DEF Measure
<1>2. fetching \in DOMAIN BlockSlot /\ fetching' = NoRoot /\ threshold' = threshold /\ met' = met
  BY DEF Measure, VotesInv
<1>3. IsFiniteSet(Landed(fetching))
  <2>1. IsFiniteSet(BlockVotes[fetching])
    BY <1>2, HeadVotesAssumption
  <2>2. Landed(fetching) \in SUBSET BlockVotes[fetching]
    BY DEF Landed
  <2> QED BY <2>1, <2>2, FS_Subset
<1> DEFINE n == Cardinality(Landed(fetching))
<1>4. n \in Nat
  BY <1>3, FS_CardinalityType
<1>5. order \in [1 .. n -> Landed(fetching)]
  BY <1>1 DEF SetToSeqs
<1> HIDE DEF n
<1>6. Len(order) = n /\ \A i \in 1 .. n : order[i] \in Landed(fetching)
  <2>1. order \in Seq(Landed(fetching))
    BY <1>4, <1>5
  <2>2. DOMAIN order = 1 .. n /\ DOMAIN order = 1 .. Len(order) /\ Len(order) \in Nat
    BY <1>5, <2>1
  <2> QED BY <1>4, <1>5, <2>2
<1>7. Kept(slotStates')
  BY <1>1, <1>2, <1>4, <1>6, MarksKeep
<1>8. /\ DOMAIN slotStates' = DOMAIN slotStates
      /\ slotStates' = [s \in DOMAIN slotStates' |-> slotStates'[s]]
      /\ \A s \in DOMAIN slotStates :
           /\ SlotInv(s, slotStates'[s], met)
           /\ slotStates'[s].head = slotStates[s].head
           /\ \A r \in DOMAIN slotStates[s].roots : slotStates'[s].roots[r].eth = slotStates[s].roots[r].eth
  BY <1>7 DEF Kept
<1>9. \A s \in DOMAIN slotStates' : SlotInv(s, slotStates'[s], met')
  BY <1>2, <1>8
<1>10. VotesInv'
  BY <1>2, <1>8, <1>9 DEF VotesInv
<1>11. \A s \in DOMAIN slotStates' : slotStates[s].head = NoRoot => NoRoot \notin DOMAIN slotStates'[s].roots
  BY <1>9, HeadVotesAssumption DEF SlotInv, StateOK
<1>12. CrossingReported
  BY <1>2, <1>8, <1>11, QuietStep
<1> QED BY <1>10, <1>12

-----------------------------------------------------------------------------
(* What the head vote tracker promises, for every registry, cap and block. *)

LEMMA VotesStep ==
    ASSUME VotesInv, VotesNext \/ UNCHANGED votesVars
    PROVE  VotesInv' /\ CrossingReported
<1>1. ASSUME slotStates' = slotStates, met' = met, fetching' \in {fetching, NoRoot}
      PROVE  VotesInv' /\ CrossingReported
  <2>1. VotesInv'
    BY <1>1 DEF VotesInv
  <2>2. \A s \in DOMAIN slotStates' : slotStates[s].head = NoRoot => NoRoot \notin DOMAIN slotStates'[s].roots
    BY <1>1, HeadVotesAssumption DEF VotesInv, SlotInv, StateOK
  <2>3. CrossingReported
    BY <1>1, <2>2, QuietStep
  <2> QED BY <2>1, <2>3
<1>2. CASE \E a \in Votes : Attestation(a)
  BY <1>2, AttestationKeeps
<1>3. CASE \E b \in DOMAIN BlockSlot : HeadEvent(b)
  BY <1>3, HeadEventKeeps
<1>4. CASE FlushDirty
  BY <1>4, FlushKeeps
<1>5. CASE Measure
  BY <1>5, MeasureKeeps
<1>6. CASE FetchFails
  BY <1>1, <1>6 DEF FetchFails
<1>7. CASE ClockTicks
  BY <1>1, <1>7 DEF ClockTicks, coverageVars
<1>8. CASE \E e \in {Epoch(s) : s \in VoteSlots} : StatsLoad(e)
  BY <1>1, <1>8 DEF StatsLoad, coverageVars
<1>9. CASE \E t \in Thresholds : ThresholdSet(t)
  BY <1>1, <1>9 DEF ThresholdSet, coverageVars
<1>10. CASE UNCHANGED votesVars
  BY <1>1, <1>10 DEF votesVars, coverageVars
<1> QED BY <1>2, <1>3, <1>4, <1>5, <1>6, <1>7, <1>8, <1>9, <1>10 DEF VotesNext

LEMMA VotesStart == VotesInit => VotesInv
<1> SUFFICES ASSUME VotesInit PROVE VotesInv
  OBVIOUS
<1>1. slotStates = [s \in {} |-> NewSlot] /\ fetching = NoRoot
  BY DEF VotesInit
<1>2. DOMAIN slotStates = {}
  BY <1>1
<1>3. slotStates = [s \in DOMAIN slotStates |-> slotStates[s]]
  BY <1>1
<1> QED BY <1>1, <1>2, <1>3 DEF VotesInv

\* The invariant of the tracker (handleSingleAttestation, handleHeadEvent, flushDirty,
\* recordBlockAttestations): every tracked slot has exact tallies, a tracked head and no
\* fired threshold that was not reported.
THEOREM VotesInvariant == VotesSpec => []VotesInv
<1>1. VotesInit => VotesInv
  BY VotesStart
<1>2. VotesInv /\ [VotesNext]_votesVars => VotesInv'
  BY VotesStep
<1> QED BY <1>1, <1>2, PTL DEF VotesSpec

\* handleSingleAttestation counts every voter of a root once: the balance and the
\* count kept beside the bitmap are those of the bitmap, and no more than
\* maxTrackedRootsPerSlot roots are kept, whatever votes and blocks arrive.
THEOREM TalliesAreOfDistinctVoters == VotesSpec => []TallyOfDistinctVoters
<1>1. VotesInv => TallyOfDistinctVoters
  BY DEF VotesInv, SlotInv, StateOK, Exact, TallyOfDistinctVoters
<1> QED BY <1>1, VotesInvariant, PTL

\* handleHeadEvent keeps a place for the head (evictLeastVotedRoot): no number of
\* forks keeps its votes from being tracked.
THEOREM HeadsAreTracked == VotesSpec => []HeadTracked
<1>1. VotesInv => HeadTracked
  BY DEF VotesInv, SlotInv, HeadTracked
<1> QED BY <1>1, VotesInvariant, PTL

\* maybeFireThreshold, after a vote and after a head event: no step leaves a head at
\* the threshold by a new vote or a new name without its update.
THEOREM HeadCrossingsAreReported == VotesSpec => HeadCrossingReported
<1>1. VotesInv /\ [VotesNext]_votesVars => [CrossingReported]_votesVars
  BY VotesStep
<1> QED BY <1>1, VotesInvariant, PTL DEF VotesSpec, HeadCrossingReported
=============================================================================
