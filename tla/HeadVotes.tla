----------------------------- MODULE HeadVotes -----------------------------
(***************************************************************************)
(* pkg/chain/headvotes.go: per slot, how much of the attesting balance has *)
(* voted for which block, as raw votes arrive from the beacon node.  One   *)
(* loop takes head events, votes and flush ticks; a goroutine per head     *)
(* block compares the block's attestations with the votes seen.            *)
(*                                                                         *)
(*   clock       the wall clock's slot                                     *)
(*   loaded      the epochs whose duties are known (GetEpochStats)         *)
(*   threshold   HeadVoteThresholdPct of the live settings, 0: disabled    *)
(*   slotStates  per tracked slot: the root a head event named, and the    *)
(*               tally of each tracked root                                *)
(*   met         the (slot, root) pairs for which an update with           *)
(*               ThresholdMet was dispatched                               *)
(*   fetching    the head block whose attestations are being fetched       *)
(*               (coverageFetchActive)                                     *)
(*   samples     coverageSamples                                           *)
(*   low         coverageLow                                               *)
(*                                                                         *)
(* A tally is the set of members whose bit is set, with the balance and    *)
(* the count that are accumulated beside the bitmap.  Arrival times, which *)
(* only the heatmap shows, are left out.                                   *)
(***************************************************************************)
EXTENDS Integers, FiniteSets, Sequences, SequencesExt, Functions, FiniteSetsExt, TLC

CONSTANTS
    MaxSlot,        \* bound: the last slot
    SlotsPerEpoch,
    Roots,          \* beacon block roots
    BlockSlot,      \* the slot of each block that may become head
    BlockVotes,     \* per block, the votes it carries: slot, root and members
    Members,        \* per slot, the validators of its committees
    Committee,      \* the committee of each validator
    NumValidators,  \* validators are 0 .. NumValidators - 1
    Weight,         \* the effective balance of each, in full ETH
    Votes,          \* the single attestations that may arrive
    Thresholds,     \* the values HeadVoteThresholdPct may be given
    StepPct,        \* voteFirePctStep
    MaxRoots,       \* maxTrackedRootsPerSlot
    Retention,      \* voteSlotRetention
    CoverageWindow, MinSamples, MinAttesters, LowPct, RecoverPct,  \* coverage...
    NoRoot

VoteSlots == 0 .. MaxSlot
Epoch(s) == s \div SlotsPerEpoch
Validators == 0 .. NumValidators - 1

ASSUME HeadVotesAssumption ==
    /\ {MaxSlot, MaxRoots, Retention, StepPct, NumValidators} \subseteq Nat
    /\ SlotsPerEpoch > 0 /\ MaxRoots > 0 /\ Thresholds \subseteq 0 .. 100
    /\ NoRoot \notin Roots
    /\ DOMAIN BlockSlot \subseteq Roots /\ \A b \in DOMAIN BlockSlot : BlockSlot[b] \in VoteSlots
    /\ \A b \in DOMAIN BlockSlot :
        /\ IsFiniteSet(BlockVotes[b])
        /\ \A v \in BlockVotes[b] : v.slot \in VoteSlots /\ v.root \in Roots /\ v.members \subseteq Validators
    /\ Members \in [VoteSlots -> SUBSET Validators] /\ Weight \in [Validators -> Nat]
    /\ \A a \in Votes : a.slot \in VoteSlots /\ a.root \in Roots

VARIABLES clock, loaded, threshold, slotStates, met, fetching, samples, low

coverageVars == <<fetching, samples, low>>
votesVars == <<clock, loaded, threshold, slotStates, met, coverageVars>>

-----------------------------------------------------------------------------
(* The tallies of a slot.                                                  *)

Without(f, S) == Restrict(f, DOMAIN f \ S)
Put(f, k, x) == [y \in DOMAIN f \cup {k} |-> IF y = k THEN x ELSE f[y]]

\* rootVoteState and slotVoteState as they are created.
NewTally == [voters |-> {}, inBlock |-> {}, eth |-> 0, count |-> 0,
             fired |-> 0, thresholdFired |-> FALSE, dirty |-> FALSE]
NewSlot == [head |-> NoRoot, roots |-> [r \in {} |-> NewTally]]

VotesInit ==
    /\ clock = 0 /\ loaded = {} /\ threshold \in Thresholds
    /\ slotStates = [s \in {} |-> NewSlot] /\ met = {}
    /\ fetching = NoRoot /\ samples = <<>> /\ low = FALSE

\* What validators V weigh together: the sums over ever more of the registry.
Sums(V) ==
    LET sum[i \in 0 .. NumValidators] ==
          IF i = 0 THEN 0 ELSE sum[i - 1] + (IF i - 1 \in V THEN Weight[i - 1] ELSE 0)
    IN  sum
Balance(V) == Sums(V)[NumValidators]
TotalETH == [s \in VoteSlots |-> Balance(Members[s])]

\* pct percent of the slot's balance, or more.
AtLeast(s, eth, pct) == TotalETH[s] > 0 /\ eth * 100 >= pct * TotalETH[s]

\* getOrCreateSlotState returns a state: known, or inside the window with duties.
Available(s) ==
    \/ s \in DOMAIN slotStates
    \/ s + Retention >= clock /\ s <= clock + 1 /\ Epoch(s) \in loaded
State(s) == IF s \in DOMAIN slotStates THEN slotStates[s] ELSE NewSlot

\* getOrCreateRootState: unchanged when the cap is reached.
WithRoot(st, r) ==
    IF r \in DOMAIN st.roots \/ Cardinality(DOMAIN st.roots) >= MaxRoots THEN st
    ELSE [st EXCEPT !.roots = Put(@, r, NewTally)]

\* primary: the map's order decides between roots with equally many votes.
Primaries(st) ==
    IF st.head \in DOMAIN st.roots THEN {st.head}
    ELSE {r \in DOMAIN st.roots : \A q \in DOMAIN st.roots : st.roots[r].count >= st.roots[q].count}

\* evictLeastVotedRoot: what may be left.
Evicted(st) ==
    {[st EXCEPT !.roots = Without(@, {r})] : r \in
        {r \in DOMAIN st.roots : \A q \in DOMAIN st.roots : st.roots[r].count <= st.roots[q].count}}

\* fire, without its event.
Reset(tally) == [tally EXCEPT !.fired = tally.eth, !.dirty = FALSE]

\* maybeFireThreshold fires: root r, with p the primary root it found.
Crosses(s, st, r, p) ==
    /\ threshold > 0 /\ r = p /\ ~st.roots[r].thresholdFired
    /\ AtLeast(s, st.roots[r].eth, threshold)

\* maybeFireThreshold for root r of slot state st: the state after it, and
\* whether an update was dispatched.
MaybeFire(s, st, r) ==
    {IF Crosses(s, st, r, p)
     THEN [st |-> [st EXCEPT !.roots[r] = [Reset(@) EXCEPT !.thresholdFired = TRUE]], fired |-> TRUE]
     ELSE [st |-> st, fired |-> FALSE] : p \in Primaries(st)}

\* Slot s is left as outcome o says, with its update for root r; slots S go.
Store(s, r, o, S) ==
    /\ slotStates' = Without(Put(slotStates, s, o.st), S)
    /\ met' = IF o.fired THEN met \cup {<<s, r>>} ELSE met

-----------------------------------------------------------------------------
(* The loop's handlers.                                                    *)

\* Mutant of Counted: a vote seen before is counted again.
CountedAgain(st, a) ==
    /\ a.root \in DOMAIN st.roots
    /\ a.validator \in Members[a.slot] /\ Committee[a.validator] = a.committee
    /\ st.roots[a.root].count < 2 * Cardinality(Members[a.slot])

\* The vote is of a member, from its committee, and its bit is not set yet.
Counted(st, a) ==
    /\ a.root \in DOMAIN st.roots
    /\ a.validator \in Members[a.slot] /\ Committee[a.validator] = a.committee
    /\ a.validator \notin st.roots[a.root].voters

\* Mutant of Tallied: the tally is not marked for the next flush.
TalliedQuietly(tally, v) ==
    [tally EXCEPT !.voters = @ \cup {v}, !.eth = @ + Weight[v], !.count = @ + 1]

\* Its bit, balance and count.
Tallied(tally, v) ==
    [tally EXCEPT !.voters = @ \cup {v}, !.eth = @ + Weight[v], !.count = @ + 1, !.dirty = TRUE]

\* handleSingleAttestation.  The root is tracked before the voter is looked up.
Attestation(a) ==
    /\ Available(a.slot)
    /\ LET st == WithRoot(State(a.slot), a.root) IN
       \/ /\ Counted(st, a)
          /\ \E o \in MaybeFire(a.slot, [st EXCEPT !.roots[a.root] = Tallied(@, a.validator)], a.root) :
               Store(a.slot, a.root, o, {})
       \/ /\ ~Counted(st, a)
          /\ Store(a.slot, a.root, [st |-> st, fired |-> FALSE], {})
    /\ UNCHANGED <<clock, loaded, threshold, coverageVars>>

\* The slots a head event for slot s makes too old.
Stale(s) == IF s > Retention THEN 0 .. s - Retention - 1 ELSE {}

\* Mutant of Renamed: at the cap the new head has to wait for a place.
RenamedAtCap(s, b) == {WithRoot([State(s) EXCEPT !.head = b], b)}

\* The state with b as its head: b is tracked, at the cap in another's place.
Renamed(s, b) ==
    LET st == [State(s) EXCEPT !.head = b] IN
    IF b \in DOMAIN WithRoot(st, b).roots THEN {WithRoot(st, b)}
    ELSE {WithRoot(e, b) : e \in Evicted(st)}

\* Mutant of Named: what the root gathered as a fork is not looked at.
NamedUnchecked(s, b) == {[st |-> st, fired |-> FALSE] : st \in Renamed(s, b)}

\* Its tally may have crossed already; the next flush looks at it again.
Named(s, b) ==
    {[o EXCEPT !.st.roots[b].dirty = @ \/ o.st.roots[b].count > 0] :
        o \in UNION {MaybeFire(s, st, b) : st \in Renamed(s, b)}}

\* handleHeadEvent.  A head for a slot without a state is not remembered.
\* Its block is fetched unless a fetch is in flight (CompareAndSwap).
HeadEvent(b) ==
    LET s == BlockSlot[b] IN
    /\ s <= clock + 1
    /\ \/ /\ Available(s) /\ State(s).head # b
          /\ \E o \in Named(s, b) : Store(s, b, o, Stale(s))
       \/ /\ ~Available(s) \/ State(s).head = b
          /\ slotStates' = Without(slotStates, Stale(s))
          /\ UNCHANGED met
    /\ fetching' = IF fetching = NoRoot THEN b ELSE fetching
    /\ UNCHANGED <<clock, loaded, threshold, samples, low>>

\* flushDirty's test of root r of slot s.
Due(s, r) ==
    LET tally == slotStates[s].roots[r] IN
    tally.dirty /\ AtLeast(s, tally.eth - tally.fired, StepPct)

Flushed(s, r) == [slotStates[s] EXCEPT !.roots[r] = IF Due(s, r) THEN Reset(@) ELSE @]

\* flushDirty: every slot's primary root.
FlushDirty ==
    LET some == {s \in DOMAIN slotStates : DOMAIN slotStates[s].roots # {}} IN
    \E primary \in [some -> UNION {Primaries(slotStates[s]) : s \in some}] :
      /\ \A s \in some : primary[s] \in Primaries(slotStates[s])
      /\ slotStates' = [s \in DOMAIN slotStates |->
                          IF s \in some THEN Flushed(s, primary[s]) ELSE slotStates[s]]
      /\ met' = met \cup {<<s, primary[s]>> : s \in
                   {s \in some : Due(s, primary[s]) /\ threshold > 0
                                 /\ AtLeast(s, slotStates[s].roots[primary[s]].eth, threshold)}}
      /\ UNCHANGED <<clock, loaded, threshold, coverageVars>>

-----------------------------------------------------------------------------
(* measureBlockCoverage, in its goroutine.                                 *)

\* The attesters block b carries for votes of tracked slots.
Landed(b) == {v \in BlockVotes[b] : v.slot \in DOMAIN slotStates /\ v.members # {}}

\* One bitmap of the block: kept beside the root's votes when the root is or can
\* be tracked, and counted either way.
Marked(ss, v) ==
    LET st == WithRoot(ss[v.slot], v.root) IN
    [ss EXCEPT ![v.slot] = IF v.root \in DOMAIN st.roots
                           THEN [st EXCEPT !.roots[v.root].inBlock = @ \cup v.members] ELSE st]
Marks(order) ==
    LET marks[i \in 0 .. Len(order)] ==
          IF i = 0 THEN slotStates ELSE Marked(marks[i - 1], order[i])
    IN  marks

Sample(v) ==
    LET roots == slotStates[v.slot].roots IN
    [seen |-> IF v.root \in DOMAIN roots THEN Cardinality(roots[v.root].voters \cap v.members) ELSE 0,
     total |-> Cardinality(v.members)]

Latest(seq) == IF Len(seq) > CoverageWindow THEN SubSeq(seq, Len(seq) - CoverageWindow + 1, Len(seq)) ELSE seq
SumOf(seq, field) == MapThenSumSet(LAMBDA i : seq[i][field], DOMAIN seq)

\* The flag with its hysteresis, over the window ss.
Flag(ss) ==
    LET seen == SumOf(ss, "seen")
        total == SumOf(ss, "total")
    IN  \/ low /\ seen * 100 < RecoverPct * total
        \/ ~low /\ Len(ss) >= MinSamples /\ total >= MinAttesters /\ seen * 100 < LowPct * total

\* recordBlockAttestations: the block's bitmaps in the order of a map.
Measure ==
    /\ fetching # NoRoot
    /\ \E order \in SetToSeqs(Landed(fetching)) :
         /\ slotStates' = Marks(order)[Len(order)]
         /\ samples' = Latest(samples \o [i \in DOMAIN order |-> Sample(order[i])])
         /\ low' = IF order = <<>> THEN low ELSE Flag(samples')
    /\ fetching' = NoRoot
    /\ UNCHANGED <<clock, loaded, threshold, met>>

\* The block cannot be fetched, or not in time.
FetchFails ==
    /\ fetching # NoRoot
    /\ fetching' = NoRoot
    /\ UNCHANGED <<clock, loaded, threshold, slotStates, met, samples, low>>

-----------------------------------------------------------------------------
(* The environment: clock, epoch duties, settings.                         *)

ClockTicks ==
    /\ clock < MaxSlot
    /\ clock' = clock + 1
    /\ UNCHANGED <<loaded, threshold, slotStates, met, coverageVars>>

\* The epoch's state has been fetched and its duties computed.
StatsLoad(e) ==
    /\ e \notin loaded
    /\ loaded' = loaded \cup {e}
    /\ UNCHANGED <<clock, threshold, slotStates, met, coverageVars>>

\* The setting is changed while the tracker runs.
ThresholdSet(t) ==
    /\ t # threshold
    /\ threshold' = t
    /\ UNCHANGED <<clock, loaded, slotStates, met, coverageVars>>

VotesNext ==
    \/ \E a \in Votes : Attestation(a)
    \/ \E b \in DOMAIN BlockSlot : HeadEvent(b)
    \/ FlushDirty
    \/ Measure
    \/ FetchFails
    \/ ClockTicks
    \/ \E e \in {Epoch(s) : s \in VoteSlots} : StatsLoad(e)
    \/ \E t \in Thresholds : ThresholdSet(t)

\* Ticks come every voteFlushInterval whatever else the loop receives; a fetch
\* ends within its timeout.
VotesFairness == WF_votesVars(FlushDirty) /\ WF_votesVars(Measure \/ FetchFails)

VotesSpec == VotesInit /\ [][VotesNext]_votesVars /\ VotesFairness

-----------------------------------------------------------------------------
(* What the tracker promises.                                              *)

\* A tally is the balance of the slot's members that voted for the root, each
\* once, however often and with whatever committee its vote arrives; no more
\* than MaxRoots roots are tracked.
TallyOfDistinctVoters ==
    \A s \in DOMAIN slotStates :
      /\ Cardinality(DOMAIN slotStates[s].roots) <= MaxRoots
      /\ \A r \in DOMAIN slotStates[s].roots :
           LET tally == slotStates[s].roots[r] IN
           /\ tally.voters \subseteq Members[s]
           /\ tally.eth = Balance(tally.voters) /\ tally.count = Cardinality(tally.voters)
           /\ tally.fired <= tally.eth

\* Once a head event named the slot's head, the head's votes are kept, whatever
\* forks filled the cap before.
HeadTracked ==
    \A s \in DOMAIN slotStates :
      slotStates[s].head # NoRoot => slotStates[s].head \in DOMAIN slotStates[s].roots

HeadAtThreshold(s) ==
    LET st == slotStates[s] IN
    /\ st.head \in DOMAIN st.roots
    /\ threshold > 0 /\ AtLeast(s, st.roots[st.head].eth, threshold)

\* The step leaves no head at the threshold, newly named or with another balance,
\* without a report of it.
CrossingReported ==
    \A s \in DOMAIN slotStates' :
      /\ HeadAtThreshold(s)'
      /\ s \in DOMAIN slotStates =>
           \/ slotStates'[s].head # slotStates[s].head
           \/ slotStates'[s].roots[slotStates'[s].head].eth # slotStates[s].roots[slotStates[s].head].eth
      => <<s, slotStates'[s].head>> \in met'

\* A vote or a head event that leaves the head at the threshold leaves its crossing
\* reported, also when the votes came before the head event or for a fork.
HeadCrossingReported == [][CrossingReported]_votesVars

\* Participation of the head that has advanced a step is reported in the end,
\* unless the slot is dropped or another head is named.
AdvanceReported ==
    \A r \in DOMAIN BlockSlot :
      LET s == BlockSlot[r]
          ahead == /\ s \in DOMAIN slotStates
                   /\ slotStates[s].head = r /\ r \in DOMAIN slotStates[s].roots
                   /\ AtLeast(s, slotStates[s].roots[r].eth - slotStates[s].roots[r].fired, StepPct)
      IN  ahead ~> ~ahead
=============================================================================
