------------------------ MODULE PayloadBuilderProofs ------------------------
(***************************************************************************)
(* Proofs about PlanService and PayloadBuilder, for every chain, retention *)
(* and configuration, every set of updates and every size of the channel   *)
(* and the caches.                                                         *)
(*                                                                         *)
(* Of the plan service: its types, that a frozen slot runs on the plan the *)
(* operator sees, and that a snapshot stays what it is for as long as the  *)
(* slot matters.  Of the payload builder, which rests on the last: its     *)
(* types, that a slot is built at most once, from attributes it finds, and *)
(* never both built and announced as skipped, that attributes of the node  *)
(* are not replaced by synthesized ones, and when a payload can be counted *)
(* on chain a second time.                                                 *)
(***************************************************************************)
EXTENDS PayloadBuilder, Integers, WellFoundedInduction, FiniteSetTheorems, TLAPS

-----------------------------------------------------------------------------
(* The plan service.                                                       *)

\* An update turns a plan into a plan.
LEMMA UpdateType ==
    ASSUME NEW plan \in SlotPlan, NEW u \in Patch
    PROVE  ApplyUpdateToPlan(plan, u) \in SlotPlan
<1>1. EmptyPlan \in SlotPlan
  BY DEF EmptyPlan, SlotPlan, Modes
<1>2. \A old \in BOOLEAN, new \in {"keep", "set", "clear"} : PatchFlag(old, new) \in BOOLEAN
  BY DEF PatchFlag
<1>3. \A old \in Modes, new \in Modes \cup {"keep"} : PatchMode(old, new) \in Modes
  BY DEF PatchMode
<1>4. /\ {plan.bid, plan.api, plan.reveal} \subseteq Modes
      /\ plan.reorg \in BOOLEAN /\ plan.transforms \in BOOLEAN
  BY DEF SlotPlan
<1>5. /\ {u.bid, u.api, u.reveal} \subseteq Modes \cup {"keep"}
      /\ {u.reorg, u.transforms} \subseteq {"keep", "set", "clear"}
  BY DEF Patch
<1> QED
  BY <1>1, <1>2, <1>3, <1>4, <1>5 DEF ApplyUpdateToPlan, SlotPlan

\* A request staged on the plans yields plans.
LEMMA StagedType ==
    ASSUME plans \in [Slots -> SlotPlan], NEW req \in Request
    PROVE  Staged(req) \in [Slots -> SlotPlan]
<1>1. req.first \in Update /\ req.second \in Update
  BY PlanAssumption DEF Request
<1>2. ASSUME NEW plan \in SlotPlan, NEW s \in Slots, NEW u \in Update
      PROVE  ApplyOne(plan, s, u) \in SlotPlan
  BY <1>2, UpdateType DEF ApplyOne, Update
<1> QED
  BY <1>1, <1>2 DEF Staged

\* A resolution is a snapshot, and carries the plan it was made from.
LEMMA ResolveType ==
    ASSUME NEW slot, NEW plan \in SlotPlan, NEW c, NEW gloas, NEW n
    PROVE  /\ ResolveFrozenPlan(slot, plan, c, gloas, n) \in FrozenPlan
           /\ ResolveFrozenPlan(slot, plan, c, gloas, n).plan = plan
<1>1. ResolveBuild(slot, plan, c, gloas, n) \in Decisions
  BY DEF ResolveBuild, Decisions
<1>2. ResolveReveal(plan, c) \in RevealModes
  BY DEF ResolveReveal, RevealModes
<1>3. BidActive(plan, c, gloas) \in BOOLEAN
  BY Zenon DEF BidActive
<1>4. ApiActive(plan, c) \in BOOLEAN
  BY Zenon DEF ApiActive
<1> QED
  BY <1>1, <1>2, <1>3, <1>4 DEF ResolveFrozenPlan, FrozenPlan

-----------------------------------------------------------------------------
\* What Freeze leaves in a slot has the type of a snapshot.
LEMMA SnapshotType ==
    ASSUME PlanTypeOK, NEW s \in Slots
    PROVE  /\ Snapshot(s) \in FrozenPlan
           /\ Snapshot(s) # NotFrozen
           /\ ~IsFrozen(s) => Snapshot(s).plan = plans[s]
<1>1. plans[s] \in SlotPlan /\ frozen[s] \in FrozenPlan \cup {NotFrozen}
  BY DEF PlanTypeOK
<1> QED
  BY <1>1, ResolveType, PlanAssumption DEF Snapshot, IsFrozen

\* The type invariant is inductive.
LEMMA PlanTypeStep == PlanTypeOK /\ [PlanNext]_planVars => PlanTypeOK'
<1> SUFFICES ASSUME PlanTypeOK, [PlanNext]_planVars PROVE PlanTypeOK'
  OBVIOUS
<1> USE PlanAssumption DEF PlanTypeOK
<1>1. ASSUME NEW s \in Slots, FreezeCall(s) PROVE PlanTypeOK'
  BY <1>1, SnapshotType DEF FreezeCall, Freeze
<1>2. ASSUME NEW s \in Slots, SlotBuilt(s) PROVE PlanTypeOK'
  BY <1>2 DEF SlotBuilt, CountBuilt
<1>3. ASSUME NEW r \in Requests, NEW u \in Updates, NEW v \in Updates,
             UpdateArrives(r, u, v)
      PROVE  PlanTypeOK'
  <2>1. [at |-> currentSlot, first |-> u, second |-> v] \in Request
    BY DEF Request, Slots
  <2> QED
    BY <1>3, <2>1 DEF UpdateArrives
<1>4. ASSUME NEW r \in Requests, UpdateCommits(r) PROVE PlanTypeOK'
  BY <1>4, StagedType DEF UpdateCommits
<1>5. ASSUME NEW r \in Requests, UpdateRejected(r) PROVE PlanTypeOK'
  BY <1>5 DEF UpdateRejected
<1>6. ASSUME NEW c \in Configs, SettingsChange(c) PROVE PlanTypeOK'
  <2>1. callbacks' \in BOOLEAN
    BY <1>6, Zenon DEF SettingsChange
  <2> QED
    BY <1>6, <2>1 DEF SettingsChange
<1>7. CASE UpdateConfig
  BY <1>7 DEF UpdateConfig
<1>8. CASE Tick
  BY <1>8 DEF Tick
<1>9. ASSUME NEW e \in 1 .. MaxSlot, NEW n \in Retentions, PrunePlans(e, n) PROVE PlanTypeOK'
  <2>1. pruneMarkers' \in BOOLEAN
    BY <1>9, Zenon DEF PrunePlans
  <2>2. EmptyPlan \in SlotPlan
    BY DEF EmptyPlan, SlotPlan, Modes
  <2>3. plans' \in [Slots -> SlotPlan]
    BY <1>9, <2>2 DEF PrunePlans
  <2> QED
    BY <1>9, <2>1, <2>3 DEF PrunePlans
<1>10. CASE PruneMarkers
  BY <1>10 DEF PruneMarkers
<1>11. CASE UNCHANGED planVars
  BY <1>11 DEF planVars
<1> QED
  BY <1>1, <1>2, <1>3, <1>4, <1>5, <1>6, <1>7, <1>8, <1>9, <1>10, <1>11
     DEF PlanNext, PlanEnv

\* The types hold at the start.
LEMMA PlanTypeInit == PlanInit => PlanTypeOK
<1>1. EmptyPlan \in SlotPlan
  BY DEF EmptyPlan, SlotPlan, Modes
<1>2. PlanInit => callbacks \in BOOLEAN /\ pruneMarkers \in BOOLEAN
  BY Zenon DEF PlanInit
<1> QED
  BY <1>1, <1>2, PlanAssumption DEF PlanInit, PlanTypeOK

\* Every variable of the plan service keeps its type; in particular no sequence
\* of patches leaves a stored plan that is not one.
THEOREM PlanTypeCorrect == PlanSpec => []PlanTypeOK
  BY PlanTypeInit, PlanTypeStep, PTL DEF PlanSpec

-----------------------------------------------------------------------------
\* A plan and its snapshot part company only when the plan has been pruned.
LEMMA MatchStep ==
    PlanTypeOK /\ FrozenMatchesPlan /\ [PlanNext]_planVars => FrozenMatchesPlan'
<1> SUFFICES ASSUME PlanTypeOK, FrozenMatchesPlan, [PlanNext]_planVars
             PROVE  FrozenMatchesPlan'
  OBVIOUS
<1> USE PlanAssumption DEF FrozenMatchesPlan, IsFrozen
<1>1. ASSUME NEW s \in Slots, FreezeCall(s) PROVE FrozenMatchesPlan'
  <2>1. frozen \in [Slots -> FrozenPlan \cup {NotFrozen}]
    BY DEF PlanTypeOK
  <2>2. \A x \in Slots : x # s => frozen'[x] = frozen[x]
    BY <1>1, <2>1 DEF FreezeCall, Freeze
  <2>3. frozen'[s] = frozen[s] \/ frozen'[s].plan = plans[s]
    BY <1>1, <2>1, SnapshotType DEF FreezeCall, Freeze, Snapshot
  <2>4. UNCHANGED <<plans, epochDone>>
    BY <1>1 DEF FreezeCall
  <2> QED
    BY <2>2, <2>3, <2>4 DEF Outlived
<1>2. CASE UNCHANGED <<plans, frozen, epochDone>>
  BY <1>2 DEF Outlived
<1>3. ASSUME NEW r \in Requests, UpdateCommits(r) PROVE FrozenMatchesPlan'
  <2>1. \A s \in Slots : IsFrozen(s) => plans'[s] = plans[s]
    BY <1>3 DEF UpdateCommits, Editable, Targets, Staged, ApplyOne
  <2> QED
    BY <1>3, <2>1 DEF UpdateCommits, Outlived
<1>4. ASSUME NEW e \in 1 .. MaxSlot, NEW n \in Retentions, PrunePlans(e, n) PROVE FrozenMatchesPlan'
  <2> DEFINE Cut(x, m) == (x - m) * SlotsPerEpoch
  <2>1. epochDone \in Nat /\ e \in Nat /\ epochDone < e /\ epochDone' = e
    BY <1>4 DEF PrunePlans, PlanTypeOK
  <2>2. \A m \in Nat :
          Cut(epochDone, m) \in Int /\ Cut(e, m) \in Int /\ Cut(epochDone, m) <= Cut(e, m)
    BY <2>1
  <2>3. ASSUME NEW s \in Slots, frozen[s] # NotFrozen
        PROVE  frozen[s].plan = plans'[s] \/ (plans'[s] = EmptyPlan /\ Outlived(s)')
    <3>1. CASE ~PruneSkips(e, n) /\ s < Cut(e, n)
      <4>1. n \in Nat \ {0} /\ e > n
        <5>1. n \in Nat /\ ~PruneSkips(e, n)
          BY <3>1
        <5> QED
          BY <2>1, <5>1 DEF PruneSkips
      <4>2. plans'[s] = EmptyPlan
        BY <1>4, <3>1 DEF PrunePlans
      <4> QED
        BY <2>1, <3>1, <4>1, <4>2 DEF Outlived
    <3>2. CASE ~(~PruneSkips(e, n) /\ s < Cut(e, n))
      <4>1. plans'[s] = plans[s]
        BY <1>4, <3>2 DEF PrunePlans
      <4>2. Outlived(s) => Outlived(s)'
        <5>1. ASSUME NEW m \in Retentions \ {0}, epochDone > m, s < Cut(epochDone, m)
              PROVE  e > m /\ s < Cut(e, m)
          BY <2>1, <2>2, <5>1 DEF Slots
        <5> QED
          BY <2>1, <5>1 DEF Outlived
      <4> QED
        BY <2>3, <4>1, <4>2
    <3> QED
      BY <3>1, <3>2
  <2>4. UNCHANGED frozen
    BY <1>4 DEF PrunePlans
  <2> QED
    BY <2>1, <2>3, <2>4
<1>5. CASE PruneMarkers
  BY <1>5 DEF PruneMarkers, Outlived
<1> QED
  BY <1>1, <1>2, <1>3, <1>4, <1>5
     DEF PlanNext, PlanEnv, SlotBuilt, UpdateArrives, UpdateRejected,
         SettingsChange, UpdateConfig, Tick, planVars

\* In every reachable state a frozen slot runs on exactly the plan that is stored
\* for it, until the retention prunes that plan: an update that read the clock
\* before a freeze and took the lock after it is refused.
THEOREM FrozenPlanCorrect == PlanSpec => []FrozenMatchesPlan
<1>1. PlanInit => FrozenMatchesPlan
  BY DEF PlanInit, FrozenMatchesPlan, IsFrozen
<1> QED
  BY <1>1, MatchStep, PlanTypeCorrect, PTL DEF PlanSpec

-----------------------------------------------------------------------------
\* The prune loop handles epochs that have begun.
LEMMA BehindStep == PlanTypeOK /\ PruneBehind /\ [PlanNext]_planVars => PruneBehind'
<1> SUFFICES ASSUME PlanTypeOK, PruneBehind, [PlanNext]_planVars PROVE PruneBehind'
  OBVIOUS
<1> USE PlanAssumption DEF PruneBehind, Begun, PlanTypeOK
<1>1. CASE UNCHANGED <<currentSlot, epochDone, pruneMarkers>>
  BY <1>1
<1>2. CASE Tick
  <2>1. epochDone * SlotsPerEpoch \in Nat
    OBVIOUS
  <2> QED
    BY <1>2, <2>1 DEF Tick
<1>3. ASSUME NEW e \in 1 .. MaxSlot, NEW n \in Retentions, PrunePlans(e, n) PROVE PruneBehind'
  BY <1>3 DEF PrunePlans
<1>4. CASE PruneMarkers
  BY <1>4 DEF PruneMarkers
<1> QED
  BY <1>1, <1>2, <1>3, <1>4
     DEF PlanNext, PlanEnv, FreezeCall, SlotBuilt, UpdateArrives, UpdateCommits,
         UpdateRejected, SettingsChange, UpdateConfig, planVars

\* Only the marker prune drops a snapshot, and only of an old slot.
LEMMA StableStep ==
    PlanTypeOK /\ PruneBehind /\ [PlanNext]_planVars =>
        \A s \in Slots : IsFrozen(s) /\ NotOld(s) => frozen'[s] = frozen[s]
<1> SUFFICES ASSUME PlanTypeOK, PruneBehind, [PlanNext]_planVars,
                    NEW s \in Slots, IsFrozen(s), NotOld(s)
             PROVE  frozen'[s] = frozen[s]
  OBVIOUS
<1>1. ASSUME NEW x \in Slots, FreezeCall(x) PROVE frozen'[s] = frozen[s]
  BY <1>1 DEF FreezeCall, Freeze, Snapshot, PlanTypeOK
<1>2. CASE UNCHANGED frozen
  BY <1>2
<1>3. CASE PruneMarkers
  <2>1. epochDone \in 1 .. MaxSlot /\ Begun(epochDone)
    BY <1>3, PlanAssumption DEF PruneMarkers, PruneBehind, PlanTypeOK
  <2>2. s >= (epochDone - 1) * SlotsPerEpoch
    BY <2>1 DEF NotOld
  <2>3. (epochDone - 1) * SlotsPerEpoch \in Int
    BY <2>1, PlanAssumption
  <2> QED
    BY <1>3, <2>2, <2>3, PlanAssumption DEF PruneMarkers, Slots
<1> QED
  BY <1>1, <1>2, <1>3
     DEF PlanNext, PlanEnv, SlotBuilt, UpdateArrives, UpdateCommits, UpdateRejected,
         SettingsChange, UpdateConfig, Tick, PrunePlans, planVars

\* Freeze hands every caller of a slot the same snapshot until the slot is older
\* than the previous epoch, whatever settings, plans and budgets do meanwhile.
THEOREM SnapshotsStable == PlanSpec => SnapshotStable
<1>1. PlanInit => PruneBehind
  BY DEF PlanInit, PruneBehind
<1>2. PlanSpec => []PruneBehind
  BY <1>1, BehindStep, PlanTypeCorrect, PTL DEF PlanSpec
<1>3. PlanTypeOK /\ PruneBehind /\ [PlanNext]_planVars =>
        [\A s \in Slots : IsFrozen(s) /\ NotOld(s) => frozen'[s] = frozen[s]]_planVars
  BY StableStep
<1> QED
  BY <1>2, <1>3, PlanTypeCorrect, PTL DEF PlanSpec, SnapshotStable

-----------------------------------------------------------------------------
(* The payload builder's invariant.                                        *)

\* Slot x still matters to the event loop, the fallback or a build.
Live(x) == x + MaxDelay >= currentSlot + 1

\* What is on its way concerns slots that matter, none beyond the next.
InTime ==
    /\ \A i \in 1 .. Len(queue) : Live(queue[i].slot) /\ queue[i].slot <= currentSlot + 1
    /\ \A x \in timers : Live(x)
    /\ \A x \in Slots :
        job[x] \in {"scheduled", "running"} \/ found[x] # NoAttrs => Live(x) /\ x <= currentSlot + 1

\* An announced slot and a scheduled build have attributes, so none is dropped.
HaveAttributes ==
    /\ \A i \in 1 .. Len(queue) : attrs[queue[i].slot] # NoAttrs
    /\ \A x \in Slots : job[x] = "scheduled" => attrs[x] # NoAttrs
    /\ BuildFindsAttributes

\* While a slot matters, its build is remembered, and its snapshot says what was done
\* with it.
Remembered == \A x \in Slots : Live(x) /\ job[x] # "none" => x \in started
DecisionStands ==
    \A x \in Slots : Live(x) =>
        /\ x \in skipFired => IsFrozen(x) /\ ~Builds(frozen[x])
        /\ job[x] # "none" => IsFrozen(x) /\ Builds(frozen[x])

BuilderInv ==
    /\ PlanTypeOK /\ PruneBehind /\ BuilderTypeOK
    /\ InTime /\ HaveAttributes /\ Remembered /\ DecisionStands /\ SkippedXorBuilt

-----------------------------------------------------------------------------
(* Facts about the operators the builder uses.                             *)

\* A set of naturals that is not empty has a least element.
LEMMA LeastNatural ==
    ASSUME NEW T \in SUBSET Nat, T # {}
    PROVE  \E x \in T : \A y \in T : x <= y
<1> DEFINE R == OpToRel(<, Nat)
<1>1. IsWellFoundedOn(R, Nat)
  BY NatLessThanWellFounded
<1>2. \A x, y \in Nat : x < y => <<x, y>> \in R
  BY DEF OpToRel
<1> HIDE DEF R
<1>3. PICK x \in T : \A y \in T : ~(<<y, x>> \in R)
  BY <1>1, WFMin
<1>4. \A y \in T : x <= y
  <2> TAKE y \in T
  <2>1. x \in Nat /\ y \in Nat
    OBVIOUS
  <2>2. ~(y < x)
    BY <1>2, <1>3, <2>1
  <2> QED BY <2>1, <2>2
<1> QED BY <1>4

\* Max of a set of slots that is not empty is one of them.
LEMMA MaxOfSlots ==
    ASSUME NEW S \in SUBSET Slots, S # {}
    PROVE  Max(S) \in S
<1> DEFINE T == {n \in Nat : \E x \in S : n = MaxSlot + 1 - x}
<1>1. MaxSlot \in Nat /\ \A x \in S : x \in Nat /\ x <= MaxSlot + 1
  BY PlanAssumption DEF Slots
<1>2. \A x \in S : MaxSlot + 1 - x \in T
  BY <1>1
<1>3. T \in SUBSET Nat /\ T # {}
  BY <1>2
<1>4. PICK m \in T : \A n \in T : m <= n
  <2> HIDE DEF T
  <2> QED BY <1>3, LeastNatural
<1>5. PICK x \in S : m = MaxSlot + 1 - x
  OBVIOUS
<1>6. \A y \in S : x >= y
  <2> TAKE y \in S
  <2>1. m <= MaxSlot + 1 - y
    BY <1>2, <1>4
  <2>2. x \in Nat /\ y \in Nat /\ MaxSlot \in Nat
    BY <1>1
  <2> QED BY <1>5, <2>1, <2>2
<1> QED BY <1>6 DEF Max

\* The cleanup of a build keeps what matters.
LEMMA RecentLive ==
    ASSUME PlanTypeOK, NEW s \in Slots, s <= currentSlot + 1, NEW x \in Slots, Live(x), NEW S, x \in S
    PROVE  x \in Recent(S, s)
<1>1. {s, x, currentSlot, KeepSlots, MaxDelay} \subseteq Nat /\ MaxDelay <= KeepSlots
  BY PlanAssumption, BuilderAssumption DEF PlanTypeOK, Slots
<1>2. x + KeepSlots >= s
  BY <1>1 DEF Live
<1>3. s > KeepSlots => x >= s - KeepSlots
  BY <1>1, <1>2
<1> QED BY <1>3 DEF Recent

\* A slot that matters is not older than the previous epoch.
LEMMA LiveNotOld ==
    ASSUME PlanTypeOK, NEW x \in Slots, Live(x)
    PROVE  NotOld(x)
<1> SUFFICES ASSUME NEW e \in 1 .. MaxSlot, Begun(e) PROVE x >= (e - 1) * SlotsPerEpoch
  BY DEF NotOld
<1>1. {x, currentSlot, MaxDelay, SlotsPerEpoch, e} \subseteq Int /\ MaxDelay <= SlotsPerEpoch
  BY PlanAssumption, BuilderAssumption DEF PlanTypeOK, Slots
<1>2. e * SlotsPerEpoch \in Int /\ (e - 1) * SlotsPerEpoch = e * SlotsPerEpoch - SlotsPerEpoch
  BY <1>1
<1> DEFINE p == e * SlotsPerEpoch
<1>3. p <= currentSlot /\ p \in Int /\ (e - 1) * SlotsPerEpoch = p - SlotsPerEpoch
  BY <1>2 DEF Begun
<1> HIDE DEF p
<1> QED BY <1>1, <1>3 DEF Live

\* The queue holds events of slots.
LEMMA QueuedSlots ==
    ASSUME BuilderTypeOK, NEW i \in 1 .. Len(queue)
    PROVE  i \in DOMAIN queue /\ queue[i].slot \in Slots
<1> DEFINE E == [slot : Slots, parent : Hashes]
<1>1. queue \in Seq(E)
  BY DEF BuilderTypeOK
<1>2. \A e \in E : e.slot \in Slots
  OBVIOUS
<1> HIDE DEF E
<1>3. i \in DOMAIN queue /\ queue[i] \in E
  BY <1>1
<1> QED BY <1>2, <1>3

\* Fire appends the event or loses it.
LEMMA FireQueue ==
    ASSUME BuilderTypeOK, NEW s \in Slots, NEW p \in Hashes, Fire(s, p)
    PROVE  /\ queue' \in Seq([slot : Slots, parent : Hashes]) /\ Len(queue') <= ChannelSize
           /\ lost' \in BOOLEAN
           /\ \A i \in 1 .. Len(queue') :
               queue'[i].slot = s \/ (i \in 1 .. Len(queue) /\ queue'[i] = queue[i])
<1> DEFINE e == [slot |-> s, parent |-> p]
<1>1. e \in [slot : Slots, parent : Hashes] /\ e.slot = s /\ ChannelSize \in Nat
  BY BuilderAssumption
<1>2. queue \in Seq([slot : Slots, parent : Hashes]) /\ Len(queue) \in Nat
  BY DEF BuilderTypeOK
<1>3. CASE queue' = Append(queue, e) /\ Len(queue) < ChannelSize /\ lost' = lost
  <2> HIDE DEF e
  <2>1. Len(queue') = Len(queue) + 1 /\ queue' \in Seq([slot : Slots, parent : Hashes])
    BY <1>1, <1>2, <1>3
  <2>2. \A i \in 1 .. Len(queue') : i = Len(queue) + 1 => queue'[i] = e
    BY <1>1, <1>2, <1>3
  <2>3. \A i \in 1 .. Len(queue) : queue'[i] = queue[i]
    BY <1>1, <1>2, <1>3
  <2> QED BY <1>1, <1>2, <1>3, <2>1, <2>2, <2>3 DEF BuilderTypeOK
<1>4. CASE queue' = queue /\ lost' = TRUE
  BY <1>2, <1>4 DEF BuilderTypeOK
<1> QED BY <1>3, <1>4 DEF Fire

\* The queue after its head is taken.
LEMMA TailQueue ==
    ASSUME BuilderTypeOK, queue # <<>>, queue' = Tail(queue)
    PROVE  /\ Head(queue) \in [slot : Slots, parent : Hashes]
           /\ Head(queue) = queue[1] /\ 1 \in 1 .. Len(queue)
           /\ queue' \in Seq([slot : Slots, parent : Hashes]) /\ Len(queue') <= ChannelSize
           /\ \A i \in 1 .. Len(queue') : i + 1 \in 1 .. Len(queue) /\ queue'[i] = queue[i + 1]
<1>1. queue \in Seq([slot : Slots, parent : Hashes]) /\ Len(queue) \in Nat /\ Len(queue) <= ChannelSize
      /\ ChannelSize \in Nat /\ Len(queue) # 0
  BY BuilderAssumption DEF BuilderTypeOK
<1>2. Head(queue) = queue[1] /\ 1 \in 1 .. Len(queue) /\ queue[1] \in [slot : Slots, parent : Hashes]
  <2> DEFINE E == [slot : Slots, parent : Hashes]
  <2>1. queue \in Seq(E) /\ Len(queue) \in Nat /\ Len(queue) # 0
    BY <1>1
  <2> HIDE DEF E
  <2>2. 1 \in 1 .. Len(queue) /\ queue[1] \in E
    BY <2>1
  <2>3. Head(queue) = queue[1]
    BY <2>1
  <2> QED BY <2>2, <2>3 DEF E
<1>3. Len(queue') = Len(queue) - 1 /\ queue' \in Seq([slot : Slots, parent : Hashes])
  BY <1>1
<1>4. \A i \in 1 .. Len(queue') : i + 1 \in 1 .. Len(queue) /\ queue'[i] = queue[i + 1]
  BY <1>1, <1>3
<1> QED BY <1>1, <1>2, <1>3, <1>4

\* Of a slot's snapshot, Freeze keeps what is there.
LEMMA FreezeKeeps ==
    ASSUME PlanTypeOK, NEW s \in Slots, Freeze(s)
    PROVE  /\ frozen'[s] = Snapshot(s) /\ frozen'[s] # NotFrozen
           /\ frozen' \in [Slots -> FrozenPlan \cup {NotFrozen}]
           /\ \A x \in Slots : IsFrozen(x) => frozen'[x] = frozen[x]
<1>1. Snapshot(s) \in FrozenPlan /\ Snapshot(s) # NotFrozen
  BY SnapshotType
<1>2. IsFrozen(s) => Snapshot(s) = frozen[s]
  BY DEF Snapshot
<1>3. frozen \in [Slots -> FrozenPlan \cup {NotFrozen}] /\ frozen' = [frozen EXCEPT ![s] = Snapshot(s)]
  BY DEF PlanTypeOK, Freeze
<1> QED BY <1>1, <1>2, <1>3

-----------------------------------------------------------------------------
(* The plan service below the builder.                                     *)

\* A call of Freeze is a step of the plan service.
LEMMA FreezeIsPlanStep ==
    ASSUME PlanTypeOK, PruneBehind, NEW s \in Slots, FreezeCall(s)
    PROVE  PlanTypeOK' /\ PruneBehind' /\ \A x \in Slots : IsFrozen(x) => frozen'[x] = frozen[x]
<1>1. PlanNext
  BY DEF PlanNext
<1> QED BY <1>1, PlanTypeStep, BehindStep, FreezeKeeps DEF FreezeCall

\* Whatever the builder does, the plan service keeps its types and the snapshots of the
\* slots that matter.
LEMMA PlanBelow ==
    ASSUME BuilderInv, [Next]_vars
    PROVE  /\ PlanTypeOK' /\ PruneBehind'
           /\ \A x \in Slots : Live(x) /\ IsFrozen(x) => frozen'[x] = frozen[x]
<1>0. PlanTypeOK /\ PruneBehind /\ BuilderTypeOK
  BY DEF BuilderInv
<1>1. CASE UNCHANGED planVars
  <2>1. [PlanNext]_planVars /\ frozen' = frozen
    BY <1>1 DEF planVars
  <2> QED BY <1>0, <2>1, PlanTypeStep, BehindStep
<1>2. CASE PlanSide
  <2>1. PlanNext
    <3>1. ASSUME NEW s \in {currentSlot, currentSlot + 1}, FreezeCall(s)
          PROVE  PlanNext
      <4>1. s \in Slots
        BY <1>0, PlanAssumption DEF PlanTypeOK, Slots
      <4> QED BY <3>1, <4>1 DEF PlanNext
    <3> QED BY <1>2, <3>1 DEF PlanSide, Upcoming, PlanNext
  <2>2. \A x \in Slots : NotOld(x) /\ IsFrozen(x) => frozen'[x] = frozen[x]
    BY <1>0, <2>1, StableStep
  <2> QED BY <1>0, <2>1, <2>2, LiveNotOld, PlanTypeStep, BehindStep
<1>3. CASE HandleAttributes
  <2>1. PICK s \in Slots : s = Head(queue).slot /\ s <= currentSlot + 1
    <3>1. /\ Head(queue) \in [slot : Slots, parent : Hashes]
          /\ Head(queue) = queue[1] /\ 1 \in 1 .. Len(queue)
      BY <1>0, <1>3, TailQueue DEF HandleAttributes
    <3> QED BY <3>1 DEF BuilderInv, InTime
  <2>2. FreezeCall(s)
    BY <1>3, <2>1 DEF HandleAttributes, FreezeCall
  <2> QED BY <1>0, <2>2, FreezeIsPlanStep
<1>4. ASSUME NEW s \in Slots, BuildStarts(s)
      PROVE  /\ PlanTypeOK' /\ PruneBehind'
             /\ \A x \in Slots : Live(x) /\ IsFrozen(x) => frozen'[x] = frozen[x]
  <2>1. s <= currentSlot + 1
    BY <1>4 DEF BuildStarts, BuilderInv, InTime
  <2>2. FreezeCall(s) \/ UNCHANGED planVars
    BY <1>4, <2>1 DEF BuildStarts, FreezeCall, planVars
  <2> QED BY <1>0, <1>1, <2>2, FreezeIsPlanStep
<1>5. ASSUME NEW s \in Slots, EmitPayloadReady(s)
      PROVE  /\ PlanTypeOK' /\ PruneBehind'
             /\ \A x \in Slots : Live(x) /\ IsFrozen(x) => frozen'[x] = frozen[x]
  <2>1. /\ frozen' \in [Slots -> FrozenPlan \cup {NotFrozen}]
        /\ \A x \in Slots : IsFrozen(x) => frozen'[x] = frozen[x]
    BY <1>0, <1>5, FreezeKeeps DEF EmitPayloadReady
  <2>2. /\ slotsBuilt' \in Nat
        /\ plans' = plans /\ cfg' = cfg /\ callbacks' = callbacks /\ currentSlot' = currentSlot
        /\ updates' = updates /\ epochDone' = epochDone /\ pruneMarkers' = pruneMarkers
    BY <1>0, <1>5 DEF EmitPayloadReady, CountBuilt, PlanTypeOK
  <2>3. PlanTypeOK'
    BY <1>0, <2>1, <2>2 DEF PlanTypeOK
  <2>4. PruneBehind'
    BY <1>0, <2>2 DEF PruneBehind, Begun
  <2> QED BY <2>1, <2>3, <2>4
<1>6. CASE UNCHANGED vars
  BY <1>1, <1>6 DEF vars
<1>7. ASSUME NEW s \in Slots, FallbackFires(s) \/ FallbackInjects(s) \/ BuildFails(s)
      PROVE  UNCHANGED planVars
  BY <1>7 DEF FallbackFires, FallbackInjects, BuildFails
<1>8. ASSUME \/ \E s \in Slots, p \in Hashes : NodeAttributes(s, p)
             \/ \E h \in Slots : CheckInclusion(h)
      PROVE  UNCHANGED planVars
  BY <1>8 DEF NodeAttributes, CheckInclusion
<1> QED BY <1>1, <1>2, <1>3, <1>4, <1>5, <1>6, <1>7, <1>8 DEF Next, Build

-----------------------------------------------------------------------------
(* Each step of the builder keeps its invariant.                           *)

LoopInv ==
    BuilderTypeOK /\ InTime /\ HaveAttributes /\ Remembered /\ DecisionStands /\ SkippedXorBuilt

\* The numbers involved.
LEMMA BuilderNumbers ==
    ASSUME PlanTypeOK
    PROVE  /\ {currentSlot, MaxDelay, KeepSlots, MaxSlot} \subseteq Nat
           /\ MaxDelay >= 1 /\ MaxDelay <= KeepSlots
           /\ Slots \subseteq Nat
BY PlanAssumption, BuilderAssumption DEF PlanTypeOK, Slots

\* Snapshots that stand keep a decision standing.
LEMMA DecisionKept ==
    ASSUME DecisionStands, NEW x \in Slots, Live(x),
           \A y \in Slots : Live(y) /\ IsFrozen(y) => frozen'[y] = frozen[y],
           x \in skipFired' => x \in skipFired, job'[x] # "none" => job[x] # "none"
    PROVE  /\ x \in skipFired' => IsFrozen(x)' /\ ~Builds(frozen'[x])
           /\ job'[x] # "none" => IsFrozen(x)' /\ Builds(frozen'[x])
BY DEF DecisionStands, IsFrozen

\* A step of the plan service, a settings change, or the clock.
LEMMA PlanSideInv ==
    ASSUME BuilderInv, PlanSide
    PROVE  LoopInv'
<1>0. PlanTypeOK /\ LoopInv
  BY DEF BuilderInv, LoopInv
<1>1. /\ attrs' = attrs /\ queue' = queue /\ lost' = lost /\ armed' = armed /\ timers' = timers
      /\ found' = found /\ started' = started /\ skipFired' = skipFired /\ job' = job
      /\ payloads' = payloads /\ won' = won /\ counted' = counted
  BY DEF PlanSide, builderVars, streamVars, timerVars, buildVars, wonVars
<1>2. currentSlot' = currentSlot \/ (currentSlot' = currentSlot + 1 /\ Timely)
  <2>1. currentSlot' = currentSlot \/ currentSlot' = currentSlot + 1
    BY DEF PlanSide, FreezeCall, PlanEnv, UpdateArrives, UpdateCommits, UpdateRejected,
           SettingsChange, UpdateConfig, Tick, PrunePlans, PruneMarkers
  <2>2. currentSlot' # currentSlot => Timely
    BY DEF PlanSide
  <2> QED BY <2>1, <2>2
<1>3. \A x \in Slots : Live(x)' => Live(x)
  BY <1>0, <1>2, BuilderNumbers DEF Live
<1>4. \A x \in Slots : Live(x) /\ IsFrozen(x) => frozen'[x] = frozen[x]
  BY PlanBelow DEF Next
<1>5. BuilderTypeOK' /\ HaveAttributes' /\ SkippedXorBuilt'
  BY <1>0, <1>1 DEF LoopInv, BuilderTypeOK, HaveAttributes, BuildFindsAttributes, SkippedXorBuilt
<1>6. Remembered'
  BY <1>0, <1>1, <1>3 DEF LoopInv, Remembered
<1>7. DecisionStands'
  <2> SUFFICES ASSUME NEW x \in Slots, Live(x)'
               PROVE  /\ x \in skipFired' => IsFrozen(x)' /\ ~Builds(frozen'[x])
                      /\ job'[x] # "none" => IsFrozen(x)' /\ Builds(frozen'[x])
    BY DEF DecisionStands
  <2> QED BY <1>0, <1>1, <1>3, <1>4, DecisionKept DEF LoopInv
<1>8. InTime'
  <2>1. CASE currentSlot' = currentSlot
    BY <1>0, <1>1, <2>1 DEF LoopInv, InTime, Live
  <2>2. CASE currentSlot' = currentSlot + 1 /\ Timely
    <3>1. ASSUME NEW i \in 1 .. Len(queue)
          PROVE  Live(queue[i].slot)' /\ queue[i].slot <= currentSlot' + 1
      <4>2. i \in DOMAIN queue /\ queue[i].slot \in Slots
        BY <1>0, <3>1, QueuedSlots DEF LoopInv
      <4>3. queue[i].slot + MaxDelay > currentSlot + 1 /\ queue[i].slot <= currentSlot + 1
        BY <1>0, <2>2, <4>2 DEF Timely, LoopInv, InTime
      <4>4. \A n \in Slots : n + MaxDelay > currentSlot + 1 /\ n <= currentSlot + 1 =>
              n + MaxDelay >= currentSlot' + 1 /\ n <= currentSlot' + 1
        BY <1>0, <2>2, BuilderNumbers
      <4> QED BY <1>1, <4>2, <4>3, <4>4 DEF Live
    <3>2. \A x \in timers : Live(x)'
      <4>1. \A x \in timers : x \in Slots /\ x > currentSlot
        BY <1>0, <2>2 DEF Timely, LoopInv, BuilderTypeOK
      <4> QED BY <1>0, <2>2, <4>1, BuilderNumbers DEF Live
    <3>3. ASSUME NEW x \in Slots, job[x] \in {"scheduled", "running"} \/ found[x] # NoAttrs
          PROVE  Live(x)' /\ x <= currentSlot' + 1
      <4>1. x + MaxDelay > currentSlot + 1 /\ x <= currentSlot + 1
        BY <1>0, <2>2, <3>3 DEF Timely, LoopInv, InTime
      <4> QED BY <1>0, <2>2, <4>1, BuilderNumbers DEF Live
    <3> QED BY <1>1, <3>1, <3>2, <3>3 DEF InTime
  <2> QED BY <1>2, <2>1, <2>2
<1> QED BY <1>5, <1>6, <1>7, <1>8 DEF LoopInv

\* Attributes of slot s are cached and announced, by the node or by the fallback.
LEMMA AnnounceInv ==
    ASSUME BuilderInv, Next, NEW s \in Slots, Live(s), s <= currentSlot + 1, NEW a \in Attrs, a # NoAttrs,
           attrs' = [attrs EXCEPT ![s] = a], Fire(s, a.parent),
           found' \in [Slots -> Attrs \cup {NoAttrs}],
           \A x \in Slots : found'[x] # NoAttrs => found[x] # NoAttrs,
           UNCHANGED <<currentSlot, armed, timers, buildVars, wonVars>>
    PROVE  LoopInv'
<1>0. PlanTypeOK /\ LoopInv
  BY DEF BuilderInv, LoopInv
<1>1. a.parent \in Hashes
  BY DEF Attrs
<1>2. /\ queue' \in Seq([slot : Slots, parent : Hashes]) /\ Len(queue') <= ChannelSize
      /\ lost' \in BOOLEAN
      /\ \A i \in 1 .. Len(queue') :
          queue'[i].slot = s \/ (i \in 1 .. Len(queue) /\ queue'[i] = queue[i])
  BY <1>0, <1>1, FireQueue DEF LoopInv
<1>3. /\ currentSlot' = currentSlot /\ armed' = armed /\ timers' = timers /\ started' = started
      /\ skipFired' = skipFired /\ job' = job /\ payloads' = payloads
      /\ won' = won /\ counted' = counted
  BY DEF buildVars, wonVars
<1>4. attrs \in [Slots -> Attrs \cup {NoAttrs}] /\ attrs' \in [Slots -> Attrs \cup {NoAttrs}]
      /\ \A x \in Slots : attrs[x] # NoAttrs \/ x = s => attrs'[x] # NoAttrs
  BY <1>0 DEF LoopInv, BuilderTypeOK
<1>5. BuilderTypeOK'
  BY <1>0, <1>2, <1>3, <1>4 DEF LoopInv, BuilderTypeOK
<1>6. \A x : Live(x)' <=> Live(x)
  BY <1>3 DEF Live
<1>7. InTime'
  BY <1>0, <1>2, <1>3, <1>6 DEF LoopInv, InTime
<1>8. HaveAttributes'
  <2>1. \A i \in 1 .. Len(queue) : queue[i].slot \in Slots
    BY <1>0, QueuedSlots DEF LoopInv
  <2>2. \A i \in 1 .. Len(queue) : attrs'[queue[i].slot] # NoAttrs
    BY <1>0, <1>4, <2>1 DEF LoopInv, HaveAttributes
  <2>3. \A i \in 1 .. Len(queue') : attrs'[queue'[i].slot] # NoAttrs
    BY <1>2, <1>4, <2>2
  <2> QED BY <1>0, <1>3, <1>4, <2>3 DEF LoopInv, HaveAttributes, BuildFindsAttributes
<1>9. Remembered' /\ SkippedXorBuilt'
  BY <1>0, <1>3, <1>6 DEF LoopInv, Remembered, SkippedXorBuilt
<1>10. DecisionStands'
  <2>1. \A x \in Slots : Live(x) /\ IsFrozen(x) => frozen'[x] = frozen[x]
    BY PlanBelow
  <2> QED BY <1>0, <1>3, <1>6, <2>1, DecisionKept DEF LoopInv, DecisionStands
<1> QED BY <1>5, <1>7, <1>8, <1>9, <1>10 DEF LoopInv

\* A step that only changes who waits for what and which wins are known.
LEMMA QuietInv ==
    ASSUME BuilderInv, Next,
           UNCHANGED <<currentSlot, streamVars, armed, buildVars>>,
           timers' \subseteq timers,
           found' \in [Slots -> Attrs \cup {NoAttrs}],
           \A x \in Slots : found'[x] # NoAttrs => found[x] # NoAttrs \/ (Live(x) /\ x <= currentSlot + 1),
           won' \subseteq Slots /\ counted' \in [Slots -> Nat]
    PROVE  LoopInv'
<1>0. PlanTypeOK /\ LoopInv
  BY DEF BuilderInv, LoopInv
<1>1. /\ currentSlot' = currentSlot /\ armed' = armed /\ started' = started /\ queue' = queue
      /\ skipFired' = skipFired /\ job' = job /\ payloads' = payloads /\ attrs' = attrs
      /\ lost' = lost
  BY DEF buildVars, streamVars
<1>2. BuilderTypeOK'
  BY <1>0, <1>1 DEF LoopInv, BuilderTypeOK
<1>3. \A x : Live(x)' <=> Live(x)
  BY <1>1 DEF Live
<1>4. InTime'
  BY <1>0, <1>1, <1>3 DEF LoopInv, InTime
<1>5. HaveAttributes' /\ Remembered' /\ SkippedXorBuilt'
  BY <1>0, <1>1, <1>3 DEF LoopInv, HaveAttributes, BuildFindsAttributes, Remembered, SkippedXorBuilt
<1>6. DecisionStands'
  <2>1. \A x \in Slots : Live(x) /\ IsFrozen(x) => frozen'[x] = frozen[x]
    BY PlanBelow
  <2> QED BY <1>0, <1>1, <1>3, <2>1, DecisionKept DEF LoopInv, DecisionStands
<1> QED BY <1>2, <1>4, <1>5, <1>6 DEF LoopInv

\* The steps of the event stream, the inclusion check and the fallback.
LEMMA StreamStepInv ==
    ASSUME BuilderInv, Next,
           \/ \E s \in Slots, p \in Hashes : NodeAttributes(s, p)
           \/ \E h \in Slots : CheckInclusion(h)
           \/ \E s \in Slots : FallbackFires(s) \/ FallbackInjects(s)
    PROVE  LoopInv'
<1>0. PlanTypeOK /\ LoopInv /\ BuilderTypeOK
  BY DEF BuilderInv, LoopInv
<1>1. ASSUME NEW s \in Slots, NEW p \in Hashes, NodeAttributes(s, p) PROVE LoopInv'
  <2> DEFINE a == [parent |-> p, from |-> "node"]
  <2>1. a \in Attrs /\ a # NoAttrs /\ a.parent = p
    BY DEF Attrs, NoAttrs
  <2>2. Live(s) /\ s <= currentSlot + 1
    BY <1>0, <1>1, BuilderNumbers DEF NodeAttributes, Upcoming, Live
  <2>3. /\ attrs' = [attrs EXCEPT ![s] = a] /\ Fire(s, p) /\ found' = found
        /\ UNCHANGED <<currentSlot, armed, timers, buildVars, wonVars>>
    BY <1>1 DEF NodeAttributes, planVars, timerVars
  <2>4. found \in [Slots -> Attrs \cup {NoAttrs}]
    BY <1>0 DEF BuilderTypeOK
  <2> HIDE DEF a
  <2> QED BY <2>1, <2>2, <2>3, <2>4, AnnounceInv
<1>2. ASSUME NEW h \in Slots, CheckInclusion(h) PROVE LoopInv'
  <2>1. UNCHANGED <<currentSlot, streamVars, armed, buildVars>> /\ timers' = timers /\ found' = found
    BY <1>2 DEF CheckInclusion, planVars, timerVars
  <2>2. won' \subseteq Slots /\ counted' \in [Slots -> Nat]
    BY <1>0, <1>2 DEF CheckInclusion, MarkWon, wonVars, BuilderTypeOK
  <2>3. found \in [Slots -> Attrs \cup {NoAttrs}]
    BY <1>0 DEF BuilderTypeOK
  <2> QED BY <2>1, <2>2, <2>3, QuietInv
<1>3. ASSUME NEW s \in Slots, FallbackFires(s) PROVE LoopInv'
  <2>1. /\ UNCHANGED <<currentSlot, streamVars, armed, buildVars>> /\ timers' = timers \ {s}
        /\ won' = won /\ counted' = counted
    BY <1>3 DEF FallbackFires, planVars, wonVars
  <2>2. Live(s) /\ s <= currentSlot + 1
    BY <1>0, <1>3 DEF FallbackFires, LoopInv, InTime
  <2>3. /\ found' \in [Slots -> Attrs \cup {NoAttrs}]
        /\ \A x \in Slots \ {s} : found'[x] = found[x]
    <3>1. CASE attrs[s] = NoAttrs /\ Earlier(s) # {}
      <4>1. Earlier(s) \in SUBSET Slots
        BY DEF Earlier
      <4>2. Max(Earlier(s)) \in Slots /\ attrs[Max(Earlier(s))] # NoAttrs
        <5>1. Max(Earlier(s)) \in Earlier(s)
          BY <3>1, <4>1, MaxOfSlots
        <5> QED BY <5>1 DEF Earlier
      <4>3. attrs[Max(Earlier(s))].parent \in Hashes
        BY <1>0, <4>2 DEF BuilderTypeOK, Attrs
      <4>4. [parent |-> attrs[Max(Earlier(s))].parent, from |-> "fallback"] \in Attrs
        BY <4>3 DEF Attrs
      <4> QED BY <1>0, <1>3, <3>1, <4>4 DEF FallbackFires, BuilderTypeOK
    <3>2. CASE ~(attrs[s] = NoAttrs /\ Earlier(s) # {})
      BY <1>0, <1>3, <3>2 DEF FallbackFires, BuilderTypeOK
    <3> QED BY <3>1, <3>2
  <2>4. won \subseteq Slots /\ counted \in [Slots -> Nat]
    BY <1>0 DEF BuilderTypeOK
  <2>5. \A x \in Slots : found'[x] # NoAttrs => found[x] # NoAttrs \/ (Live(x) /\ x <= currentSlot + 1)
    BY <2>2, <2>3
  <2> QED BY <2>1, <2>3, <2>4, <2>5, QuietInv
<1>4. ASSUME NEW s \in Slots, FallbackInjects(s) PROVE LoopInv'
  <2>1. /\ found[s] # NoAttrs /\ found' = [found EXCEPT ![s] = NoAttrs]
        /\ found \in [Slots -> Attrs \cup {NoAttrs}]
    BY <1>0, <1>4 DEF FallbackInjects, BuilderTypeOK
  <2>2. found[s] \in Attrs /\ found' \in [Slots -> Attrs \cup {NoAttrs}]
        /\ \A x \in Slots : found'[x] # NoAttrs => found[x] # NoAttrs
    BY <2>1
  <2>3. UNCHANGED <<currentSlot, armed, timers, buildVars, wonVars>>
    BY <1>4 DEF FallbackInjects, planVars
  <2>4. CASE attrs[s] = NoAttrs
    <3>1. attrs' = [attrs EXCEPT ![s] = found[s]] /\ Fire(s, found[s].parent)
      BY <1>4, <2>4 DEF FallbackInjects
    <3>2. Live(s) /\ s <= currentSlot + 1
      BY <1>0, <2>1 DEF LoopInv, InTime
    <3> QED BY <2>1, <2>2, <2>3, <3>1, <3>2, AnnounceInv
  <2>5. CASE attrs[s] # NoAttrs
    <3>1. UNCHANGED <<currentSlot, streamVars, armed, buildVars>> /\ timers' = timers
          /\ won' = won /\ counted' = counted
      BY <1>4, <2>3, <2>5 DEF FallbackInjects, wonVars
    <3>2. won \subseteq Slots /\ counted \in [Slots -> Nat]
      BY <1>0 DEF BuilderTypeOK
    <3> QED BY <2>2, <3>1, <3>2, QuietInv
  <2> QED BY <2>4, <2>5
<1> QED BY <1>1, <1>2, <1>3, <1>4

\* The event at the head of the channel is of a slot that matters and has attributes.
LEMMA HeadEvent ==
    ASSUME BuilderInv, queue # <<>>, queue' = Tail(queue)
    PROVE  /\ Head(queue).slot \in Slots /\ Live(Head(queue).slot)
           /\ Head(queue).slot <= currentSlot + 1
           /\ attrs[Head(queue).slot] # NoAttrs
<1>1. /\ Head(queue) \in [slot : Slots, parent : Hashes]
      /\ Head(queue) = queue[1] /\ 1 \in 1 .. Len(queue)
  BY TailQueue DEF BuilderInv
<1>2. Head(queue).slot \in Slots
  BY <1>1
<1> QED BY <1>1, <1>2 DEF BuilderInv, InTime, HaveAttributes

\* Handling it: a build is scheduled for a slot that was never decided otherwise and was
\* not built before, or a skip is announced for one that was not built.
LEMMA HandleInv ==
    ASSUME BuilderInv, HandleAttributes
    PROVE  LoopInv'
<1>0. PlanTypeOK /\ LoopInv /\ BuilderTypeOK
  BY DEF BuilderInv, LoopInv
<1>1. PICK s \in Slots : s = Head(queue).slot /\ Live(s) /\ s <= currentSlot + 1 /\ attrs[s] # NoAttrs
  BY HeadEvent DEF HandleAttributes
<1>2. /\ queue' \in Seq([slot : Slots, parent : Hashes]) /\ Len(queue') <= ChannelSize
      /\ \A i \in 1 .. Len(queue') : i + 1 \in 1 .. Len(queue) /\ queue'[i] = queue[i + 1]
  BY <1>0, TailQueue DEF HandleAttributes
<1>3. /\ currentSlot' = currentSlot /\ attrs' = attrs /\ lost' = lost /\ payloads' = payloads
      /\ found' = found
  BY DEF HandleAttributes, ArmFallback
<1>4. \A x : Live(x)' <=> Live(x)
  BY <1>3 DEF Live
<1>5. armed' \subseteq Slots /\ timers' \subseteq Slots /\ \A x \in timers' : x \in timers \/ x = s + 1
  BY <1>0, <1>1 DEF HandleAttributes, ArmFallback, Recent, BuilderTypeOK
<1>6. Live(s + 1)
  BY <1>0, <1>1, BuilderNumbers DEF Live
<1>7. won' \subseteq Slots /\ counted' \in [Slots -> Nat]
  <2>1. MarkWon(Head(queue).parent)
    BY DEF HandleAttributes
  <2> QED BY <1>0, <2>1 DEF MarkWon, wonVars, BuilderTypeOK
<1>8. /\ frozen'[s] = Snapshot(s) /\ frozen'[s] # NotFrozen
      /\ \A x \in Slots : IsFrozen(x) => frozen'[x] = frozen[x]
  BY <1>0, <1>1, FreezeKeeps DEF HandleAttributes
<1>9. IsFrozen(s) => Snapshot(s) = frozen[s]
  BY DEF Snapshot
<1>10. /\ started \subseteq Slots /\ skipFired \subseteq Slots /\ job \in [Slots -> Jobs]
  BY <1>0 DEF BuilderTypeOK
<1>11. CASE Builds(Snapshot(s))
  <2>1. /\ started' = started \cup {s} /\ skipFired' = skipFired
        /\ job' = IF s \in started THEN job ELSE [job EXCEPT ![s] = "scheduled"]
    BY <1>1, <1>11 DEF HandleAttributes, ScheduleBuild
  <2>2. s \notin skipFired
    BY <1>0, <1>1, <1>9, <1>11 DEF LoopInv, DecisionStands
  <2>3. /\ job' \in [Slots -> Jobs] /\ \A x \in Slots \ {s} : job'[x] = job[x]
        /\ job'[s] = job[s] \/ job'[s] = "scheduled"
    BY <1>10, <2>1 DEF Jobs
  <2>4. BuilderTypeOK'
    BY <1>0, <1>2, <1>3, <1>5, <1>7, <2>1, <2>3 DEF BuilderTypeOK
  <2>5. InTime'
    BY <1>0, <1>1, <1>2, <1>3, <1>4, <1>5, <1>6, <2>3 DEF LoopInv, InTime
  <2>6. HaveAttributes'
    BY <1>0, <1>1, <1>2, <1>3, <2>3 DEF LoopInv, HaveAttributes, BuildFindsAttributes
  <2>7. Remembered' /\ SkippedXorBuilt'
    BY <1>0, <1>4, <1>10, <2>1, <2>2, <2>3 DEF LoopInv, Remembered, SkippedXorBuilt
  <2>8. DecisionStands'
    <3> SUFFICES ASSUME NEW x \in Slots, Live(x)
                 PROVE  /\ x \in skipFired' => frozen'[x] # NotFrozen /\ ~Builds(frozen'[x])
                        /\ job'[x] # "none" => frozen'[x] # NotFrozen /\ Builds(frozen'[x])
      BY <1>4 DEF DecisionStands, IsFrozen
    <3>1. CASE x = s
      BY <1>8, <1>11, <2>1, <2>2, <3>1
    <3>2. CASE x # s
      BY <1>0, <1>8, <2>1, <2>3, <3>2 DEF LoopInv, DecisionStands, IsFrozen
    <3> QED BY <3>1, <3>2
  <2> QED BY <2>4, <2>5, <2>6, <2>7, <2>8 DEF LoopInv
<1>12. CASE ~Builds(Snapshot(s))
  <2>1. /\ started' = started /\ job' = job
        /\ skipFired' = IF PlanInvolved(Snapshot(s)) /\ s \notin skipFired
                        THEN Recent(skipFired \cup {s}, s) ELSE skipFired
    BY <1>1, <1>12 DEF HandleAttributes, FireSkipped
  <2>2. skipFired' \subseteq skipFired \cup {s}
    BY <2>1 DEF Recent
  <2>3. job[s] = "none"
    BY <1>0, <1>1, <1>9, <1>12 DEF LoopInv, DecisionStands
  <2>4. BuilderTypeOK'
    BY <1>0, <1>2, <1>3, <1>5, <1>7, <2>1, <2>2 DEF BuilderTypeOK
  <2>5. InTime'
    BY <1>0, <1>1, <1>2, <1>3, <1>4, <1>5, <1>6, <2>1 DEF LoopInv, InTime
  <2>6. HaveAttributes'
    BY <1>0, <1>2, <1>3, <2>1 DEF LoopInv, HaveAttributes, BuildFindsAttributes
  <2>7. Remembered' /\ SkippedXorBuilt'
    BY <1>0, <1>4, <2>1, <2>2, <2>3 DEF LoopInv, Remembered, SkippedXorBuilt
  <2>8. DecisionStands'
    <3> SUFFICES ASSUME NEW x \in Slots, Live(x)
                 PROVE  /\ x \in skipFired' => frozen'[x] # NotFrozen /\ ~Builds(frozen'[x])
                        /\ job'[x] # "none" => frozen'[x] # NotFrozen /\ Builds(frozen'[x])
      BY <1>4 DEF DecisionStands, IsFrozen
    <3>1. CASE x = s
      BY <1>8, <1>12, <2>1, <2>3, <3>1
    <3>2. CASE x # s
      BY <1>0, <1>8, <2>1, <2>2, <3>2 DEF LoopInv, DecisionStands, IsFrozen
    <3> QED BY <3>1, <3>2
  <2> QED BY <2>4, <2>5, <2>6, <2>7, <2>8 DEF LoopInv
<1> QED BY <1>11, <1>12

\* A build: what its cleanup takes away no longer matters.
LEMMA BuildInv ==
    ASSUME BuilderInv, Next, NEW s \in Slots, Build(s)
    PROVE  LoopInv'
<1>0. PlanTypeOK /\ LoopInv /\ BuilderTypeOK
  BY DEF BuilderInv, LoopInv
<1>1. Live(s) /\ s <= currentSlot + 1
  BY <1>0 DEF Build, BuildStarts, BuildFails, EmitPayloadReady, LoopInv, InTime
<1>2. /\ currentSlot' = currentSlot /\ queue' = queue /\ lost' = lost /\ armed' = armed
      /\ timers' = timers /\ found' = found /\ skipFired' = skipFired
      /\ counted' = counted
  BY DEF Build, BuildStarts, BuildFails, EmitPayloadReady, planVars, streamVars, timerVars, wonVars
<1>3. \A x : Live(x)' <=> Live(x)
  BY <1>2 DEF Live
<1>4. \A x \in Slots : Live(x) /\ IsFrozen(x) => frozen'[x] = frozen[x]
  BY PlanBelow
<1>5. PICK j \in {"running", "ready", "failed"} : job' = [job EXCEPT ![s] = j]
  <2>1. CASE BuildStarts(s)
    <3>1. attrs[s] # NoAttrs
      BY <1>0, <2>1 DEF BuildStarts, LoopInv, HaveAttributes
    <3> QED BY <2>1, <3>1 DEF BuildStarts
  <2> QED BY <2>1 DEF Build, BuildFails, EmitPayloadReady
<1>6. /\ job \in [Slots -> Jobs] /\ job' \in [Slots -> Jobs] /\ job[s] \in {"scheduled", "running"}
      /\ \A x \in Slots \ {s} : job'[x] = job[x]
      /\ job'[s] = j
  BY <1>0, <1>5 DEF BuilderTypeOK, Jobs, Build, BuildStarts, BuildFails, EmitPayloadReady
<1>7. /\ attrs' \in [Slots -> Attrs \cup {NoAttrs}] /\ started' \subseteq Slots
      /\ payloads' \subseteq Slots /\ won' \subseteq won
      /\ \A x \in Slots : Live(x) => attrs'[x] = attrs[x] /\ (x \in started => x \in started')
  <2>1. CASE EmitPayloadReady(s)
    <3>1. \A x \in Slots : Live(x) => x \in Recent(Slots, s)
      BY <1>0, <1>1, RecentLive
    <3>2. \A x \in Slots : Live(x) /\ x \in started => x \in Recent(started, s)
      BY <1>0, <1>1, RecentLive
    <3>3. /\ attrs' = [x \in Slots |-> IF x \in Recent(Slots, s) THEN attrs[x] ELSE NoAttrs]
          /\ started' = Recent(started, s) /\ payloads' = Recent(payloads \cup {s}, s)
          /\ won' = IF s > KeepSlots THEN KeptWins ELSE won
      BY <2>1 DEF EmitPayloadReady
    <3>4. attrs' \in [Slots -> Attrs \cup {NoAttrs}] /\ \A x \in Slots : Live(x) => attrs'[x] = attrs[x]
      BY <1>0, <3>1, <3>3 DEF BuilderTypeOK
    <3>5. started' \subseteq Slots /\ payloads' \subseteq Slots
      BY <1>0, <3>3 DEF BuilderTypeOK, Recent
    <3>6. won' \subseteq won
      BY <3>3 DEF KeptWins
    <3> QED BY <3>2, <3>3, <3>4, <3>5, <3>6
  <2>2. CASE BuildStarts(s) \/ BuildFails(s)
    BY <1>0, <2>2 DEF BuildStarts, BuildFails, streamVars, wonVars, BuilderTypeOK
  <2> QED BY <2>1, <2>2 DEF Build
<1>8. BuilderTypeOK'
  BY <1>0, <1>2, <1>6, <1>7 DEF BuilderTypeOK
<1>9. InTime'
  BY <1>0, <1>1, <1>2, <1>3, <1>6 DEF LoopInv, InTime
<1>10. HaveAttributes'
  <2>1. \A i \in 1 .. Len(queue) : queue[i].slot \in Slots /\ Live(queue[i].slot)
    BY <1>0, QueuedSlots DEF LoopInv, InTime
  <2>2. \A i \in 1 .. Len(queue') : attrs'[queue'[i].slot] # NoAttrs
    BY <1>0, <1>2, <1>7, <2>1 DEF LoopInv, HaveAttributes
  <2>3. \A x \in Slots : job'[x] = "scheduled" => attrs'[x] # NoAttrs
    <3>1. \A x \in Slots : job'[x] = "scheduled" => x # s /\ job[x] = "scheduled"
      BY <1>5, <1>6
    <3> QED BY <1>0, <1>7, <3>1 DEF LoopInv, InTime, HaveAttributes
  <2>4. BuildFindsAttributes'
    BY <1>0, <1>5, <1>6 DEF LoopInv, HaveAttributes, BuildFindsAttributes
  <2> QED BY <2>2, <2>3, <2>4 DEF HaveAttributes
<1>11. Remembered' /\ SkippedXorBuilt'
  <2>1. \A x \in Slots : job'[x] # "none" => job[x] # "none"
    BY <1>6
  <2>2. Remembered'
    BY <1>0, <1>3, <1>7, <2>1 DEF LoopInv, Remembered
  <2>3. skipFired \subseteq Slots
    BY <1>0 DEF BuilderTypeOK
  <2>4. SkippedXorBuilt'
    BY <1>0, <1>2, <2>1, <2>3 DEF LoopInv, SkippedXorBuilt
  <2> QED BY <2>2, <2>4
<1>12. DecisionStands'
  <2>1. \A x \in Slots : job'[x] # "none" => job[x] # "none"
    BY <1>6
  <2> QED BY <1>0, <1>2, <1>3, <1>4, <2>1, DecisionKept DEF LoopInv, DecisionStands
<1> QED BY <1>8, <1>9, <1>10, <1>11, <1>12 DEF LoopInv

\* The invariant is inductive.
LEMMA BuilderStep ==
    ASSUME BuilderInv, [Next]_vars
    PROVE  BuilderInv'
<1>1. PlanTypeOK' /\ PruneBehind'
  BY PlanBelow
<1>2. LoopInv'
  <2>1. CASE UNCHANGED vars
    <3>1. /\ attrs' = attrs /\ queue' = queue /\ lost' = lost /\ armed' = armed /\ timers' = timers
          /\ found' = found /\ started' = started /\ skipFired' = skipFired /\ job' = job
          /\ payloads' = payloads /\ won' = won /\ counted' = counted
          /\ currentSlot' = currentSlot /\ frozen' = frozen
      BY <2>1 DEF vars, planVars, builderVars, streamVars, timerVars, buildVars, wonVars
    <3>2. BuilderTypeOK'
      BY <3>1 DEF BuilderInv, BuilderTypeOK
    <3>3. InTime' /\ HaveAttributes' /\ Remembered' /\ SkippedXorBuilt' /\ DecisionStands'
      BY <3>1 DEF BuilderInv, InTime, HaveAttributes, BuildFindsAttributes, Remembered,
                  SkippedXorBuilt, DecisionStands, IsFrozen, Live
    <3> QED BY <3>2, <3>3 DEF LoopInv
  <2>2. CASE Next
    <3>1. CASE PlanSide
      BY <3>1, PlanSideInv
    <3>2. CASE HandleAttributes
      BY <3>2, HandleInv
    <3>3. CASE \E s \in Slots : Build(s)
      BY <2>2, <3>3, BuildInv
    <3>4. CASE \/ \E s \in Slots, p \in Hashes : NodeAttributes(s, p)
               \/ \E h \in Slots : CheckInclusion(h)
               \/ \E s \in Slots : FallbackFires(s) \/ FallbackInjects(s)
      BY <2>2, <3>4, StreamStepInv
    <3> QED BY <2>2, <3>1, <3>2, <3>3, <3>4 DEF Next
  <2> QED BY <2>1, <2>2
<1> QED BY <1>1, <1>2 DEF BuilderInv, LoopInv

\* The invariant holds throughout.
THEOREM BuilderInvariant == Spec => []BuilderInv
<1>1. Init => BuilderInv
  <2> SUFFICES ASSUME Init PROVE BuilderInv
    OBVIOUS
  <2>1. PlanTypeOK /\ PruneBehind
    BY PlanTypeInit DEF Init, PlanInit, PruneBehind
  <2>2. BuilderTypeOK
    <3>1. queue \in Seq([slot : Slots, parent : Hashes]) /\ Len(queue) <= ChannelSize
      BY BuilderAssumption DEF Init
    <3>2. attrs \in [Slots -> Attrs \cup {NoAttrs}] /\ found \in [Slots -> Attrs \cup {NoAttrs}]
      BY DEF Init
    <3>3. job \in [Slots -> Jobs]
      BY DEF Init, Jobs
    <3>4. /\ armed = {} /\ timers = {} /\ started = {} /\ skipFired = {} /\ payloads = {}
          /\ won = {} /\ lost = FALSE
      BY DEF Init
    <3>5. counted \in [Slots -> Nat]
      BY DEF Init
    <3> QED BY <3>1, <3>2, <3>3, <3>4, <3>5 DEF BuilderTypeOK
  <2>3. InTime /\ HaveAttributes /\ Remembered /\ DecisionStands /\ SkippedXorBuilt
    BY DEF Init, InTime, HaveAttributes, BuildFindsAttributes, Remembered, DecisionStands,
           SkippedXorBuilt
  <2> QED BY <2>1, <2>2, <2>3 DEF BuilderInv
<1>2. BuilderInv /\ [Next]_vars => BuilderInv'
  BY BuilderStep
<1> QED BY <1>1, <1>2, PTL DEF Spec

\* A scheduled build finds attributes: no cleanup takes away what it has yet to read.
THEOREM BuildsFindAttributes == Spec => []BuildFindsAttributes
<1>1. BuilderInv => BuildFindsAttributes
  BY DEF BuilderInv, HaveAttributes
<1> QED BY <1>1, BuilderInvariant, PTL

\* No slot is both announced as skipped and built.
THEOREM SkippedOrBuilt == Spec => []SkippedXorBuilt
<1>1. BuilderInv => SkippedXorBuilt
  BY DEF BuilderInv
<1> QED BY <1>1, BuilderInvariant, PTL

\* A slot whose build has begun is never scheduled again.
THEOREM BuiltOnce == Spec => BuildOnce
<1>1. ASSUME BuilderInv, [Next]_vars
      PROVE  [\A s \in Slots : job[s] \notin {"none", "scheduled"} => job'[s] # "scheduled"]_vars
  <2> SUFFICES ASSUME Next, NEW x \in Slots, job[x] \notin {"none", "scheduled"}
               PROVE  job'[x] # "scheduled"
    BY <1>1
  <2>0. job \in [Slots -> Jobs]
    BY <1>1 DEF BuilderInv, BuilderTypeOK
  <2>1. CASE HandleAttributes
    <3>1. PICK s \in Slots : s = Head(queue).slot /\ Live(s)
      BY <1>1, <2>1, HeadEvent DEF HandleAttributes
    <3>2. job[s] # "none" => s \in started
      BY <1>1, <3>1 DEF BuilderInv, Remembered
    <3>3. job' = job \/ (s \notin started /\ job' = [job EXCEPT ![s] = "scheduled"])
      BY <2>1, <3>1 DEF HandleAttributes, ScheduleBuild
    <3> QED BY <2>0, <3>2, <3>3
  <2>2. ASSUME NEW s \in Slots, Build(s) PROVE job'[x] # "scheduled"
    BY <2>0, <2>2 DEF Build, BuildStarts, BuildFails, EmitPayloadReady
  <2>3. ASSUME NEW s \in Slots, FallbackFires(s) \/ FallbackInjects(s) PROVE job'[x] # "scheduled"
    BY <2>3 DEF FallbackFires, FallbackInjects, buildVars
  <2>4. CASE \/ PlanSide
             \/ \E s \in Slots, p \in Hashes : NodeAttributes(s, p)
             \/ \E h \in Slots : CheckInclusion(h)
    BY <2>4 DEF PlanSide, NodeAttributes, CheckInclusion, builderVars, buildVars
  <2> QED BY <2>1, <2>2, <2>3, <2>4 DEF Next
<1> QED BY <1>1, BuilderInvariant, PTL DEF Spec, BuildOnce

\* Attributes of the node are never replaced by synthesized ones.
THEOREM NodeAttributesWin == Spec => NodeWins
<1>1. ASSUME BuilderInv, [Next]_vars
      PROVE  [\A s \in Slots : attrs[s].from = "node" => attrs'[s].from # "fallback"]_vars
  <2> SUFFICES ASSUME Next, NEW x \in Slots, attrs[x].from = "node"
               PROVE  attrs'[x].from # "fallback"
    BY <1>1
  <2>0. attrs \in [Slots -> Attrs \cup {NoAttrs}] /\ NoAttrs.from = "none"
    BY <1>1 DEF BuilderInv, BuilderTypeOK, NoAttrs
  <2>1. ASSUME NEW s \in Slots, NEW p \in Hashes, NodeAttributes(s, p)
        PROVE  attrs'[x].from # "fallback"
    BY <2>0, <2>1 DEF NodeAttributes
  <2>2. ASSUME NEW s \in Slots, FallbackInjects(s) PROVE attrs'[x].from # "fallback"
    <3>1. attrs' = attrs \/ (attrs[s] = NoAttrs /\ attrs' = [attrs EXCEPT ![s] = found[s]])
      BY <2>2 DEF FallbackInjects, streamVars
    <3>2. attrs[s] = NoAttrs => x # s
      BY <2>0
    <3>3. attrs'[x] = attrs[x]
      BY <2>0, <3>1, <3>2
    <3> QED BY <3>3
  <2>3. ASSUME NEW s \in Slots, EmitPayloadReady(s) PROVE attrs'[x].from # "fallback"
    <3>1. attrs'[x] = attrs[x] \/ attrs'[x] = NoAttrs
      BY <2>3 DEF EmitPayloadReady
    <3> QED BY <2>0, <3>1
  <2>4. CASE attrs' = attrs
    BY <2>4
  <2>5. ASSUME NEW s \in Slots, FallbackFires(s) \/ BuildStarts(s) \/ BuildFails(s) PROVE attrs' = attrs
    BY <2>5 DEF FallbackFires, BuildStarts, BuildFails, streamVars
  <2>6. ASSUME PlanSide \/ HandleAttributes \/ \E h \in Slots : CheckInclusion(h) PROVE attrs' = attrs
    BY <2>6 DEF PlanSide, HandleAttributes, CheckInclusion, builderVars, streamVars
  <2> QED BY <2>1, <2>2, <2>3, <2>4, <2>5, <2>6 DEF Next, Build
<1> QED BY <1>1, BuilderInvariant, PTL DEF Spec, NodeWins

-----------------------------------------------------------------------------
(* The count of included payloads.                                         *)

\* A known win was counted, and one that was counted and is no longer known has KeepWon
\* counted payloads of later slots.
WinsKnown ==
    /\ \A w \in won : counted[w] > 0
    /\ \A w \in Slots : counted[w] > 0 /\ w \notin won => Cardinality(LaterWins(w)) >= KeepWon

\* Sets of slots are finite, and the more slots the larger.
LEMMA SlotSets ==
    ASSUME NEW S \in SUBSET Slots, NEW T \in SUBSET S
    PROVE  Cardinality(S) \in Nat /\ Cardinality(T) \in Nat /\ Cardinality(T) <= Cardinality(S)
<1>1. IsFiniteSet(Slots)
  BY PlanAssumption, FS_Interval DEF Slots
<1>2. IsFiniteSet(S)
  BY <1>1, FS_Subset
<1> QED BY <1>2, FS_Subset, FS_CardinalityType

\* A payload is marked as won: it is known, and the others have no fewer later wins.
LEMMA MarkedWins ==
    ASSUME BuilderTypeOK, WinsKnown, NEW h, MarkWon(h)
    PROVE  WinsKnown'
<1>1. KeepWon \in Nat /\ won \subseteq Slots /\ counted \in [Slots -> Nat] /\ payloads \subseteq Slots
  BY BuilderAssumption DEF BuilderTypeOK
<1>2. CASE h \in payloads \ won
  <2>1. won' = won \cup {h} /\ counted' = [counted EXCEPT ![h] = @ + 1] /\ h \in Slots
    BY <1>1, <1>2 DEF MarkWon
  <2>2. \A x \in Slots : counted'[x] = IF x = h THEN counted[x] + 1 ELSE counted[x]
    BY <1>1, <2>1
  <2>3. \A w \in won' : counted'[w] > 0
    BY <1>1, <2>1, <2>2 DEF WinsKnown
  <2>4. ASSUME NEW w \in Slots, counted'[w] > 0, w \notin won'
        PROVE  Cardinality(LaterWins(w)') >= KeepWon
    <3>1. counted[w] > 0 /\ w \notin won
      BY <2>1, <2>2, <2>4
    <3>2. LaterWins(w) \in SUBSET LaterWins(w)' /\ LaterWins(w)' \in SUBSET Slots
      BY <1>1, <2>2 DEF LaterWins
    <3>3. Cardinality(LaterWins(w)) >= KeepWon
      BY <3>1 DEF WinsKnown
    <3> QED BY <1>1, <3>2, <3>3, SlotSets
  <2> QED BY <2>3, <2>4 DEF WinsKnown
<1>3. CASE h \notin payloads \ won
  BY <1>3 DEF MarkWon, wonVars, WinsKnown, LaterWins
<1> QED BY <1>2, <1>3

\* The cleanup of a build forgets a win only when enough later ones are known.
LEMMA ForgottenWins ==
    ASSUME BuilderTypeOK, WinsKnown, counted' = counted, won' = KeptWins
    PROVE  WinsKnown'
<1>1. KeepWon \in Nat /\ won \subseteq Slots
  BY BuilderAssumption DEF BuilderTypeOK
<1>2. \A w \in won' : counted'[w] > 0
  BY DEF KeptWins, WinsKnown
<1>3. ASSUME NEW w \in Slots, counted[w] > 0, w \notin won'
      PROVE  Cardinality(LaterWins(w)) >= KeepWon
  <2>1. CASE w \notin won
    BY <1>3, <2>1 DEF WinsKnown
  <2>2. CASE w \in won
    <3> DEFINE later == {x \in won : x > w}
    <3>1. ~(Cardinality(later) < KeepWon)
      BY <1>3, <2>2 DEF KeptWins
    <3>2. later \in SUBSET LaterWins(w) /\ LaterWins(w) \in SUBSET Slots
      BY <1>1 DEF WinsKnown, LaterWins
    <3> HIDE DEF later
    <3> QED BY <1>1, <3>1, <3>2, SlotSets
  <2> QED BY <2>1, <2>2
<1>4. \A w : LaterWins(w)' = LaterWins(w)
  BY DEF LaterWins
<1> QED BY <1>2, <1>3, <1>4 DEF WinsKnown

\* Every step marks a payload, forgets wins or leaves them alone.
LEMMA WinSteps ==
    ASSUME Next
    PROVE  \/ \E h : MarkWon(h)
           \/ counted' = counted /\ won' = KeptWins
           \/ counted' = counted /\ won' = won
<1>1. CASE PlanSide
  BY <1>1 DEF PlanSide, builderVars, wonVars
<1>2. CASE \E s \in Slots, p \in Hashes : NodeAttributes(s, p)
  BY <1>2 DEF NodeAttributes, wonVars
<1>3. CASE HandleAttributes \/ \E h \in Slots : CheckInclusion(h)
  BY <1>3 DEF HandleAttributes, CheckInclusion
<1>4. ASSUME NEW s \in Slots, FallbackFires(s) \/ FallbackInjects(s) \/ BuildStarts(s) \/ BuildFails(s)
      PROVE  counted' = counted /\ won' = won
  BY <1>4 DEF FallbackFires, FallbackInjects, BuildStarts, BuildFails, wonVars
<1>5. ASSUME NEW s \in Slots, EmitPayloadReady(s)
      PROVE  counted' = counted /\ (won' = KeptWins \/ won' = won)
  BY <1>5 DEF EmitPayloadReady
<1> QED BY <1>1, <1>2, <1>3, <1>4, <1>5 DEF Next, Build

\* A payload is counted a second time only when KeepWon payloads of later slots were won.
THEOREM WinsCountedOnce == Spec => CountedOnce
<1>1. Init => WinsKnown
  BY DEF Init, WinsKnown
<1>2. ASSUME BuilderInv, WinsKnown, [Next]_vars PROVE WinsKnown'
  <2>1. BuilderTypeOK
    BY <1>2 DEF BuilderInv
  <2>2. ASSUME counted' = counted, won' = won PROVE WinsKnown'
    BY <1>2, <2>2 DEF WinsKnown, LaterWins
  <2>3. CASE UNCHANGED vars
    BY <2>2, <2>3 DEF vars, builderVars, wonVars
  <2>4. CASE Next
    BY <1>2, <2>1, <2>2, <2>4, WinSteps, MarkedWins, ForgottenWins
  <2> QED BY <1>2, <2>3, <2>4
<1>3. ASSUME BuilderInv, WinsKnown, [Next]_vars
      PROVE  [\A h \in Slots : counted'[h] # counted[h] /\ counted[h] > 0 =>
                  Cardinality(LaterWins(h)) >= KeepWon]_vars
  <2> SUFFICES ASSUME Next, NEW h \in Slots, counted'[h] # counted[h], counted[h] > 0
               PROVE  Cardinality(LaterWins(h)) >= KeepWon
    BY <1>3
  <2>1. PICK g : MarkWon(g)
    BY WinSteps
  <2>2. counted \in [Slots -> Nat]
    BY <1>3 DEF BuilderInv, BuilderTypeOK
  <2>3. h = g /\ h \notin won
    BY <2>1, <2>2 DEF MarkWon, wonVars
  <2> QED BY <1>3, <2>3 DEF WinsKnown
<1> QED BY <1>1, <1>2, <1>3, BuilderInvariant, PTL DEF Spec, CountedOnce

=============================================================================
