--------------------------- MODULE PayloadBuilder ---------------------------
(***************************************************************************)
(* pkg/payload_builder/service.go over the attributes cache of             *)
(* pkg/rpc/beacon/events.go and the plan service: payload_attributes       *)
(* events trigger a build, a timer synthesizes them for a slot whose       *)
(* parent block is missing, a build runs in a goroutine of its own, and    *)
(* the service counts a payload when it sees the chain include it.         *)
(*                                                                         *)
(*   attrs            payloadAttrCache: the latest attributes of a slot    *)
(*   queue            the event loop's subscription channel                *)
(*   armed, timers    attrFallbackArmed, and the timers not yet fired      *)
(*   found            what a fired fallback re-uses, before it injects     *)
(*   started          buildStartedSlots                                    *)
(*   skipFired        skipFiredSlots                                       *)
(*   job              each slot's build                                    *)
(*   payloads         slots whose payload is in the payload cache          *)
(*   won              wonPayloads                                          *)
(*   counted          history: how often markPayloadWon counted a payload  *)
(*                    in BlocksIncluded (the inclusion tracker adds its    *)
(*                    own increments there, which are not in here)         *)
(*   lost             history: a full channel has lost an event            *)
(*                                                                         *)
(* A slot is built at most once (BuildOnce), so the slot names the block   *)
(* hash of our payload; Foreign is any hash that is not ours.              *)
(***************************************************************************)
EXTENDS PlanService, Sequences, FiniteSetsExt

CONSTANTS
    Foreign,      \* a parent payload of another builder
    ChannelSize,  \* capacity of the subscription channel (16)
    Lookback,     \* attrFallbackLookback (8)
    KeepSlots,    \* slots the caches keep behind a build (64)
    KeepWon,      \* keepWonPayloads (10)
    ReorgDepth,   \* external: how far back of the clock a new head or parent lies
    MaxDelay      \* timing: an event or a build is over this many slots later

ASSUME BuilderAssumption ==
    /\ Foreign \notin Nat
    /\ {ChannelSize, Lookback, KeepSlots, KeepWon, ReorgDepth} \subseteq Nat
    /\ MaxDelay \in 1 .. KeepSlots /\ MaxDelay <= SlotsPerEpoch

VARIABLES attrs, queue, armed, timers, found, started, skipFired, job, payloads,
          won, counted, lost

streamVars == <<attrs, queue, lost>>
timerVars  == <<armed, timers, found>>
buildVars  == <<started, skipFired, job, payloads>>
wonVars    == <<won, counted>>
builderVars == <<streamVars, timerVars, buildVars, wonVars>>
vars == <<planVars, builderVars>>

Hashes == Slots \cup {Foreign}
NoAttrs == [parent |-> Foreign, from |-> "none"]
Attrs == [parent : Hashes, from : {"node", "fallback"}]
Jobs == {"none", "scheduled", "running", "ready", "failed", "dropped"}

BuilderTypeOK ==
    /\ attrs \in [Slots -> Attrs \cup {NoAttrs}]
    /\ queue \in Seq([slot : Slots, parent : Hashes]) /\ Len(queue) <= ChannelSize
    /\ armed \subseteq Slots /\ timers \subseteq Slots
    /\ found \in [Slots -> Attrs \cup {NoAttrs}]
    /\ started \subseteq Slots
    /\ skipFired \subseteq Slots
    /\ job \in [Slots -> Jobs]
    /\ payloads \subseteq Slots
    /\ won \subseteq Slots
    /\ counted \in [Slots -> Nat]
    /\ lost \in BOOLEAN

Init ==
    /\ PlanInit
    /\ attrs = [s \in Slots |-> NoAttrs]
    /\ queue = <<>>
    /\ armed = {} /\ timers = {}
    /\ found = [s \in Slots |-> NoAttrs]
    /\ started = {} /\ skipFired = {}
    /\ job = [s \in Slots |-> "none"]
    /\ payloads = {}
    /\ won = {} /\ counted = [s \in Slots |-> 0]
    /\ lost = FALSE

\* Mutant of Recent: the cleanup keeps only the slots from s on.
RecentFrom(S, s) == {x \in S : x >= s}

\* The entries of set S at or after slot s - KeepSlots.
Recent(S, s) == IF s > KeepSlots THEN {x \in S : x >= s - KeepSlots} ELSE S

-----------------------------------------------------------------------------
(* The event stream.                                                       *)

\* Dispatcher.Fire to a non-blocking subscription: a full channel loses it.
Fire(s, p) ==
    IF Len(queue) < ChannelSize
    THEN queue' = Append(queue, [slot |-> s, parent |-> p]) /\ UNCHANGED lost
    ELSE lost' = TRUE /\ UNCHANGED queue

\* Our payload of slot h may be in a block that is head, or a parent, by now.
OnChain(h) == h \in payloads /\ h <= currentSlot /\ h + ReorgDepth >= currentSlot

\* The slots that are up: the current and the next.  Slot 0 is the genesis block's.
Upcoming == {currentSlot, currentSlot + 1} \ {0}

\* The node announces the attributes of the next slot or, late or again, those
\* of the current one; they replace what is cached.  The parent payload is
\* another builder's, or one of ours that is recent.
NodeAttributes(s, p) ==
    /\ s \in Upcoming
    /\ p # Foreign => p < s /\ OnChain(p)
    /\ attrs' = [attrs EXCEPT ![s] = [parent |-> p, from |-> "node"]]
    /\ Fire(s, p)
    /\ UNCHANGED <<planVars, timerVars, buildVars, wonVars>>

-----------------------------------------------------------------------------
(* Inclusion.                                                              *)

\* markPayloadWon, when the payload cache knows hash h.
MarkWon(h) ==
    IF h \in payloads \ won
    THEN /\ won' = won \cup {h}
         /\ counted' = [counted EXCEPT ![h] = @ + 1]
    ELSE UNCHANGED wonVars

\* checkPayloadInclusion, the goroutine of a head event whose block carries h.
CheckInclusion(h) ==
    /\ OnChain(h)
    /\ MarkWon(h)
    /\ UNCHANGED <<planVars, streamVars, timerVars, buildVars>>

-----------------------------------------------------------------------------
(* The event loop.                                                         *)

\* scheduleAttributesFallback.
ArmFallback(s) ==
    /\ armed' = IF s \in armed \/ s \notin Slots THEN armed ELSE Recent(armed \cup {s}, s)
    /\ timers' = timers \cup ({s} \cap (Slots \ armed))
    /\ UNCHANGED found

\* fireBuildSkipped.
FireSkipped(s, f) ==
    skipFired' = IF PlanInvolved(f) /\ s \notin skipFired
                 THEN Recent(skipFired \cup {s}, s) ELSE skipFired

\* Mutant of ScheduleBuild: a slot that was started is started again.
ScheduleBuildAgain(s) ==
    /\ started' = started \cup {s}
    /\ job' = [job EXCEPT ![s] = "scheduled"]

\* The slot's build starts, unless it has.
ScheduleBuild(s) ==
    /\ started' = started \cup {s}
    /\ job' = IF s \in started THEN job ELSE [job EXCEPT ![s] = "scheduled"]

\* handlePayloadAttributesEvent.
HandleAttributes ==
    /\ queue # <<>>
    /\ queue' = Tail(queue)
    /\ LET e == Head(queue) IN
       /\ MarkWon(e.parent)
       /\ ArmFallback(e.slot + 1)
       /\ Freeze(e.slot)
       /\ IF Builds(Snapshot(e.slot))
          THEN ScheduleBuild(e.slot) /\ UNCHANGED skipFired
          ELSE FireSkipped(e.slot, Snapshot(e.slot)) /\ UNCHANGED <<started, job>>
    /\ UNCHANGED <<plans, slotsBuilt, cfg, callbacks, currentSlot, updates,
                   epochDone, pruneMarkers, attrs, lost, payloads>>

-----------------------------------------------------------------------------
(* The missing-block fallback: applyAttributesFallback.                    *)

\* Cached slots within the lookback of slot s.
Earlier(s) == {x \in Slots : x < s /\ x + Lookback >= s /\ attrs[x] # NoAttrs}

\* The timer fires at the slot's build start time, which may precede the slot:
\* nothing to do when attributes came, or none are left to re-use.
FallbackFires(s) ==
    /\ s \in timers /\ s <= currentSlot + 1
    /\ timers' = timers \ {s}
    /\ found' = IF attrs[s] = NoAttrs /\ Earlier(s) # {}
                THEN [found EXCEPT ![s] = [parent |-> attrs[Max(Earlier(s))].parent,
                                           from |-> "fallback"]]
                ELSE found
    /\ UNCHANGED <<planVars, streamVars, armed, buildVars, wonVars>>

\* Mutant of FallbackInjects: the cache is not looked up again.
FallbackOverwrites(s) ==
    /\ found[s] # NoAttrs
    /\ found' = [found EXCEPT ![s] = NoAttrs]
    /\ attrs' = [attrs EXCEPT ![s] = found[s]]
    /\ Fire(s, found[s].parent)
    /\ UNCHANGED <<planVars, armed, timers, buildVars, wonVars>>

\* Mutant of FallbackInjects: the attributes are cached and not announced.
FallbackCachesOnly(s) ==
    /\ found[s] # NoAttrs
    /\ found' = [found EXCEPT ![s] = NoAttrs]
    /\ attrs' = IF attrs[s] = NoAttrs THEN [attrs EXCEPT ![s] = found[s]] ELSE attrs
    /\ UNCHANGED <<planVars, queue, lost, armed, timers, buildVars, wonVars>>

\* InjectPayloadAttributes: dropped when the node was faster.
FallbackInjects(s) ==
    /\ found[s] # NoAttrs
    /\ found' = [found EXCEPT ![s] = NoAttrs]
    /\ IF attrs[s] = NoAttrs
       THEN attrs' = [attrs EXCEPT ![s] = found[s]] /\ Fire(s, found[s].parent)
       ELSE UNCHANGED streamVars
    /\ UNCHANGED <<planVars, armed, timers, buildVars, wonVars>>

-----------------------------------------------------------------------------
(* A build: executeBuildForSlot.                                           *)

\* The timer or the goroutine of the build: it reads the attributes as they are
\* by now, and the snapshot for the parent to build on.
BuildStarts(s) ==
    /\ job[s] = "scheduled"
    /\ IF attrs[s] = NoAttrs
       THEN job' = [job EXCEPT ![s] = "dropped"] /\ UNCHANGED frozen
       ELSE job' = [job EXCEPT ![s] = "running"] /\ Freeze(s)
    /\ UNCHANGED <<plans, slotsBuilt, cfg, callbacks, currentSlot, updates, epochDone,
                   pruneMarkers, streamVars, timerVars, started, skipFired, payloads, wonVars>>

\* The engine fails or times out, or the payload's transform does.
BuildFails(s) ==
    /\ job[s] = "running"
    /\ job' = [job EXCEPT ![s] = "failed"]
    /\ UNCHANGED <<planVars, streamVars, timerVars, started, skipFired, payloads, wonVars>>

\* Mutant of KeptWins: the newest win goes instead of the oldest.
KeptOldestWins == {w \in won : Cardinality({x \in won : x < w}) < KeepWon}

\* The KeepWon most recent wins.
KeptWins == {w \in won : Cardinality({x \in won : x > w}) < KeepWon}

\* The engine returns, the snapshot is read for a transform, and emitPayloadReady
\* caches, announces, counts and cleans up.
EmitPayloadReady(s) ==
    /\ job[s] = "running"
    /\ job' = [job EXCEPT ![s] = "ready"]
    /\ Freeze(s)
    /\ CountBuilt(Snapshot(s))
    /\ payloads' = Recent(payloads \cup {s}, s)
    /\ attrs' = [x \in Slots |-> IF x \in Recent(Slots, s) THEN attrs[x] ELSE NoAttrs]
    /\ started' = Recent(started, s)
    /\ won' = IF s > KeepSlots THEN KeptWins ELSE won
    /\ UNCHANGED <<plans, cfg, callbacks, currentSlot, updates, epochDone, pruneMarkers,
                   queue, lost, timerVars, skipFired, counted>>

Build(s) == BuildStarts(s) \/ BuildFails(s) \/ EmitPayloadReady(s)

-----------------------------------------------------------------------------
\* Timers fire in their slot, and nothing is MaxDelay slots late: an event in the
\* channel and a build take seconds, while the caches keep 64 slots and the plan
\* service's snapshots an epoch at least.
Timely ==
    /\ \A i \in DOMAIN queue : queue[i].slot + MaxDelay > currentSlot + 1
    /\ \A s \in timers : s > currentSlot
    /\ \A s \in Slots : job[s] \in {"scheduled", "running"} \/ found[s] # NoAttrs =>
           s + MaxDelay > currentSlot + 1

\* The plan service, its other callers, and the clock.
PlanSide ==
    /\ \/ \E s \in Upcoming : FreezeCall(s)
       \/ PlanEnv
    /\ currentSlot' # currentSlot => Timely
    /\ UNCHANGED builderVars

Next ==
    \/ PlanSide
    \/ \E s \in Slots, p \in Hashes : NodeAttributes(s, p)
    \/ \E h \in Slots : CheckInclusion(h)
    \/ HandleAttributes
    \/ \E s \in Slots : FallbackFires(s) \/ FallbackInjects(s) \/ Build(s)

Spec == Init /\ [][Next]_vars

\* The goroutines and timers run, the engine call ends (it has a deadline), and
\* time passes.  Nothing obliges the node or the operator.
Fairness ==
    /\ WF_vars(HandleAttributes)
    /\ WF_vars(\E s \in Slots : FallbackFires(s) \/ FallbackInjects(s) \/ Build(s))
    /\ WF_vars(Tick /\ Timely /\ UNCHANGED builderVars)

FairSpec == Spec /\ Fairness

-----------------------------------------------------------------------------
(* Properties.                                                             *)

\* A slot is built at most once, however often its attributes are announced and
\* whatever the cleanup has forgotten (buildStartedSlots).
BuildOnce ==
    [][\A s \in Slots : job[s] \notin {"none", "scheduled"} => job'[s] # "scheduled"]_vars

\* No slot is both announced as skipped and built: repeated events of a slot
\* decide alike although settings and budget changed in between (Freeze).
SkippedXorBuilt == \A s \in skipFired : job[s] = "none"

\* A node-received event always wins: the fallback never replaces it, whatever
\* arrives between its look-up and its injection.
NodeWins ==
    [][\A s \in Slots : attrs[s].from = "node" => attrs'[s].from # "fallback"]_vars

\* A scheduled build finds attributes: the cleanup of a later build never takes
\* away what an earlier, slower one has yet to read.
BuildFindsAttributes == \A s \in Slots : job[s] # "dropped"

\* Payloads of later slots that were detected on chain, by now or before.
LaterWins(h) == {x \in Slots : x > h /\ counted[x] > 0}

\* markPayloadWon counts a payload a second time only when KeepWon payloads of later
\* slots have been won as well: the two detectors, a head seen again and the cleanup
\* of old wins count none of the KeepWon latest twice.
CountedOnce ==
    [][\A h \in Slots : counted'[h] # counted[h] /\ counted[h] > 0 =>
           Cardinality(LaterWins(h)) >= KeepWon]_vars

\* Slot s is done with: a payload, a failure, or a decision not to build.
Served(s) ==
    \/ job[s] \in {"ready", "failed"}
    \/ IsFrozen(s) /\ ~Builds(frozen[s])

\* Once the node has announced a slot, every later one gets its decision and, when
\* that is to build, a payload or a failure, even if the node falls silent (the
\* fallback re-arms itself); only a full channel breaks the chain.
EverySlotServed == \A s \in Slots : s \in armed ~> Served(s) \/ lost

=============================================================================
