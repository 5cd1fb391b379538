---------------------------- MODULE PlanService ----------------------------
(***************************************************************************)
(* pkg/action_plan/service.go: the store of per-slot plans, the freeze     *)
(* that turns a slot's plan and the live configuration into one snapshot,  *)
(* bulk updates, pruning, and the next_n accounting.  The goroutines that  *)
(* call it (the payload builder, the bid scheduler, the reveal service,    *)
(* the Builder API, the results tracker) appear here as callers of Freeze; *)
(* module PayloadBuilder puts the real one in their place.                 *)
(*                                                                         *)
(*   plans         the memstore of plans: Slots -> SlotPlan                *)
(*   frozen        the snapshots, NotFrozen where there is none            *)
(*   slotsBuilt    schedule-consuming builds counted for next_n            *)
(*   cfg           the shared live configuration (one writer, the settings *)
(*                 service; readers take no lock)                          *)
(*   callbacks     a settings change whose callback is yet to run          *)
(*   currentSlot   the wall clock, in slots                                *)
(*   updates       requests that have read the clock and not the lock yet  *)
(*   epochDone     the last epoch whose event the prune loop has handled   *)
(*   pruneMarkers  the prune loop is between the store and the markers     *)
(***************************************************************************)
EXTENDS ActionPlan, FiniteSets

CONSTANTS
    MaxSlot,        \* bound: the clock stops here
    SlotsPerEpoch,
    GloasSlot,      \* first slot of the Gloas fork
    Retentions,     \* values SlotResultRetentionEpochs takes, a live setting
    Configs,        \* configurations the settings can produce, field by field
    Updates,        \* updates the operator sends: target slots and a patch
    Requests,       \* operator requests in flight at once
    MaxBuilt,       \* bound: builds counted outside PayloadBuilder
    NotFrozen       \* no snapshot

\* One slot of look-ahead: the scheduler, the attributes and the Builder API
\* all freeze the slot after the current one.
Slots == 0 .. MaxSlot + 1

\* A bulk request: two updates, applied in order, each with its own targets.
Update == [slots : SUBSET Slots, patch : Patch]
NoRequest == <<>>
Request == [at : Slots, first : Updates, second : Updates]

ASSUME PlanAssumption ==
    /\ MaxSlot \in Nat
    /\ SlotsPerEpoch \in Nat \ {0}
    /\ GloasSlot \in Nat
    /\ Retentions \subseteq Nat
    /\ Configs \subseteq ConfigType
    /\ Updates \subseteq Update
    /\ MaxBuilt \in Nat
    /\ NotFrozen \notin FrozenPlan

VARIABLES plans, frozen, slotsBuilt, cfg, callbacks, currentSlot, updates,
          epochDone, pruneMarkers

planVars == <<plans, frozen, slotsBuilt, cfg, callbacks, currentSlot, updates,
              epochDone, pruneMarkers>>

PlanTypeOK ==
    /\ plans \in [Slots -> SlotPlan]
    /\ frozen \in [Slots -> FrozenPlan \cup {NotFrozen}]
    /\ slotsBuilt \in Nat
    /\ cfg \in Configs
    /\ callbacks \in BOOLEAN
    /\ currentSlot \in 0 .. MaxSlot
    /\ updates \in [Requests -> Request \cup {NoRequest}]
    /\ epochDone \in 0 .. MaxSlot
    /\ pruneMarkers \in BOOLEAN

PlanInit ==
    /\ plans = [s \in Slots |-> EmptyPlan]
    /\ frozen = [s \in Slots |-> NotFrozen]
    /\ slotsBuilt = 0
    /\ cfg \in Configs
    /\ callbacks = FALSE
    /\ currentSlot = 0
    /\ updates = [r \in Requests |-> NoRequest]
    /\ epochDone = 0
    /\ pruneMarkers = FALSE

-----------------------------------------------------------------------------
(* Freeze.                                                                 *)

IsFrozen(s) == frozen[s] # NotFrozen

\* Mutant of Snapshot: the slot is resolved anew on every call.
SnapshotAnew(s) == ResolveFrozenPlan(s, plans[s], cfg, s >= GloasSlot, slotsBuilt)

\* What Freeze returns for slot s in the current state.
Snapshot(s) ==
    IF IsFrozen(s) THEN frozen[s]
    ELSE ResolveFrozenPlan(s, plans[s], cfg, s >= GloasSlot, slotsBuilt)

\* Freeze: the first caller resolves and records, later callers read.
Freeze(s) == frozen' = [frozen EXCEPT ![s] = Snapshot(s)]

\* A caller other than the ones that are modelled.  No caller looks further
\* than the next slot (payload_bid.go and get_header.go reject such slots).
FreezeCall(s) ==
    /\ s <= currentSlot + 1
    /\ Freeze(s)
    /\ UNCHANGED <<plans, slotsBuilt, cfg, callbacks, currentSlot, updates,
                   epochDone, pruneMarkers>>

-----------------------------------------------------------------------------
(* ApplyUpdates.                                                           *)

\* The clock is read before s.mu is taken.
UpdateArrives(r, u, v) ==
    /\ updates[r] = NoRequest
    /\ updates' = [updates EXCEPT ![r] = [at |-> currentSlot, first |-> u, second |-> v]]
    /\ UNCHANGED <<plans, frozen, slotsBuilt, cfg, callbacks, currentSlot,
                   epochDone, pruneMarkers>>

Targets(req) == req.first.slots \cup req.second.slots

\* Mutant of Editable: only past slots are locked.
EditableFuture(req) == \A s \in Targets(req) : s > req.at

\* Every target is editable: in the future as of `at`, and not frozen.
Editable(req) == \A s \in Targets(req) : s > req.at /\ ~IsFrozen(s)

ApplyOne(plan, s, u) == IF s \in u.slots THEN ApplyUpdateToPlan(plan, u.patch) ELSE plan

\* Later updates of the request see what earlier ones staged.
Staged(req) ==
    [s \in Slots |-> ApplyOne(ApplyOne(plans[s], s, req.first), s, req.second)]

\* The critical section: all targets are staged, then committed together.
UpdateCommits(r) ==
    /\ updates[r] # NoRequest
    /\ Editable(updates[r])
    /\ plans' = Staged(updates[r])
    /\ updates' = [updates EXCEPT ![r] = NoRequest]
    /\ UNCHANGED <<frozen, slotsBuilt, cfg, callbacks, currentSlot,
                   epochDone, pruneMarkers>>

\* One locked or invalid target (Validate is not modelled further: any request
\* may fail it) rejects the request as a whole.
UpdateRejected(r) ==
    /\ updates[r] # NoRequest
    /\ updates' = [updates EXCEPT ![r] = NoRequest]
    /\ UNCHANGED <<plans, frozen, slotsBuilt, cfg, callbacks, currentSlot,
                   epochDone, pruneMarkers>>

-----------------------------------------------------------------------------
(* Accounting and settings.                                                *)

\* OnSlotBuilt for a slot with snapshot f; forced builds are exempt.
CountBuilt(f) ==
    slotsBuilt' = IF f # NotFrozen /\ f.build = "forced"
                  THEN slotsBuilt ELSE slotsBuilt + 1

\* A caller of OnSlotBuilt other than the one that is modelled.
SlotBuilt(s) ==
    /\ slotsBuilt < MaxBuilt
    /\ IsFrozen(s) /\ Builds(frozen[s])
    /\ CountBuilt(frozen[s])
    /\ UNCHANGED <<plans, frozen, cfg, callbacks, currentSlot, updates,
                   epochDone, pruneMarkers>>

\* Settings, one change at a time: SetMany writes the shared configuration and,
\* after it has released its lock, runs UpdateConfig, which does nothing unless
\* the mode is next_n.
SettingsChange(c) ==
    /\ ~callbacks
    /\ cfg' = c
    /\ callbacks' = (c.mode = "next_n")
    /\ UNCHANGED <<plans, frozen, slotsBuilt, currentSlot, updates,
                   epochDone, pruneMarkers>>

\* UpdateConfig restarts the next_n budget.
UpdateConfig ==
    /\ callbacks
    /\ callbacks' = FALSE
    /\ slotsBuilt' = 0
    /\ UNCHANGED <<plans, frozen, cfg, currentSlot, updates, epochDone, pruneMarkers>>

-----------------------------------------------------------------------------
(* The clock and the prune loop.                                           *)

Tick ==
    /\ currentSlot < MaxSlot
    /\ currentSlot' = currentSlot + 1
    /\ UNCHANGED <<plans, frozen, slotsBuilt, cfg, callbacks, updates,
                   epochDone, pruneMarkers>>

\* Epoch e has begun: a block of it may have been the head.
Begun(e) == e * SlotsPerEpoch <= currentSlot

\* pruneForEpoch does nothing without a retention, or while it covers the chain.
PruneSkips(e, retention) == retention = 0 \/ e <= retention

\* First half: plans outside the retention window.  Epoch events come in order,
\* but an epoch without a block, or one whose state could not be fetched, has none.
\* The retention is the setting's value at that moment.
PrunePlans(e, retention) ==
    /\ ~pruneMarkers
    /\ epochDone < e /\ Begun(e)
    /\ epochDone' = e
    /\ pruneMarkers' = ~PruneSkips(e, retention)
    /\ plans' = [s \in Slots |->
                   IF ~PruneSkips(e, retention) /\ s < (e - retention) * SlotsPerEpoch
                   THEN EmptyPlan ELSE plans[s]]
    /\ UNCHANGED <<frozen, slotsBuilt, cfg, callbacks, currentSlot, updates>>

\* Mutant of PruneMarkers: the previous epoch's markers go as well.
PruneMarkersEarly ==
    /\ pruneMarkers
    /\ pruneMarkers' = FALSE
    /\ frozen' = [s \in Slots |->
                    IF s < epochDone * SlotsPerEpoch THEN NotFrozen ELSE frozen[s]]
    /\ UNCHANGED <<plans, slotsBuilt, cfg, callbacks, currentSlot, updates,
                   epochDone>>

\* Second half, under s.mu: freeze markers older than the previous epoch.
PruneMarkers ==
    /\ pruneMarkers
    /\ pruneMarkers' = FALSE
    /\ frozen' = [s \in Slots |->
                    IF s < (epochDone - 1) * SlotsPerEpoch THEN NotFrozen ELSE frozen[s]]
    /\ UNCHANGED <<plans, slotsBuilt, cfg, callbacks, currentSlot, updates,
                   epochDone>>

-----------------------------------------------------------------------------
\* Everything but the freezes and builds of the modelled callers.
PlanEnv ==
    \/ \E r \in Requests, u, v \in Updates : UpdateArrives(r, u, v)
    \/ \E r \in Requests : UpdateCommits(r) \/ UpdateRejected(r)
    \/ \E c \in Configs : SettingsChange(c)
    \/ UpdateConfig
    \/ Tick
    \/ \E e \in 1 .. MaxSlot, retention \in Retentions : PrunePlans(e, retention)
    \/ PruneMarkers

PlanNext ==
    \/ \E s \in Slots : FreezeCall(s) \/ SlotBuilt(s)
    \/ PlanEnv

PlanSpec == PlanInit /\ [][PlanNext]_planVars

-----------------------------------------------------------------------------
(* Properties.                                                             *)

\* Slot s is not before the epoch that precedes the current one.
NotOld(s) == \A e \in 1 .. MaxSlot : Begun(e) => s >= (e - 1) * SlotsPerEpoch

\* Freeze hands every caller of a slot the same snapshot: from the first call to
\* the end of the next epoch no settings change, plan update, build or prune
\* replaces or drops it (Freeze, pruneForEpoch).
SnapshotStable ==
    [][\A s \in Slots :
          IsFrozen(s) /\ NotOld(s) => frozen'[s] = frozen[s]]_planVars

\* Slot s has left the window of some retention the setting may have had.
Outlived(s) ==
    \E n \in Retentions \ {0} :
        epochDone > n /\ s < (epochDone - n) * SlotsPerEpoch

\* The plan an operator sees for a frozen slot is the plan the slot runs on:
\* no update slips in between a slot's freeze and the end of its retention.
FrozenMatchesPlan ==
    \A s \in Slots :
        IsFrozen(s) =>
            \/ frozen[s].plan = plans[s]
            \/ plans[s] = EmptyPlan /\ Outlived(s)

\* The prune loop never runs ahead of the clock; it supports SnapshotStable.
PruneBehind ==
    /\ epochDone > 0 => Begun(epochDone)
    /\ pruneMarkers => epochDone > 0

=============================================================================
