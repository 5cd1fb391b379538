----------------------------- MODULE ActionPlan -----------------------------
(***************************************************************************)
(* pkg/action_plan/frozen.go and types.go: how a slot's sparse plan and    *)
(* the live global configuration resolve into the snapshot on which every  *)
(* consumer of the slot acts.  Pure operators; no state.                   *)
(*                                                                         *)
(* A plan gives each category a mode: "inherit" (the category is nil),     *)
(* "disabled" or "custom".  The amounts and times that a custom category   *)
(* overrides are not modelled: no decision below reads them.  A plan       *)
(* without any instruction is nil in the code and EmptyPlan here.          *)
(***************************************************************************)
EXTENDS Naturals

Modes == {"inherit", "disabled", "custom"}

\* reorg is BuildPlan.ReorgParentPayload, the one flag of its category;
\* transforms says whether the plan carries a jq expression.
SlotPlan == [bid : Modes, api : Modes, reveal : Modes,
             reorg : BOOLEAN, transforms : BOOLEAN]

EmptyPlan == [bid |-> "inherit", api |-> "inherit", reveal |-> "inherit",
              reorg |-> FALSE, transforms |-> FALSE]

\* One update of a bulk request: delete the plan, or patch some categories.
\* A category the patch leaves out has mode "keep"; null sets "inherit".
Patch == [delete : BOOLEAN,
          bid : Modes \cup {"keep"}, api : Modes \cup {"keep"},
          reveal : Modes \cup {"keep"},
          reorg : {"keep", "set", "clear"}, transforms : {"keep", "set", "clear"}]

PatchMode(old, new) == IF new = "keep" THEN old ELSE new
PatchFlag(old, new) == IF new = "keep" THEN old ELSE new = "set"

ApplyUpdateToPlan(plan, u) ==
    IF u.delete THEN EmptyPlan
    ELSE [bid    |-> PatchMode(plan.bid, u.bid),
          api    |-> PatchMode(plan.api, u.api),
          reveal |-> PatchMode(plan.reveal, u.reveal),
          reorg  |-> PatchFlag(plan.reorg, u.reorg),
          transforms |-> PatchFlag(plan.transforms, u.transforms)]

\* The settings a resolution reads.  serving is `APIPort > 0`.
Schedules == {"all", "every_nth", "next_n"}

ConfigType ==
    [epbs : BOOLEAN, builderAPI : BOOLEAN, serving : BOOLEAN, reveal : BOOLEAN,
     mode : Schedules, everyNth : Nat, nextN : Nat, startSlot : Nat]

\* A consumer is active when the plan says so or, without a word from the
\* plan, when its module is enabled.
Active(mode, enabled) == mode = "custom" \/ (mode = "inherit" /\ enabled)

\* resolveBid: nil before Gloas, whatever the plan says.
BidActive(plan, cfg, gloas) == gloas /\ Active(plan.bid, cfg.epbs)

\* resolveBuilderAPI: nil without a server.
ApiActive(plan, cfg) == cfg.serving /\ Active(plan.api, cfg.builderAPI)

\* planForcesConsumer: custom mode on a consumer that is available.
PlanForces(plan, cfg, gloas) ==
    \/ plan.bid = "custom" /\ BidActive(plan, cfg, gloas)
    \/ plan.api = "custom" /\ ApiActive(plan, cfg)

\* planSuppressesActiveConsumer.
PlanSuppresses(plan, cfg) ==
    \/ plan.bid = "disabled" /\ cfg.epbs
    \/ plan.api = "disabled" /\ cfg.builderAPI /\ cfg.serving

\* The schedule alone: start slot, cadence, budget.
ScheduleAdmits(slot, cfg, slotsBuilt) ==
    /\ slot >= cfg.startSlot
    /\ cfg.mode = "every_nth" /\ cfg.everyNth # 0 =>
           (slot - cfg.startSlot) % cfg.everyNth = 0
    /\ cfg.mode = "next_n" => slotsBuilt < cfg.nextN

\* resolveBuild: the decision, and for a skip its reason.
Decisions == {"forced", "build", "plan_disabled", "no_consumer", "schedule"}

ResolveBuild(slot, plan, cfg, gloas, slotsBuilt) ==
    IF PlanForces(plan, cfg, gloas) THEN "forced"
    ELSE IF ~BidActive(plan, cfg, gloas) /\ ~ApiActive(plan, cfg)
         THEN IF PlanSuppresses(plan, cfg) THEN "plan_disabled" ELSE "no_consumer"
         ELSE IF ScheduleAdmits(slot, cfg, slotsBuilt) THEN "build" ELSE "schedule"

\* resolveReveal: custom mode activates the reveal and lifts the deadline.
RevealModes == {"suppressed", "deadline", "bypass"}

ResolveReveal(plan, cfg) ==
    IF plan.reveal = "custom" THEN "bypass"
    ELSE IF plan.reveal = "disabled" \/ ~cfg.reveal THEN "suppressed" ELSE "deadline"

FrozenPlan ==
    [plan : SlotPlan, build : Decisions, bid : BOOLEAN, api : BOOLEAN,
     reveal : RevealModes]

\* resolveFrozenPlan.
ResolveFrozenPlan(slot, plan, cfg, gloas, slotsBuilt) ==
    [plan   |-> plan,
     build  |-> ResolveBuild(slot, plan, cfg, gloas, slotsBuilt),
     bid    |-> BidActive(plan, cfg, gloas),
     api    |-> ApiActive(plan, cfg),
     reveal |-> ResolveReveal(plan, cfg)]

\* The snapshot's two derived flags.
Builds(f) == f.build \in {"forced", "build"}
PlanInvolved(f) == f.plan # EmptyPlan \/ f.bid \/ f.api

=============================================================================
