--------------------------- MODULE MCPlanService ---------------------------
(* A small instance of PlanService for TLC. *)
EXTENDS PlanService, TLC

KeepAll == [delete |-> FALSE, bid |-> "keep", api |-> "keep", reveal |-> "keep",
            reorg |-> "keep", transforms |-> "keep"]

\* One slot is forced, an overlapping range is switched off, and back.
MCUpdates ==
    { [slots |-> {2},    patch |-> [KeepAll EXCEPT !.bid = "custom"]],
      [slots |-> {2, 3}, patch |-> [KeepAll EXCEPT !.bid = "disabled", !.reveal = "custom"]],
      [slots |-> {3},    patch |-> [KeepAll EXCEPT !.delete = TRUE]] }

BaseConfig == [epbs |-> TRUE, builderAPI |-> FALSE, serving |-> TRUE, reveal |-> TRUE,
               mode |-> "all", everyNth |-> 1, nextN |-> 0, startSlot |-> 0]

MCConfigs == { BaseConfig, [BaseConfig EXCEPT !.mode = "next_n", !.nextN = 1] }

=============================================================================
