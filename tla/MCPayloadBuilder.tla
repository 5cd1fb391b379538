-------------------------- MODULE MCPayloadBuilder --------------------------
(* Small instances of PayloadBuilder for TLC. *)
EXTENDS PayloadBuilder

KeepAll == [delete |-> FALSE, bid |-> "keep", api |-> "keep", reveal |-> "keep",
            reorg |-> "keep", transforms |-> "keep"]

\* One slot is forced, builds on its grandparent and is transformed.
MCUpdates ==
    { [slots |-> {2},
       patch |-> [KeepAll EXCEPT !.bid = "custom", !.reorg = "set", !.transforms = "set"]] }

BaseConfig == [epbs |-> TRUE, builderAPI |-> FALSE, serving |-> TRUE, reveal |-> TRUE,
               mode |-> "all", everyNth |-> 1, nextN |-> 0, startSlot |-> 0]

\* The operator switches between every other slot and all from slot 1 on.
MCConfigs == { [BaseConfig EXCEPT !.mode = "every_nth", !.everyNth = 2],
               [BaseConfig EXCEPT !.startSlot = 1] }
=============================================================================
