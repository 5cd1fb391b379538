---------------------------- MODULE MCBuilderApi ----------------------------
(* Gloas starts at slot 2; the subsidy of slot 2 takes the value over its    *)
(* integer, slot 3 has an absolute value, slot 1 answers after a delay.      *)
EXTENDS BuilderApi

MCPlan ==
    1 :> [serve |-> TRUE, subsidy |-> 1, total |-> -1, delay |-> TRUE] @@
    2 :> [serve |-> TRUE, subsidy |-> 3, total |-> -1, delay |-> FALSE] @@
    3 :> [serve |-> FALSE, subsidy |-> 0, total |-> 5, delay |-> FALSE]
MCCalls == <<{"bid", "block"}, {"bid"}, {"bid", "register", "preferences"}>>
MCBlockValue == [s \in ApiSlots |-> 5]
=============================================================================
