------------------------------ MODULE MCReveal ------------------------------
(* Small instances of RevealService for TLC. *)
EXTENDS RevealService

CONSTANTS ra, rb

S(m, g, t) == [mode |-> m, gate |-> g, at |-> t]

\* Slot 0: every gate under a deadline, late ones and a suppressed one.
\* Slot 1: the default, so that two slots meet in the queue and in a round.
Default == S("deadline", "time", 1)
MCSettings ==
    [s \in Slots |->
       IF s = 1 THEN {Default}
       ELSE { S("suppressed", "time", 1), Default, S("deadline", "vote", 0),
              S("deadline", "vote_or_time", 1), S("deadline", "vote_and_time", 1),
              S("bypass", "vote_and_time", 3) }]

TimeOnly == [s \in Slots |-> {Default}]

OnlyFirst == [s \in Slots |-> IF s = 0 THEN 1 ELSE 0]

=============================================================================
