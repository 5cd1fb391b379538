------------------------------ MODULE MCBidder ------------------------------
(* A small instance of Bidder for TLC. *)
EXTENDS Bidder

\* Bids from one tick before the slot into it, rising to the largest amount.
Rising == [start |-> -1, end |-> 3, interval |-> 1, value |-> Suppressed,
           min |-> 1, subsidy |-> 1, increase |-> 2, ignorePrefs |-> FALSE]
Single == [Rising EXCEPT !.interval = 0, !.value = 1, !.ignorePrefs = TRUE]

MCPlans == {Suppressed, Rising, Single}
MCValues == [s \in Slots |-> s]

=============================================================================
