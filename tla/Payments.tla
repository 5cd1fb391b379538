------------------------------ MODULE Payments ------------------------------
(***************************************************************************)
(* pkg/payload_bidder/payment_tracker.go: what the builder owes for bids   *)
(* that won.  A won bid is a pending payment until its payload is          *)
(* revealed; then it becomes a deduction from the live balance, which the  *)
(* next epoch's builder snapshot replaces.                                 *)
(*                                                                         *)
(*   payPending         slots with a pending payment                       *)
(*   balanceAdjustment  deposits made minus reveals paid since the snapshot*)
(*   adjustmentEpoch    latest epoch the adjustment is anchored to         *)
(***************************************************************************)
EXTENDS Integers, FiniteSets

CONSTANTS
    Slots,          \* slots this builder may win
    SlotsPerEpoch,
    BidValue        \* the value of each slot's payload, in Gwei

ASSUME PaymentAssumption ==
    /\ Slots \subseteq Nat
    /\ SlotsPerEpoch \in Nat \ {0}
    /\ BidValue \in [Slots -> Nat]

VARIABLES payPending, balanceAdjustment, adjustmentEpoch

payVars == <<payPending, balanceAdjustment, adjustmentEpoch>>

PaymentsTypeOK ==
    /\ payPending \subseteq Slots
    /\ balanceAdjustment \in Int
    /\ adjustmentEpoch \in Nat

PaymentsInit ==
    /\ payPending = {}
    /\ balanceAdjustment = 0
    /\ adjustmentEpoch = 0

EpochOf(s) == s \div SlotsPerEpoch

\* anchorEpochLocked.
Anchored(e) == IF e > adjustmentEpoch THEN e ELSE adjustmentEpoch

\* RecordWonBid, as checkForOurPayload calls it: only for a positive value.
RecordWonBid(s) ==
    /\ payPending' = IF BidValue[s] > 0 THEN payPending \cup {s} ELSE payPending
    /\ UNCHANGED <<balanceAdjustment, adjustmentEpoch>>

\* MarkRevealed: a pending payment becomes a deduction; without one, nothing.
MarkRevealed(s) ==
    IF s \in payPending
    THEN /\ payPending' = payPending \ {s}
         /\ balanceAdjustment' = balanceAdjustment - BidValue[s]
         /\ adjustmentEpoch' = Anchored(EpochOf(s))
    ELSE UNCHANGED payVars

\* AddDeposit, in the current epoch e.
AddDeposit(amount, e) ==
    /\ balanceAdjustment' = balanceAdjustment + amount
    /\ adjustmentEpoch' = Anchored(e)
    /\ UNCHANGED payPending

\* PruneExpiredPayments, then ReconcileToEpoch: the tracker's epoch event e.
NewEpoch(e) ==
    /\ payPending' = {s \in payPending : e <= EpochOf(s) + 1}
    /\ balanceAdjustment' = IF e <= adjustmentEpoch THEN balanceAdjustment ELSE 0
    /\ adjustmentEpoch' = Anchored(e)

=============================================================================
