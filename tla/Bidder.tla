------------------------------- MODULE Bidder -------------------------------
(***************************************************************************)
(* pkg/p2p_bidder/scheduler.go: when the p2p bidder bids for a slot, and   *)
(* how much.  One goroutine serves head events and a 10 ms ticker, so a    *)
(* submission that the node answers slowly holds up the head event that    *)
(* should end it, and the rest of its own tick works with an old time.     *)
(* Whether the builder may bid at all is the subject of Registration: here *)
(* any tick may find that it may not, which is a tick that does nothing.   *)
(*                                                                         *)
(*   clock      the wall clock, in ticks                                   *)
(*   bidPlan    frozen bid settings of each slot, Suppressed where there   *)
(*              are none (stable: see SnapshotStable of PlanService)       *)
(*   payloads   slots with a payload in the builder's cache                *)
(*   prefs      slots with the proposer's preferences                      *)
(*   heads      head events the loop has not taken                         *)
(*   slots      SlotState of each slot                                     *)
(*   bidding    the check under way: its slot, tick and value              *)
(*   records    values gossiped for a slot's payload (Payload.AddBid)      *)
(*   attempts   submissions reported for a slot (FireBidSubmission)        *)
(***************************************************************************)
EXTENDS Integers, Sequences

CONSTANTS
    MaxSlot,        \* bound: the last slot
    TicksPerSlot,
    Plans,          \* bid settings a slot can be frozen with
    BlockValue,     \* value of each slot's payload, in Gwei
    MaxGwei,        \* the largest amount an integer holds (MaxUint64)
    Suppressed,     \* the slot's plan has no bid settings
    Never           \* the zero LastBidTime

Slots == 0 .. MaxSlot
MaxTime == (MaxSlot + 1) * TicksPerSlot - 1

Gwei == 0 .. MaxGwei

\* start and end are ticks from the slot's beginning; value Suppressed means the formula.
Settings ==
    [start : Int, end : Int, interval : Nat, value : Gwei \cup {Suppressed},
     min : Gwei, subsidy : Gwei, increase : Gwei, ignorePrefs : BOOLEAN]

ASSUME BidderAssumption ==
    /\ {MaxSlot, MaxGwei} \subseteq Nat
    /\ TicksPerSlot \in Nat \ {0}
    /\ Plans \subseteq Settings \cup {Suppressed}
    /\ BlockValue \in [Slots -> Gwei]
    /\ Suppressed \notin Settings \cup Nat
    /\ Never \notin Nat

VARIABLES clock, bidPlan, payloads, prefs, heads, slots, bidding, records, attempts

vars == <<clock, bidPlan, payloads, prefs, heads, slots, bidding, records, attempts>>

SlotState == [last : Nat \cup {Never}, count : Nat, closed : BOOLEAN, warned : BOOLEAN]

NoCheck == [pc |-> "idle", slot |-> 0, now |-> 0, value |-> 0]

BidderTypeOK ==
    /\ clock \in 0 .. MaxTime
    /\ bidPlan \in [Slots -> Plans]
    /\ {payloads, prefs, heads} \subseteq SUBSET Slots
    /\ slots \in [Slots -> SlotState]
    /\ bidding \in [pc : {"idle", "check", "submit"}, slot : Slots,
                    now : 0 .. MaxTime, value : Gwei]
    /\ records \in [Slots -> Seq(Gwei)]
    /\ attempts \in [Slots -> Nat]

Init ==
    /\ clock = 0
    /\ bidPlan \in [Slots -> Plans]
    /\ payloads = {} /\ prefs = {} /\ heads = {}
    /\ slots = [s \in Slots |-> [last |-> Never, count |-> 0, closed |-> FALSE, warned |-> FALSE]]
    /\ bidding = NoCheck
    /\ records = [s \in Slots |-> << >>]
    /\ attempts = [s \in Slots |-> 0]

-----------------------------------------------------------------------------
(* The world of the loop.                                                  *)

ClockTicks ==
    /\ clock < MaxTime /\ clock' = clock + 1
    /\ UNCHANGED <<bidPlan, payloads, prefs, heads, slots, bidding, records, attempts>>

\* A slot is built once (BuildOnce of PayloadBuilder), so its payload does not change.
PayloadReady(s) ==
    /\ s \notin payloads /\ payloads' = payloads \cup {s}
    /\ UNCHANGED <<clock, bidPlan, prefs, heads, slots, bidding, records, attempts>>

PreferencesArrive(s) ==
    /\ s \notin prefs /\ prefs' = prefs \cup {s}
    /\ UNCHANGED <<clock, bidPlan, payloads, heads, slots, bidding, records, attempts>>

\* The node announces a block of slot s; the event waits in the subscription.
HeadFires(s) ==
    /\ s * TicksPerSlot <= clock
    /\ s \notin heads /\ ~slots[s].closed
    /\ heads' = heads \cup {s}
    /\ UNCHANGED <<clock, bidPlan, payloads, prefs, slots, bidding, records, attempts>>

-----------------------------------------------------------------------------
(* What to bid.                                                            *)

\* Mutant of AddGwei: the sum wraps.
AddGweiWrapped(a, b) == (a + b) % (MaxGwei + 1)

\* addGweiClamped and mulGweiClamped.
AddGwei(a, b) == IF a + b > MaxGwei THEN MaxGwei ELSE a + b
MulGwei(a, b) == IF a * b > MaxGwei THEN MaxGwei ELSE a * b

\* An absolute value, or max(block value, minimum) + subsidy.
Base(s) ==
    LET p == bidPlan[s] IN
    IF p.value # Suppressed THEN p.value
    ELSE AddGwei(IF BlockValue[s] > p.min THEN BlockValue[s] ELSE p.min, p.subsidy)

\* The re-bid increase applies in interval mode.
BidOf(s) ==
    IF bidPlan[s].interval > 0
    THEN AddGwei(Base(s), MulGwei(slots[s].count, bidPlan[s].increase))
    ELSE Base(s)

-----------------------------------------------------------------------------
(* The loop.                                                               *)

\* In the slot's bid window, by the time of the tick, and there is a payload.
Open(s, now) ==
    /\ bidPlan[s] # Suppressed
    /\ now - s * TicksPerSlot >= bidPlan[s].start
    /\ now - s * TicksPerSlot < bidPlan[s].end
    /\ s \in payloads

PrefsMissing(s) == s \notin prefs /\ ~bidPlan[s].ignorePrefs

\* Mutant of Due: the block may have been seen.
DueThoughClosed(s) ==
    IF bidPlan[s].interval > 0
    THEN slots[s].last = Never \/ clock - slots[s].last >= bidPlan[s].interval
    ELSE slots[s].count = 0

\* No block seen; the interval since the last bid has passed, or, in single-bid mode,
\* there has been no bid for this payload.
Due(s) ==
    /\ ~slots[s].closed
    /\ IF bidPlan[s].interval > 0
       THEN slots[s].last = Never \/ clock - slots[s].last >= bidPlan[s].interval
       ELSE slots[s].count = 0

\* ProcessTick looks at the current slot, then at the next one.
Continue(s, now) ==
    bidding' = IF s = now \div TicksPerSlot /\ s < MaxSlot
               THEN [pc |-> "check", slot |-> s + 1, now |-> now, value |-> 0]
               ELSE NoCheck

\* checkSlotForBidding up to the submission.
CheckSlot(s, now) ==
    /\ IF Open(s, now) /\ ~PrefsMissing(s) /\ Due(s)
       THEN bidding' = [pc |-> "submit", slot |-> s, now |-> now, value |-> BidOf(s)]
       ELSE Continue(s, now)
    /\ slots' = [slots EXCEPT ![s].warned = @ \/ (Open(s, now) /\ PrefsMissing(s))]
    /\ UNCHANGED <<clock, bidPlan, payloads, prefs, heads, records, attempts>>

\* Mutant of Attempted: only a bid that was sent counts.
AttemptedIfSent(st, now, sent) == IF sent THEN [st EXCEPT !.last = now, !.count = @ + 1] ELSE st

\* The slot's state after an attempt, sent or not.
Attempted(st, now, sent) == [st EXCEPT !.last = now, !.count = @ + 1]

\* CreateAndSubmitBid and the rest of checkSlotForBidding.
Submit(s, now, value, sent) ==
    /\ slots' = [slots EXCEPT ![s] = Attempted(slots[s], now, sent)]
    /\ records' = IF sent THEN [records EXCEPT ![s] = Append(@, value)] ELSE records
    /\ attempts' = [attempts EXCEPT ![s] = @ + 1]
    /\ Continue(s, now)
    /\ UNCHANGED <<clock, bidPlan, payloads, prefs, heads>>

ProcessTick ==
    \/ bidding.pc = "idle" /\ CheckSlot(clock \div TicksPerSlot, clock)
    \/ bidding.pc = "check" /\ CheckSlot(bidding.slot, bidding.now)
    \/ bidding.pc = "submit" /\ \E sent \in BOOLEAN : Submit(bidding.slot, bidding.now, bidding.value, sent)

\* handleHeadEvent: the block is there, bidding for its slot is over.
OnHeadEvent(s) ==
    /\ bidding.pc = "idle" /\ s \in heads
    /\ heads' = heads \ {s}
    /\ slots' = [slots EXCEPT ![s].closed = TRUE]
    /\ UNCHANGED <<clock, bidPlan, payloads, prefs, bidding, records, attempts>>

Next ==
    \/ ClockTicks
    \/ ProcessTick
    \/ \E s \in Slots : PayloadReady(s) \/ PreferencesArrive(s) \/ HeadFires(s) \/ OnHeadEvent(s)

Spec == Init /\ [][Next]_vars

-----------------------------------------------------------------------------
(* Properties.                                                             *)

\* Once the loop has taken a slot's head event no bid for the slot is sent, not by
\* the tick that was under way either.
NoBidOnceClosed == [][\A s \in Slots : slots[s].closed => records'[s] = records[s]]_vars

\* Competing with itself the builder never lowers a bid: values rise with every attempt,
\* failed ones included, until they stay at the largest amount; no overflow makes a bid
\* small (addGweiClamped, mulGweiClamped).
BidsRise ==
    \A s \in Slots : \A i, j \in DOMAIN records[s] : i < j =>
        \/ records[s][i] < records[s][j]
        \/ records[s][i] = records[s][j] /\ (records[s][i] = MaxGwei \/ bidPlan[s].increase = 0)

\* In single-bid mode a payload is bid for once, though the tick comes every 10 ms and
\* the node may refuse the bid ("we don't want to spam on failure").
OneBid ==
    \A s \in Slots :
        bidPlan[s] # Suppressed /\ bidPlan[s].interval = 0 => attempts[s] <= 1

=============================================================================
