---------------------------- MODULE BidderProofs ----------------------------
(***************************************************************************)
(* Proofs about Bidder: its types, one bid per payload in single-bid mode, *)
(* no bid after the head event, and bids that do not fall, for every plan, *)
(* clock and amount.                                                       *)
(***************************************************************************)
EXTENDS Bidder, TLAPS

\* Clamped arithmetic stays in range.
LEMMA GweiClosed ==
    ASSUME NEW a \in Nat, NEW b \in Nat
    PROVE  AddGwei(a, b) \in Gwei /\ MulGwei(a, b) \in Gwei
<1>1. a + b \in Nat
  OBVIOUS
<1>2. a * b \in Nat
  OBVIOUS
<1>3. AddGwei(a, b) \in Gwei
  BY <1>1, BidderAssumption DEF AddGwei, Gwei
<1>4. MulGwei(a, b) \in Gwei
  <2> DEFINE prod == a * b
  <2>1. prod \in Nat BY <1>2
  <2>2. (IF prod > MaxGwei THEN MaxGwei ELSE prod) \in Gwei
    <3> HIDE DEF prod
    <3> QED BY <2>1, BidderAssumption DEF Gwei
  <2> QED BY <2>2 DEF MulGwei
<1> QED BY <1>3, <1>4

\* What a bid starts from fits the integer it is computed in.
LEMMA BaseInRange ==
    ASSUME BidderTypeOK, NEW s \in Slots, bidPlan[s] # Suppressed
    PROVE  Base(s) \in Gwei
<1>1. bidPlan[s] \in Settings
  BY BidderAssumption DEF BidderTypeOK
<1>2. BlockValue[s] \in Gwei /\ Gwei \subseteq Nat
  BY BidderAssumption DEF Gwei
<1>3. CASE bidPlan[s].value # Suppressed
  BY <1>1, <1>3 DEF Base, Settings
<1>4. CASE bidPlan[s].value = Suppressed
  <2>1. (IF BlockValue[s] > bidPlan[s].min THEN BlockValue[s] ELSE bidPlan[s].min) \in Nat
    BY <1>1, <1>2 DEF Settings
  <2>2. bidPlan[s].subsidy \in Nat
    BY <1>1, <1>2 DEF Settings
  <2> QED BY <1>4, <2>1, <2>2, GweiClosed DEF Base
<1> QED BY <1>3, <1>4

\* So does the bid.
LEMMA BidInRange ==
    ASSUME BidderTypeOK, NEW s \in Slots, bidPlan[s] # Suppressed
    PROVE  BidOf(s) \in Gwei
<1>1. bidPlan[s] \in Settings
  BY BidderAssumption DEF BidderTypeOK
<1>2. slots[s].count \in Nat
  BY DEF BidderTypeOK, SlotState
<1>3. Gwei \subseteq Nat
  BY BidderAssumption DEF Gwei
<1>4. Base(s) \in Gwei
  BY BaseInRange
<1>5. bidPlan[s].increase \in Nat
  BY <1>1, <1>3 DEF Settings
<1>6. MulGwei(slots[s].count, bidPlan[s].increase) \in Nat
  BY <1>2, <1>3, <1>5, GweiClosed
<1>7. AddGwei(Base(s), MulGwei(slots[s].count, bidPlan[s].increase)) \in Gwei
  BY <1>3, <1>4, <1>6, GweiClosed
<1> QED BY <1>4, <1>7 DEF BidOf

\* The clock is always in one of the slots.
LEMMA SlotOfTime ==
    ASSUME NEW c \in 0 .. MaxTime
    PROVE  c \div TicksPerSlot \in Slots
<1> DEFINE T == TicksPerSlot
           N == MaxSlot + 1
           q == c \div T
<1>1. /\ T \in Nat /\ T > 0
      /\ N \in Nat
      /\ c \in Nat
  BY BidderAssumption DEF MaxTime
<1>2. N * T \in Nat /\ c < N * T
  BY <1>1, BidderAssumption DEF MaxTime
<1>3. q \in Nat /\ q * T <= c
  <2> HIDE DEF N
  <2> QED BY <1>1, Z3
<1>4. q < N
  <2> HIDE DEF q, N, T
  <2> SUFFICES ASSUME q >= N PROVE FALSE
    BY <1>1, <1>3
  <2>1. \A x, y, z \in Nat : x >= y => x * z >= y * z
    BY Z3
  <2>2. q * T >= N * T
    BY <1>1, <1>3, <2>1
  <2>3. q * T \in Nat
    BY <1>1, <1>3
  <2> QED BY <1>1, <1>2, <1>3, <2>2, <2>3
<1> QED BY <1>3, <1>4, BidderAssumption DEF Slots

-----------------------------------------------------------------------------
(* Types.                                                                  *)

\* The check goes on to the next slot, or ends.
LEMMA ContinueType ==
    ASSUME NEW s \in Slots, NEW now \in 0 .. MaxTime, Continue(s, now)
    PROVE  bidding' \in [pc : {"idle", "check", "submit"}, slot : Slots,
                         now : 0 .. MaxTime, value : Gwei]
<1>1. 0 \in Gwei /\ 0 \in Slots /\ 0 \in 0 .. MaxTime
  BY BidderAssumption DEF Gwei, Slots, MaxTime
<1>2. s < MaxSlot => s + 1 \in Slots
  BY BidderAssumption DEF Slots
<1> QED BY <1>1, <1>2 DEF Continue, NoCheck

\* The state of a slot after a change of one of its fields.
LEMMA SlotStateType ==
    ASSUME NEW st \in SlotState, NEW now \in Nat, NEW b \in BOOLEAN
    PROVE  /\ [st EXCEPT !.closed = TRUE] \in SlotState
           /\ [st EXCEPT !.warned = @ \/ b] \in SlotState
           /\ [st EXCEPT !.last = now, !.count = @ + 1] \in SlotState
<1>1. st.count + 1 \in Nat
  BY DEF SlotState
<1>2. \A n \in Nat : [st EXCEPT !.last = now, !.count = n] \in SlotState
  BY DEF SlotState
<1>3. (st.warned \/ b) \in BOOLEAN
  BY DEF SlotState
<1> QED BY <1>1, <1>2, <1>3 DEF SlotState

\* A check keeps the types: the value it prepares to bid is in range.
LEMMA CheckSlotType ==
    ASSUME BidderTypeOK, NEW s \in Slots, NEW now \in 0 .. MaxTime, CheckSlot(s, now)
    PROVE  BidderTypeOK'
<1>1. bidding' \in [pc : {"idle", "check", "submit"}, slot : Slots, now : 0 .. MaxTime, value : Gwei]
  <2>1. CASE Open(s, now) /\ ~PrefsMissing(s) /\ Due(s)
    <3>1. BidOf(s) \in Gwei
      BY <2>1, BidInRange DEF Open
    <3> QED BY <2>1, <3>1 DEF CheckSlot
  <2>2. CASE ~(Open(s, now) /\ ~PrefsMissing(s) /\ Due(s))
    BY <2>2, ContinueType DEF CheckSlot
  <2> QED BY <2>1, <2>2
<1>2. slots' \in [Slots -> SlotState]
  <2> DEFINE w == Open(s, now) /\ PrefsMissing(s)
  <2>1. w \in BOOLEAN
    BY DEF Open, PrefsMissing
  <2>2. slots[s] \in SlotState /\ slots \in [Slots -> SlotState]
    BY DEF BidderTypeOK
  <2>3. [slots[s] EXCEPT !.warned = @ \/ w] \in SlotState
    <3> HIDE DEF w
    <3>1. (slots[s].warned \/ w) \in BOOLEAN
      OBVIOUS
    <3> QED BY <2>2, <3>1 DEF SlotState
  <2>4. slots' = [slots EXCEPT ![s] = [slots[s] EXCEPT !.warned = @ \/ w]]
    BY DEF CheckSlot
  <2> QED BY <2>2, <2>3, <2>4
<1> QED BY <1>1, <1>2 DEF BidderTypeOK, CheckSlot

\* A submission keeps the types, sent or not.
LEMMA SubmitType ==
    ASSUME BidderTypeOK, NEW s \in Slots, NEW now \in 0 .. MaxTime, NEW value \in Gwei,
           NEW sent \in BOOLEAN, Submit(s, now, value, sent)
    PROVE  BidderTypeOK'
<1>1. bidding' \in [pc : {"idle", "check", "submit"}, slot : Slots, now : 0 .. MaxTime, value : Gwei]
  BY ContinueType DEF Submit
<1>2. slots' \in [Slots -> SlotState]
  <2>1. now \in Nat /\ slots[s] \in SlotState
    BY DEF BidderTypeOK
  <2>2. Attempted(slots[s], now, sent) \in SlotState
    BY <2>1, SlotStateType DEF Attempted
  <2> QED BY <2>2 DEF BidderTypeOK, Submit
<1>3. records' \in [Slots -> Seq(Gwei)]
  <2>1. Append(records[s], value) \in Seq(Gwei)
    BY DEF BidderTypeOK
  <2> QED BY <2>1 DEF BidderTypeOK, Submit
<1>4. attempts' \in [Slots -> Nat]
  BY DEF BidderTypeOK, Submit
<1> QED BY <1>1, <1>2, <1>3, <1>4 DEF BidderTypeOK, Submit

\* The types hold initially.
LEMMA TypeInit ==
    ASSUME Init
    PROVE  BidderTypeOK
<1>1. 0 \in Gwei /\ 0 \in Slots /\ 0 \in 0 .. MaxTime
  BY BidderAssumption DEF Gwei, Slots, MaxTime
<1> QED BY <1>1 DEF Init, BidderTypeOK, NoCheck, SlotState

\* Every step of the loop and of its world keeps the types.
LEMMA TypeStep ==
    ASSUME BidderTypeOK, [Next]_vars
    PROVE  BidderTypeOK'
<1>1. CASE ClockTicks
  <2>1. MaxTime \in Int
    BY BidderAssumption DEF MaxTime
  <2>2. clock' \in 0 .. MaxTime
    BY <1>1, <2>1 DEF ClockTicks, BidderTypeOK
  <2> QED BY <1>1, <2>2 DEF BidderTypeOK, ClockTicks
<1>2. CASE ProcessTick
  <2>1. CASE bidding.pc = "idle" /\ CheckSlot(clock \div TicksPerSlot, clock)
    BY <2>1, SlotOfTime, CheckSlotType DEF BidderTypeOK
  <2>2. CASE bidding.pc = "check" /\ CheckSlot(bidding.slot, bidding.now)
    BY <2>2, CheckSlotType DEF BidderTypeOK
  <2>3. ASSUME NEW sent \in BOOLEAN, Submit(bidding.slot, bidding.now, bidding.value, sent)
        PROVE  BidderTypeOK'
    BY <2>3, SubmitType DEF BidderTypeOK
  <2> QED BY <1>2, <2>1, <2>2, <2>3 DEF ProcessTick
<1>3. ASSUME NEW s \in Slots, PayloadReady(s) \/ PreferencesArrive(s) \/ HeadFires(s)
      PROVE  BidderTypeOK'
  BY <1>3 DEF BidderTypeOK, PayloadReady, PreferencesArrive, HeadFires
<1>4. ASSUME NEW s \in Slots, OnHeadEvent(s) PROVE BidderTypeOK'
  <2>1. [slots[s] EXCEPT !.closed = TRUE] \in SlotState
    BY SlotStateType DEF BidderTypeOK
  <2> QED BY <1>4, <2>1 DEF BidderTypeOK, OnHeadEvent
<1>5. CASE UNCHANGED vars
  BY <1>5 DEF BidderTypeOK, vars
<1> QED BY <1>1, <1>2, <1>3, <1>4, <1>5 DEF Next

\* The bidder's types hold, amounts in the range of their integer included.
THEOREM BidderTypes == Spec => []BidderTypeOK
<1>1. Init => BidderTypeOK
  BY TypeInit
<1>2. BidderTypeOK /\ [Next]_vars => BidderTypeOK'
  BY TypeStep
<1> QED BY <1>1, <1>2, PTL DEF Spec

-----------------------------------------------------------------------------
(* One bid, and none after the head event.                                 *)

\* BidCount counts every attempt, and a submission under way is for a slot that was
\* still open to it when it was checked and, the loop being one goroutine, still is.
CountsAttempts == \A s \in Slots : slots[s].count = attempts[s]
SubmitsWhenDue ==
    bidding.pc = "submit" =>
        /\ bidPlan[bidding.slot] # Suppressed
        /\ ~slots[bidding.slot].closed
        /\ bidPlan[bidding.slot].interval = 0 => slots[bidding.slot].count = 0

BidderInv == BidderTypeOK /\ CountsAttempts /\ SubmitsWhenDue /\ OneBid

\* A check for a slot prepares a submission only where one is due.
LEMMA CheckSlotInv ==
    ASSUME BidderInv, NEW s \in Slots, NEW now \in 0 .. MaxTime, CheckSlot(s, now)
    PROVE  CountsAttempts' /\ SubmitsWhenDue' /\ OneBid'
<1>1. \A t \in Slots : slots'[t].count = slots[t].count /\ slots'[t].closed = slots[t].closed
  BY DEF CheckSlot, BidderInv, BidderTypeOK, SlotState
<1>2. CountsAttempts'
  BY <1>1 DEF CheckSlot, BidderInv, CountsAttempts
<1>3. SubmitsWhenDue'
  <2>1. CASE Open(s, now) /\ ~PrefsMissing(s) /\ Due(s)
    <3>1. /\ bidPlan[s] # Suppressed /\ ~slots[s].closed
          /\ bidPlan[s].interval = 0 => slots[s].count = 0
      BY <2>1 DEF Open, Due
    <3>2. bidding'.slot = s /\ bidPlan' = bidPlan
      BY <2>1 DEF CheckSlot
    <3> QED BY <1>1, <3>1, <3>2 DEF SubmitsWhenDue
  <2>2. CASE ~(Open(s, now) /\ ~PrefsMissing(s) /\ Due(s))
    BY <2>2 DEF CheckSlot, Continue, NoCheck, SubmitsWhenDue
  <2> QED BY <2>1, <2>2
<1>4. OneBid'
  BY DEF CheckSlot, BidderInv, OneBid
<1> QED BY <1>2, <1>3, <1>4

\* A submission adds the slot's only attempt where one is allowed.
LEMMA SubmitInv ==
    ASSUME BidderInv, bidding.pc = "submit", NEW sent \in BOOLEAN,
           Submit(bidding.slot, bidding.now, bidding.value, sent)
    PROVE  CountsAttempts' /\ SubmitsWhenDue' /\ OneBid'
<1> DEFINE s == bidding.slot
<1>1. s \in Slots /\ slots[s] \in SlotState /\ attempts \in [Slots -> Nat]
  BY DEF BidderInv, BidderTypeOK
<1>2. /\ slots'[s].count = slots[s].count + 1
      /\ \A t \in Slots \ {s} : slots'[t] = slots[t]
  BY <1>1 DEF Submit, Attempted, BidderInv, BidderTypeOK, SlotState
<1>3. /\ attempts'[s] = attempts[s] + 1
      /\ \A t \in Slots \ {s} : attempts'[t] = attempts[t]
      /\ bidPlan' = bidPlan
  BY <1>1 DEF Submit
<1>4. CountsAttempts'
  BY <1>1, <1>2, <1>3 DEF BidderInv, CountsAttempts
<1>5. SubmitsWhenDue'
  BY DEF Submit, Continue, NoCheck, SubmitsWhenDue
<1>6. OneBid'
  <2>1. bidPlan[s].interval = 0 => attempts[s] = 0
    BY <1>1 DEF BidderInv, SubmitsWhenDue, CountsAttempts
  <2> QED BY <1>1, <1>3, <2>1 DEF BidderInv, OneBid
<1> QED BY <1>4, <1>5, <1>6

\* The invariant is inductive.
LEMMA InvStep ==
    ASSUME BidderInv, [Next]_vars
    PROVE  BidderInv'
<1>1. BidderTypeOK'
  BY TypeStep DEF BidderInv
<1>2. CountsAttempts' /\ SubmitsWhenDue' /\ OneBid'
  <2>1. CASE ClockTicks
    BY <2>1 DEF ClockTicks, BidderInv, CountsAttempts, SubmitsWhenDue, OneBid
  <2>2. CASE ProcessTick
    <3>1. CASE bidding.pc = "idle" /\ CheckSlot(clock \div TicksPerSlot, clock)
      BY <3>1, SlotOfTime, CheckSlotInv DEF BidderInv, BidderTypeOK
    <3>2. CASE bidding.pc = "check" /\ CheckSlot(bidding.slot, bidding.now)
      BY <3>2, CheckSlotInv DEF BidderInv, BidderTypeOK
    <3>3. ASSUME bidding.pc = "submit", NEW sent \in BOOLEAN,
                 Submit(bidding.slot, bidding.now, bidding.value, sent)
          PROVE  CountsAttempts' /\ SubmitsWhenDue' /\ OneBid'
      BY <3>3, SubmitInv
    <3> QED BY <2>2, <3>1, <3>2, <3>3 DEF ProcessTick
  <2>3. ASSUME NEW s \in Slots, PayloadReady(s) \/ PreferencesArrive(s) \/ HeadFires(s)
        PROVE  CountsAttempts' /\ SubmitsWhenDue' /\ OneBid'
    BY <2>3 DEF PayloadReady, PreferencesArrive, HeadFires, BidderInv, CountsAttempts,
                SubmitsWhenDue, OneBid
  <2>4. ASSUME NEW s \in Slots, OnHeadEvent(s)
        PROVE  CountsAttempts' /\ SubmitsWhenDue' /\ OneBid'
    <3>1. \A t \in Slots : slots'[t].count = slots[t].count
      BY <2>4 DEF OnHeadEvent, BidderInv, BidderTypeOK, SlotState
    <3>2. bidding'.pc = "idle" /\ bidPlan' = bidPlan /\ attempts' = attempts
      BY <2>4 DEF OnHeadEvent
    <3> QED BY <3>1, <3>2 DEF BidderInv, CountsAttempts, SubmitsWhenDue, OneBid
  <2>5. CASE UNCHANGED vars
    BY <2>5 DEF vars, BidderInv, CountsAttempts, SubmitsWhenDue, OneBid
  <2> QED BY <2>1, <2>2, <2>3, <2>4, <2>5 DEF Next
<1> QED BY <1>1, <1>2 DEF BidderInv

\* The invariant holds throughout.
THEOREM BidderInvariant == Spec => []BidderInv
<1>1. Init => CountsAttempts /\ SubmitsWhenDue /\ OneBid
  BY DEF Init, NoCheck, CountsAttempts, SubmitsWhenDue, OneBid
<1>2. Init => BidderTypeOK
  BY TypeInit
<1>3. BidderInv /\ [Next]_vars => BidderInv'
  BY InvStep
<1> QED BY <1>1, <1>2, <1>3, PTL DEF Spec, BidderInv

\* In single-bid mode the loop attempts one bid for a slot, whatever becomes of it.
THEOREM SingleBid == Spec => []OneBid
<1>1. BidderInv => OneBid
  BY DEF BidderInv
<1> QED BY <1>1, BidderInvariant, PTL

\* No bid is sent for a slot once its head event has been handled.
THEOREM NoLateBid == Spec => NoBidOnceClosed
<1>1. ASSUME BidderInv, [Next]_vars
      PROVE  [\A s \in Slots : slots[s].closed => records'[s] = records[s]]_vars
  <2> SUFFICES ASSUME Next, NEW s \in Slots, slots[s].closed
               PROVE  records'[s] = records[s]
    BY <1>1
  <2>1. CASE ProcessTick
    <3>1. ASSUME bidding.pc = "submit", NEW sent \in BOOLEAN,
                 Submit(bidding.slot, bidding.now, bidding.value, sent)
          PROVE  records'[s] = records[s]
      <4>1. s # bidding.slot
        BY <1>1, <3>1 DEF BidderInv, SubmitsWhenDue
      <4> QED BY <1>1, <3>1, <4>1 DEF Submit, BidderInv, BidderTypeOK
    <3> QED BY <2>1, <3>1 DEF ProcessTick, CheckSlot
  <2>2. CASE ClockTicks
    BY <2>2 DEF ClockTicks
  <2>3. CASE \E t \in Slots : PayloadReady(t) \/ PreferencesArrive(t) \/ HeadFires(t) \/ OnHeadEvent(t)
    BY <2>3 DEF PayloadReady, PreferencesArrive, HeadFires, OnHeadEvent
  <2> QED BY <2>1, <2>2, <2>3 DEF Next
<1> QED BY <1>1, BidderInvariant, PTL DEF Spec, NoBidOnceClosed

-----------------------------------------------------------------------------
(* Bids rise.                                                              *)

\* What the k-th re-bid of a slot amounts to.
BidAt(s, k) ==
    IF bidPlan[s].interval > 0 THEN AddGwei(Base(s), MulGwei(k, bidPlan[s].increase)) ELSE Base(s)

\* w is a bid after v that does not compete with it downwards.
Rises(s, v, w) == v < w \/ (v = w /\ (v = MaxGwei \/ bidPlan[s].increase = 0))

\* Every bid on record is that of an earlier attempt, the one under way that of the next.
RecordsAttempts ==
    \A s \in Slots : \A i \in DOMAIN records[s] :
        \E k \in Nat : k < slots[s].count /\ records[s][i] = BidAt(s, k)
SubmitsBid == bidding.pc = "submit" => bidding.value = BidAt(bidding.slot, slots[bidding.slot].count)

RisingInv == RecordsAttempts /\ SubmitsBid /\ BidsRise

\* Clamped sums of a base and growing multiples grow, until they stay at the limit.
LEMMA ClampedRise ==
    ASSUME NEW b \in Gwei, NEW inc \in Gwei, NEW k \in Nat, NEW m \in Nat, k < m
    PROVE  LET v == AddGwei(b, MulGwei(k, inc))
               w == AddGwei(b, MulGwei(m, inc))
           IN  v < w \/ (v = w /\ (v = MaxGwei \/ inc = 0))
<1>1. b \in Nat /\ inc \in Nat /\ MaxGwei \in Nat /\ b <= MaxGwei
  BY BidderAssumption DEF Gwei
<1>2. PICK x \in Nat, y \in Nat : x = k * inc /\ y = m * inc
  BY <1>1
<1>3. (inc = 0 /\ x = 0 /\ y = 0) \/ x < y
  <2>1. CASE inc = 0
    BY <1>2, <2>1
  <2>2. CASE inc > 0
    <3>1. PICK d \in Nat : m = k + 1 + d
      <4> WITNESS m - k - 1 \in Nat
      <4> QED OBVIOUS
    <3>2. m * inc = k * inc + inc + d * inc
      BY <1>1, <3>1
    <3>3. d * inc \in Nat
      BY <1>1
    <3> QED BY <1>1, <1>2, <2>2, <3>2, <3>3
  <2> QED BY <1>1, <2>1, <2>2
<1>4. /\ MulGwei(k, inc) = (IF x > MaxGwei THEN MaxGwei ELSE x)
      /\ MulGwei(m, inc) = (IF y > MaxGwei THEN MaxGwei ELSE y)
  BY <1>2 DEF MulGwei
<1> QED BY <1>1, <1>3, <1>4 DEF AddGwei

\* So a later attempt's bid does not fall behind an earlier one's.
LEMMA LaterBidRises ==
    ASSUME BidderTypeOK, NEW s \in Slots, bidPlan[s] # Suppressed, bidPlan[s].interval > 0,
           NEW k \in Nat, NEW m \in Nat, k < m
    PROVE  Rises(s, BidAt(s, k), BidAt(s, m))
<1>1. bidPlan[s] \in Settings
  BY BidderAssumption DEF BidderTypeOK
<1>2. bidPlan[s].increase \in Gwei
  BY <1>1 DEF Settings
<1>3. Base(s) \in Gwei
  BY BaseInRange
<1> QED BY <1>2, <1>3, ClampedRise DEF BidAt, Rises

\* The steps that neither attempt nor record anything.
LEMMA RisingKept ==
    ASSUME RisingInv, bidPlan' = bidPlan, records' = records,
           \A s \in Slots : slots'[s].count = slots[s].count,
           SubmitsBid'
    PROVE  RisingInv'
<1>1. \A s, k : BidAt(s, k)' = BidAt(s, k)
  BY DEF BidAt, Base
<1>2. RecordsAttempts'
  BY <1>1 DEF RisingInv, RecordsAttempts
<1>3. BidsRise'
  BY DEF RisingInv, BidsRise
<1> QED BY <1>2, <1>3 DEF RisingInv

\* A check computes the bid of the attempt to come.
LEMMA CheckSlotRising ==
    ASSUME BidderInv, RisingInv, NEW s \in Slots, NEW now \in 0 .. MaxTime, CheckSlot(s, now)
    PROVE  RisingInv'
<1>1. \A t \in Slots : slots'[t].count = slots[t].count
  BY DEF CheckSlot, BidderInv, BidderTypeOK, SlotState
<1>2. bidPlan' = bidPlan /\ records' = records
  BY DEF CheckSlot
<1>3. \A k : BidAt(s, k)' = BidAt(s, k)
  BY <1>2 DEF BidAt, Base
<1>4. SubmitsBid'
  <2>1. CASE bidding' = [pc |-> "submit", slot |-> s, now |-> now, value |-> BidOf(s)]
    <3>1. bidding'.slot = s /\ bidding'.value = BidAt(s, slots[s].count)
      BY <2>1 DEF BidOf, BidAt
    <3> QED BY <1>1, <1>2, <3>1 DEF SubmitsBid, BidAt, Base
  <2>2. CASE Continue(s, now)
    BY <2>2 DEF Continue, NoCheck, SubmitsBid
  <2> QED BY <2>1, <2>2 DEF CheckSlot
<1> QED BY <1>1, <1>2, <1>4, RisingKept

\* A submission's bid rises above all earlier ones.
LEMMA SubmitRising ==
    ASSUME BidderInv, RisingInv, bidding.pc = "submit", NEW sent \in BOOLEAN,
           Submit(bidding.slot, bidding.now, bidding.value, sent)
    PROVE  RisingInv'
<1>1. PICK s \in Slots : s = bidding.slot
  BY DEF BidderInv, BidderTypeOK
<1>2. PICK n \in Nat : n = slots[s].count
  BY DEF BidderInv, BidderTypeOK, SlotState
<1>3. PICK v \in Gwei : v = bidding.value
  BY DEF BidderInv, BidderTypeOK
<1>4. /\ slots'[s].count = n + 1
      /\ \A t \in Slots \ {s} : slots'[t] = slots[t]
  BY <1>1, <1>2 DEF Submit, Attempted, BidderInv, BidderTypeOK, SlotState
<1>5. bidPlan' = bidPlan /\ bidPlan[s] # Suppressed /\ v = BidAt(s, n)
  BY <1>1, <1>2, <1>3 DEF Submit, BidderInv, SubmitsWhenDue, RisingInv, SubmitsBid
<1>6. \A t, k : BidAt(t, k)' = BidAt(t, k)
  BY <1>5 DEF BidAt, Base
<1>7. SubmitsBid'
  BY DEF Submit, Continue, NoCheck, SubmitsBid
<1>8. /\ records \in [Slots -> Seq(Gwei)]
      /\ records' = IF sent THEN [records EXCEPT ![s] = Append(records[s], v)] ELSE records
  BY <1>1, <1>3 DEF Submit, BidderInv, BidderTypeOK
<1>9. /\ \A t \in Slots \ {s} : records'[t] = records[t]
      /\ \A i \in DOMAIN records'[s] :
           (i \in DOMAIN records[s] /\ records'[s][i] = records[s][i])
           \/ (records'[s][i] = v /\ \A j \in DOMAIN records'[s] : j # i => j < i /\ j \in DOMAIN records[s])
  BY <1>8
<1>10. \A i \in DOMAIN records[s] : Rises(s, records[s][i], v)
  <2> TAKE i \in DOMAIN records[s]
  <2>1. PICK k \in Nat : k < n /\ records[s][i] = BidAt(s, k)
    BY <1>2 DEF RisingInv, RecordsAttempts
  <2>2. bidPlan[s].interval > 0
    <3>1. bidPlan[s] \in Settings
      BY <1>5, BidderAssumption DEF BidderInv, BidderTypeOK
    <3>2. bidPlan[s].interval # 0
      BY <1>1, <1>2, <2>1 DEF BidderInv, SubmitsWhenDue
    <3> QED BY <3>1, <3>2 DEF Settings
  <2> QED BY <1>5, <2>1, <2>2, LaterBidRises DEF BidderInv
<1>11. RecordsAttempts'
  <2> SUFFICES ASSUME NEW t \in Slots, NEW i \in DOMAIN records'[t]
               PROVE  \E k \in Nat : k < slots'[t].count /\ records'[t][i] = BidAt(t, k)
    BY <1>6 DEF RecordsAttempts
  <2>1. CASE t # s
    BY <1>4, <1>9, <2>1 DEF RisingInv, RecordsAttempts
  <2>2. CASE t = s /\ records'[s][i] = v
    <3> WITNESS n \in Nat
    <3> QED BY <1>4, <1>5, <2>2
  <2>3. CASE t = s /\ i \in DOMAIN records[s] /\ records'[s][i] = records[s][i]
    <3>1. PICK k \in Nat : k < n /\ records[s][i] = BidAt(s, k)
      BY <1>2, <2>3 DEF RisingInv, RecordsAttempts
    <3> WITNESS k \in Nat
    <3> QED BY <1>4, <2>3, <3>1
  <2> QED BY <1>9, <2>1, <2>2, <2>3
<1>12. BidsRise'
  <2>1. \A t \in Slots : \A i, j \in DOMAIN records[t] : i < j => Rises(t, records[t][i], records[t][j])
    BY DEF RisingInv, BidsRise, Rises
  <2> SUFFICES ASSUME NEW t \in Slots, NEW i \in DOMAIN records'[t], NEW j \in DOMAIN records'[t], i < j
               PROVE  Rises(t, records'[t][i], records'[t][j])
    BY <1>5 DEF BidsRise, Rises
  <2>2. CASE t # s
    BY <1>9, <2>1, <2>2
  <2>3. CASE t = s
    <3>1. DOMAIN records'[s] \subseteq Nat
      BY <1>8
    <3>2. i \in DOMAIN records[s] /\ records'[s][i] = records[s][i]
      BY <1>9, <2>3, <3>1
    <3>3. CASE records'[s][j] = v
      BY <1>10, <2>3, <3>2, <3>3
    <3>4. CASE j \in DOMAIN records[s] /\ records'[s][j] = records[s][j]
      BY <2>1, <2>3, <3>2, <3>4
    <3> QED BY <1>9, <2>3, <3>3, <3>4
  <2> QED BY <2>2, <2>3
<1> QED BY <1>7, <1>11, <1>12 DEF RisingInv

\* The invariant is inductive.
LEMMA RisingStep ==
    ASSUME BidderInv, RisingInv, [Next]_vars
    PROVE  RisingInv'
<1>1. CASE ProcessTick
  <2>1. CASE bidding.pc = "idle" /\ CheckSlot(clock \div TicksPerSlot, clock)
    BY <2>1, SlotOfTime, CheckSlotRising DEF BidderInv, BidderTypeOK
  <2>2. CASE bidding.pc = "check" /\ CheckSlot(bidding.slot, bidding.now)
    BY <2>2, CheckSlotRising DEF BidderInv, BidderTypeOK
  <2>3. ASSUME bidding.pc = "submit", NEW sent \in BOOLEAN,
               Submit(bidding.slot, bidding.now, bidding.value, sent)
        PROVE  RisingInv'
    BY <2>3, SubmitRising
  <2> QED BY <1>1, <2>1, <2>2, <2>3 DEF ProcessTick
<1>2. CASE UNCHANGED <<bidPlan, slots, bidding, records>>
  <2>1. SubmitsBid'
    BY <1>2 DEF RisingInv, SubmitsBid, BidAt, Base
  <2> QED BY <1>2, <2>1, RisingKept
<1>3. ASSUME NEW s \in Slots, OnHeadEvent(s) PROVE RisingInv'
  <2>1. \A t \in Slots : slots'[t].count = slots[t].count
    BY <1>3 DEF OnHeadEvent, BidderInv, BidderTypeOK, SlotState
  <2>2. bidding'.pc = "idle" /\ bidPlan' = bidPlan /\ records' = records
    BY <1>3 DEF OnHeadEvent
  <2>3. SubmitsBid'
    BY <2>2 DEF SubmitsBid
  <2> QED BY <2>1, <2>2, <2>3, RisingKept
<1> QED BY <1>1, <1>2, <1>3 DEF Next, ClockTicks, PayloadReady, PreferencesArrive, HeadFires, vars

\* Bids for a slot never fall, whatever the plan, the amounts and the failed attempts in
\* between; they stay level only at the largest amount or without an increase.
THEOREM BidsNeverFall == Spec => []BidsRise
<1>1. Init => RisingInv
  BY DEF Init, NoCheck, RisingInv, RecordsAttempts, SubmitsBid, BidsRise
<1>2. BidderInv /\ RisingInv /\ [Next]_vars => RisingInv'
  BY RisingStep
<1>3. RisingInv => BidsRise
  BY DEF RisingInv
<1> QED BY <1>1, <1>2, <1>3, BidderInvariant, PTL DEF Spec

=============================================================================
