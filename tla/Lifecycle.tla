----------------------------- MODULE Lifecycle -----------------------------
(***************************************************************************)
(* pkg/lifecycle: the manager's goroutine onboards the builder before the  *)
(* Gloas fork with a validator deposit that the fork turns into a builder, *)
(* or after it with a builder deposit, and then keeps its balance up; the  *)
(* web UI asks for a deposit, for top-ups and for the exit.  Both go       *)
(* through the wallet.                                                     *)
(*                                                                         *)
(*   now        the slot                                                   *)
(*   queue      the beacon state's pending_deposits: whether ours, amount  *)
(*              and slot; up to the fork                                   *)
(*   dbtc       deposit_balance_to_consume, likewise                       *)
(*   finalized  the finalized epoch, likewise                              *)
(*   entry      what the chain has made of our key                         *)
(*   headState  of the last block: its epoch, queue, dbtc and entry        *)
(*   stats      the chain service's EpochStats: the epoch they are filed   *)
(*              under and what the manager asks of them                    *)
(*   event      the subscription of maybeEarlyOnboard holds an event       *)
(*   thread     the manager and the web UI: where each is, and the wallet  *)
(*              call it waits for                                          *)
(*   purpose    what each wallet call is for                               *)
(*   lastTopup  lastTopupEpoch                                             *)
(*   restarts   how often the process was started again                    *)
(*   blind      history: an early deposit was decided on stats that are    *)
(*              filed under a later epoch than their state's               *)
(*                                                                         *)
(* Whether the balance is low, payments are owed, a fee is too high or the *)
(* manager is switched off is open at each step.                           *)
(***************************************************************************)
EXTENDS Wallet, SequencesExt

CONSTANTS
    SlotsPerEpoch,
    ForkEpoch,              \* Gloas
    MaxSlot,                \* bound: the clock stops here
    MaxRestarts,            \* bound
    MinEarlyOnboardSlots,   \* minEarlyOnboardSlots (10)
    FinalizationMargin,     \* earlyOnboardFinalizationMargin (4)
    TopupCooldown,          \* topupCooldownEpochs (8)
    MaxPerEpoch,            \* MAX_PENDING_DEPOSITS_PER_EPOCH
    ActiveBalance, MinChurn, ChurnQuotient, MaxChurn, Increment,
    Amount,                 \* DepositAmount
    Queues                  \* the amounts pending at the start

ASSUME LifecycleAssumption ==
    /\ {SlotsPerEpoch, ForkEpoch, MaxPerEpoch, ChurnQuotient, Increment} \subseteq Nat \ {0}
    /\ {MaxSlot, MaxRestarts, MinEarlyOnboardSlots, FinalizationMargin, TopupCooldown} \subseteq Nat
    /\ {ActiveBalance, MinChurn, MaxChurn, Amount} \subseteq Nat
    /\ \A q \in Queues : q \in Seq(Nat)

VARIABLES now, queue, dbtc, finalized, entry, headState, stats, event, thread, purpose, lastTopup, restarts, blind

chainVars == <<now, queue, dbtc, finalized, entry, headState>>
vars == <<walletVars, chainVars, stats, event, thread, purpose, lastTopup, restarts, blind>>

Epoch(slot) == slot \div SlotsPerEpoch
ForkSlot == ForkEpoch * SlotsPerEpoch

-----------------------------------------------------------------------------
(* The deposit queue.                                                      *)

Sums(amounts) ==
    LET sum[i \in 0 .. Len(amounts)] == IF i = 0 THEN 0 ELSE sum[i - 1] + amounts[i]
    IN  sum

\* What the n entries after the first head ones come to.
Total(amounts, head, n) == Sums(amounts)[head + n] - Sums(amounts)[head]

\* How many of the entries after head, up to the last one that may be, one epoch
\* processes.
Fits(amounts, head, last, budget) ==
    Max({n \in 0 .. MaxPerEpoch : head + n <= last /\ Total(amounts, head, n) <= budget})

\* The budget, not the count, stopped it.
ChurnLimited(head, last, n) == head + n < last /\ n < MaxPerEpoch

\* activationExitChurnLimit.
ChurnLimit ==
    LET churn == Max({ActiveBalance \div ChurnQuotient, MinChurn})
        whole == churn - (churn % Increment)
    IN  IF MaxChurn > 0 THEN Min({whole, MaxChurn}) ELSE whole

\* Mutant of Carried: what one epoch leaves is forgotten.
CarriedNothing(amounts, head, last, n, budget) == 0

\* The balance left over for the next epoch in the simulation.
Carried(amounts, head, last, n, budget) ==
    IF ChurnLimited(head, last, n) THEN budget - Total(amounts, head, n) ELSE 0

\* One transition of the simulation: the entries drained so far and the balance.
Drained(amounts, last, r) ==
    LET budget == r.dbtc + ChurnLimit
        n == Fits(amounts, r.head, last, budget)
    IN  [head |-> r.head + n, dbtc |-> Carried(amounts, r.head, last, n, budget)]

\* The simulation after each number of transitions, finality aside.
Simulated(amounts, last, carry) ==
    LET after[t \in 0 .. ForkEpoch] ==
            IF t = 0 THEN [head |-> 0, dbtc |-> carry] ELSE Drained(amounts, last, after[t - 1])
    IN  after

\* simulateDepositSurvives: our deposit at the end of the queue is still there when the
\* fork comes.
DepositSurvives(amounts, carry, transitions) ==
    LET sim == Append(amounts, Amount) IN
    Simulated(sim, Len(sim), carry)[transitions].head < Len(sim)

-----------------------------------------------------------------------------
(* The chain: external.                                                    *)

Amounts(q) == [i \in DOMAIN q |-> q[i].amount]
Ours(q) == \E i \in DOMAIN q : q[i].ours

\* process_pending_deposits on the way into an epoch: it stops at the first entry of a
\* slot that is not final.
Final(f) == Max({k \in 0 .. Len(queue) : \A i \in 1 .. k : queue[i].slot <= f * SlotsPerEpoch})
Processed(f) ==
    LET n == Fits(Amounts(queue), 0, Final(f), dbtc + ChurnLimit)
    IN  [queue |-> SubSeq(queue, n + 1, Len(queue)),
         dbtc |-> IF ChurnLimited(0, Final(f), n) THEN dbtc + ChurnLimit - Total(Amounts(queue), 0, n) ELSE 0,
         drained |-> Ours(SubSeq(queue, 1, n))]

\* The state of a block of this slot.
Current == [epoch |-> Epoch(now), queue |-> queue, dbtc |-> dbtc, entry |-> entry]

\* The next slot, which may stay empty.  Finality is two epochs behind, or does not advance.  At the fork, after
\* the queue is processed, a pending deposit of ours becomes a builder.
Tick ==
    /\ now < MaxSlot
    /\ now' = now + 1
    /\ IF Epoch(now') = Epoch(now) \/ Epoch(now) >= ForkEpoch
       THEN UNCHANGED <<queue, dbtc, finalized, entry>>
       ELSE \E f \in {finalized, Max({Epoch(now') - 2, finalized})} :
              LET p == Processed(f) IN
              /\ finalized' = IF Epoch(now') = ForkEpoch THEN 0 ELSE f
              /\ queue' = IF Epoch(now') = ForkEpoch THEN <<>> ELSE p.queue
              /\ dbtc' = IF Epoch(now') = ForkEpoch THEN 0 ELSE p.dbtc
              /\ entry' = IF p.drained THEN "validator"
                          ELSE IF Epoch(now') = ForkEpoch /\ Ours(p.queue) THEN "converted" ELSE entry
    /\ UNCHANGED <<walletVars, headState, stats, event, thread, purpose, lastTopup, restarts, blind>>

\* A block that has nothing of ours.
Block ==
    /\ headState # Current /\ headState' = Current
    /\ UNCHANGED <<walletVars, now, queue, dbtc, finalized, entry>>
    /\ UNCHANGED <<stats, event, thread, purpose, lastTopup, restarts, blind>>

\* A transaction of the account is mined, after the genesis block; a successful one has
\* its effect.
MineTx ==
    /\ now > 0
    /\ \E ok \in BOOLEAN :
         /\ Mine(ok)
         /\ LET c == chain'[Len(chain')].of
                what == IF c = Foreign \/ ~ok THEN "none" ELSE purpose[c]
            IN  /\ c = Foreign => ok
                /\ queue' = IF what = "early" /\ now < ForkSlot
                            THEN Append(queue, [ours |-> TRUE, amount |-> Amount, slot |-> now]) ELSE queue
                /\ entry' \in CASE what = "deposit" /\ entry = "none" -> {"active"}
                                [] what = "exit" /\ entry \in {"active", "converted"} -> {"exited", entry}
                                [] OTHER -> {entry}
         /\ UNCHANGED <<now, dbtc, finalized, stats, event, thread, purpose, lastTopup, restarts, blind>>
         /\ headState' = Current'

AccountStep ==
    /\ DropTx \/ ForeignTx
    /\ UNCHANGED <<chainVars, stats, event, thread, purpose, lastTopup, restarts, blind>>

-----------------------------------------------------------------------------
(* What the process knows of the chain.                                    *)

\* The facts the manager takes from EpochStats, which are those of the head's state,
\* filed under an epoch: GetBuilderByPubkey (the registry exists from Gloas on),
\* HasBuilderExited, HasPendingDeposit, depositSurvivesUntilFork.
StatsAs(epoch) ==
    [epoch    |-> epoch,
     fresh    |-> epoch <= headState.epoch,
     gloas    |-> headState.epoch >= ForkEpoch,
     known    |-> headState.epoch >= ForkEpoch /\ headState.entry \in {"converted", "active", "exited"},
     exited   |-> headState.entry = "exited",
     pending  |-> Ours(headState.queue),
     survives |-> epoch < ForkEpoch /\ DepositSurvives(Amounts(headState.queue), headState.dbtc, ForkEpoch - epoch)]

\* A head event of a later epoch than the one the stats are filed under: its state is
\* loaded and announced.
LoadStats ==
    /\ stats.epoch < headState.epoch
    /\ stats' = StatsAs(headState.epoch)
    /\ event' = (thread["manager"].pc \in {"evaluate", "await", "early"})
    /\ UNCHANGED <<walletVars, chainVars, thread, purpose, lastTopup, restarts, blind>>

-----------------------------------------------------------------------------
(* The two threads.                                                        *)

others == <<chainVars, stats, lastTopup, restarts, blind>>
idle == <<walletVars, purpose>>

At(pc) == [pc |-> pc, call |-> Foreign]
Goes(t, pc) == thread' = [thread EXCEPT ![t] = At(pc)]

\* A thread hands the wallet a transaction and waits.
Hands(t, what) ==
    \E c \in {c \in Calls : call[c].pc = "idle" /\ \A d \in 1 .. c - 1 : call[d].pc # "idle"} :
      /\ SendAndConfirm(c)
      /\ purpose' = [purpose EXCEPT ![c] = what]
      /\ thread' = [thread EXCEPT ![t] = [pc |-> what, call |-> c]]

Answered(t, what) == thread[t].pc = what /\ Returned(thread[t].call)
Succeeded(t) == call[thread[t].call].pc = "included"

\* ReadQueueFee: the builder contracts are there from the fork on.
ContractActive == now >= ForkSlot

\* The transactions.  A deposit is refused for an exited entry, and can be while its fee
\* is high; an exit is not.
CreateEarlyDeposit == Hands("manager", "early")
CreateDeposit(t, what) == ~(stats.known /\ stats.exited) /\ ContractActive /\ Hands(t, what)
CreateExit == ContractActive /\ Hands("ui", "exit")

WalletActs ==
    /\ \E c \in Calls : WalletStep(c)
    /\ UNCHANGED <<others, event, thread, purpose>>

-----------------------------------------------------------------------------
(* The manager before the fork.                                            *)

\* maybeEarlyOnboard.
Start ==
    /\ thread["manager"].pc = "start"
    /\ Goes("manager", IF Epoch(now) >= ForkEpoch \/ stats.known THEN "gloas" ELSE "evaluate")
    /\ event' = FALSE
    /\ UNCHANGED <<idle, others>>

EpochsUntilFork == ForkEpoch - Epoch(now)
EarlyOver == stats.known \/ Epoch(now) >= ForkEpoch

\* The two windows of tryEarlyOnboardOnce.
LastSafeEpoch == (EpochsUntilFork - 1) * SlotsPerEpoch < MinEarlyOnboardSlots
ShouldDeposit == LastSafeEpoch \/ (EpochsUntilFork >= FinalizationMargin /\ stats.survives)

\* Where tryEarlyOnboardOnce leads: the post-fork flow, the wait for our deposit's
\* conversion, the deposit, or the next epoch.
Evaluation ==
    IF EarlyOver THEN "gloas"
    ELSE IF stats.pending THEN "earlyWait"
    ELSE IF ForkSlot - now < MinEarlyOnboardSlots THEN "gloas"
    ELSE IF ShouldDeposit THEN "early" ELSE "await"

\* tryEarlyOnboardOnce.  Switched off, the manager waits too.
TryEarlyOnboardOnce ==
    /\ thread["manager"].pc = "evaluate"
    /\ \/ \E pc \in {"await", Evaluation} \ {"early"} : Goes("manager", pc) /\ UNCHANGED idle
       \/ Evaluation = "early" /\ CreateEarlyDeposit
    /\ event' = (event /\ thread'["manager"].pc \in {"await", "early"})
    /\ blind' = (blind \/ (thread'["manager"].pc = "early" /\ ~LastSafeEpoch /\ ~stats.fresh))
    /\ UNCHANGED <<chainVars, stats, lastTopup, restarts>>

NextEpoch ==
    /\ thread["manager"].pc = "await" /\ event
    /\ event' = FALSE /\ Goes("manager", "evaluate")
    /\ UNCHANGED <<idle, others>>

\* CreateEarlyDeposit returns; what failed is tried again in the next epoch.
EarlyReturns ==
    /\ Answered("manager", "early")
    /\ Goes("manager", IF Succeeded("manager") THEN "earlyWait" ELSE "await")
    /\ event' = (event /\ ~Succeeded("manager"))
    /\ UNCHANGED <<idle, others>>

\* WaitForRegistration: every slot the head's state is fetched, and filed under the epoch
\* the chain service is at.
WaitForRegistration(t, pc, next) ==
    /\ thread[t].pc = pc
    /\ stats' = StatsAs(stats.epoch)
    /\ IF stats'.known THEN Goes(t, next) ELSE UNCHANGED thread
    /\ UNCHANGED <<idle, event, chainVars, lastTopup, restarts, blind>>

\* waitForEarlyRegistration gives up.
EarlyWaitTimeout ==
    /\ thread["manager"].pc = "earlyWait" /\ Epoch(now) >= ForkEpoch + FinalizationMargin
    /\ Goes("manager", "gloas")
    /\ UNCHANGED <<idle, event, others>>

-----------------------------------------------------------------------------
(* The manager after the fork.                                             *)

\* Mutant of WaitForGloasState: the fork's epoch is enough.
WaitForGloasEpoch ==
    /\ thread["manager"].pc = "gloas" /\ Epoch(now) >= ForkEpoch
    /\ Goes("manager", "check")
    /\ UNCHANGED <<idle, event, others>>

WaitForGloasState ==
    /\ thread["manager"].pc = "gloas" /\ stats.gloas
    /\ Goes("manager", "check")
    /\ UNCHANGED <<idle, event, others>>

\* EnsureBuilderRegistered, by the manager, which repeats it while CreateDeposit is
\* refused, and for a request of the web UI, which asks whatever state is loaded.
EnsureBuilderRegistered(t, from, registered) ==
    /\ thread[t].pc = from
    /\ \/ stats.known /\ Goes(t, registered) /\ UNCHANGED idle
       \/ ~stats.known /\ CreateDeposit(t, "deposit")
    /\ UNCHANGED <<event, others>>

DepositReturns(t, failed) ==
    /\ Answered(t, "deposit")
    /\ Goes(t, IF Succeeded(t) THEN "wait" ELSE failed)
    /\ UNCHANGED <<idle, event, others>>

WaitTimeout(t, to) ==
    /\ thread[t].pc = "wait"
    /\ Goes(t, to)
    /\ UNCHANGED <<idle, event, others>>

-----------------------------------------------------------------------------
(* Top-ups, by the manager's monitor and the web UI, and the exit.         *)

\* NeedsTopup, with the balance low.
NeedsTopup ==
    /\ stats.known /\ ~stats.exited
    /\ lastTopup # 0 => Epoch(now) >= lastTopup + TopupCooldown

CheckAndTopup(t, from) ==
    /\ thread[t].pc = from /\ NeedsTopup
    /\ CreateDeposit(t, "topup")
    /\ UNCHANGED <<event, others>>

TopupReturns(t, to) ==
    /\ Answered(t, "topup")
    /\ lastTopup' = IF Succeeded(t) THEN Epoch(now) ELSE lastTopup
    /\ Goes(t, to)
    /\ UNCHANGED <<idle, event, chainVars, stats, restarts, blind>>

\* InitiateExit, with no payments pending.
InitiateExit ==
    /\ thread["ui"].pc = "none" /\ stats.known /\ ~stats.exited
    /\ CreateExit
    /\ UNCHANGED <<event, others>>

ExitReturns ==
    /\ Answered("ui", "exit")
    /\ Goes("ui", "none")
    /\ UNCHANGED <<idle, event, others>>

-----------------------------------------------------------------------------
(* The specification.                                                      *)

Begun == [manager |-> At("start"), ui |-> At("none")]

\* fetchCurrentEpochState files the head's state under the epoch of the clock.
Restart ==
    /\ restarts < MaxRestarts /\ restarts' = restarts + 1
    /\ WalletStops
    /\ stats' = StatsAs(Epoch(now)) /\ event' = FALSE
    /\ thread' = Begun /\ lastTopup' = 0
    /\ UNCHANGED <<chainVars, purpose, blind>>

\* The program is up when the chain starts; a later first start is a restart.
Init ==
    /\ WalletInit
    /\ now = 0 /\ dbtc = 0 /\ finalized = 0 /\ entry = "none"
    /\ \E q \in Queues : queue = [i \in DOMAIN q |-> [ours |-> FALSE, amount |-> q[i], slot |-> 0]]
    /\ headState = Current /\ stats = StatsAs(0) /\ event = FALSE
    /\ thread = Begun
    /\ purpose = [c \in Calls |-> "none"]
    /\ lastTopup = 0 /\ restarts = 0 /\ blind = FALSE

ManagerStep ==
    \/ Start \/ TryEarlyOnboardOnce \/ NextEpoch \/ EarlyReturns
    \/ WaitForRegistration("manager", "earlyWait", "gloas") \/ EarlyWaitTimeout
    \/ WaitForGloasState \/ EnsureBuilderRegistered("manager", "check", "monitor")
    \/ DepositReturns("manager", "check")
    \/ WaitForRegistration("manager", "wait", "monitor") \/ WaitTimeout("manager", "check")
    \/ CheckAndTopup("manager", "monitor") \/ TopupReturns("manager", "monitor")

UiStep ==
    \/ EnsureBuilderRegistered("ui", "none", "none") \/ DepositReturns("ui", "none")
    \/ WaitForRegistration("ui", "wait", "none") \/ WaitTimeout("ui", "none")
    \/ CheckAndTopup("ui", "none") \/ TopupReturns("ui", "none")
    \/ InitiateExit \/ ExitReturns

Next ==
    \/ Tick \/ Block \/ MineTx \/ AccountStep \/ LoadStats
    \/ WalletActs \/ ManagerStep \/ UiStep
    \/ Restart

\* The wallet's polling goes on; its time-outs are bounded.
FairSpec ==
    /\ Init /\ [][Next]_vars
    /\ \A c \in Calls : WF_vars(WalletStep(c) /\ UNCHANGED <<others, event, thread, purpose>>)

-----------------------------------------------------------------------------
(* Properties.                                                             *)

\* A deposit the manager makes before the fork stays in the beacon state's queue until
\* the fork turns it into a builder: never is it processed earlier, which would make the
\* key an ordinary validator.  Whatever the queue holds, whether finality advances or
\* not, when blocks come and the transaction is mined, and with retries and restarts in
\* between (tryEarlyOnboardOnce, simulateDepositSurvives).  Except for a deposit decided
\* on a state that fetchCurrentEpochState has filed under a later epoch than its own.
EarlyDepositSurvives == entry = "validator" => blind

\* When an early deposit became a builder at the fork, nobody registers the builder
\* again: the manager never does, not after a restart and not in the time between the
\* fork and the first Gloas state, and a request of the web UI does not once such a state
\* is loaded (waitForGloasState, EnsureBuilderRegistered).
NoSecondDeposit ==
    [][\A t \in DOMAIN thread :
         thread[t].pc # "deposit" /\ thread'[t].pc = "deposit" /\ entry = "converted"
           => t = "ui" /\ ~stats.gloas]_vars
=============================================================================
