# Buildoor: TLA+ models and proofs

Models of the parts of [buildoor](../src/README.md) that carry its own logic. They are checked by TLC on
small instances, and the main invariants are proved by TLAPS for every value of the constants.

## The system

Buildoor is an Ethereum block builder for test networks. A beacon node announces the attributes of the next
block; buildoor builds a payload through the engine API, offers it to the proposer (gossiped ePBS bids or the
Builder API), and after winning reveals the payload in time. Operators steer each slot with plans.

| component | state | operations | talks to |
|---|---|---|---|
| write-behind store (`memstore`, `db/kv_store.go`) | map, dirty and deleted marks, flush tokens | Put, Delete, Prune, Clear, attach, flush loop, Stop | SQLite table; all stores of the program |
| action plan (`action_plan`) | plans, freeze snapshots, next_n counter | Freeze, ApplyUpdates, OnSlotBuilt, UpdateConfig, prune | every per-slot service calls Freeze; UI sends updates |
| payload builder (`payload_builder`) | attribute cache, armed fallbacks, build marks, payload cache, wins | attribute and head events, fallback timer, build goroutine | plan, beacon events, engine; fires started/ready/failed/skipped |
| reveal service (`payload_bidder/reveal_service.go`) | entry per slot (gate, due, attempts, done), request queue | RequestReveal, vote update, timer, publish, retry, prune | inclusion tracker, Builder API, head votes; payments |
| payment tracker | pending payments, balance adjustment, its epoch | RecordWonBid, MarkRevealed, AddDeposit, Reconcile, Prune | inclusion tracker, reveal service, lifecycle |
| inclusion tracker | tracked wins, ancestry cache | head event, epoch event | beacon node; fires inclusions and verdicts |
| slot results (`slot_results`) | record per slot, last ticked slot, coalescing maps; artifacts with a buffer, a write queue and a table | handlers of all outcome events, slot tick, recorders, flush timer, prune | subscribes to everything; feeds the UI |
| p2p bidder (`p2p_bidder`) | per-slot bid state, competitor bids | head event, tick, bid submission | plan, payload cache, beacon node |
| Builder API (`builderapi`) | preferences, registrations | bid, header, block submission | payload cache, reveal service, slot results |
| head votes (`chain/headvotes.go`) | votes per slot and root | attestation events, duty loading | reveal service |
| lifecycle (`lifecycle`) | registration, last top-up epoch | registration with retries, balance monitor, exit | wallet, chain, payments |
| wallet (`wallet`) | the account's nonces, one submission at a time | SendAndConfirm: build, send, watch, retry, time out | execution node; lifecycle |
| settings (`config`) | three layers with recency | NewService, SetMany, recompute, persist | state database; plan service and all readers |
| web UI (`webui`) | sequence numbers, replay cache, a channel per browser | requests that change settings, services and plans; event stream | settings, lifecycle; browsers |
| event dispatcher (`utils`) | subscriptions | Fire, Unsubscribe | carries all events above |

What is hard here: goroutines that share state under several mutexes; decisions that read a value before they
take the lock; events of one slot that travel through different channels; timers (fallback, gates, retries, slot
clock, coalescing) that race the events they wait for; reorgs; failed node calls; flushes that fail half-way and
restarts. `PROJECT.json` lists each of these hazards with its line and the property that guards it.

## Modules

| module | models | composes |
|---|---|---|
| `MemStore` | `memstore/store.go`, `db/kv_store.go` | - |
| `ActionPlan` | pure resolution of plan, settings and schedule into a frozen plan | - |
| `PlanService` | `action_plan/service.go` | `ActionPlan` |
| `PayloadBuilder` | `payload_builder/service.go`, attribute cache of `rpc/beacon/events.go` | `PlanService` |
| `Payments` | `payload_bidder/payment_tracker.go` | - |
| `RevealService` | `reveal_service.go`, and the two flows that request reveals | `Payments` |
| `Inclusion` | `inclusion_tracker.go`, and how `slot_results` records its verdicts | - |
| `SlotResults` | `slot_results/tracker.go` | - |
| `Registration` | registration state of `p2p_bidder/service.go`, the manager up to its registration and `EnsureBuilderRegistered` of `lifecycle/manager.go` | - |
| `Bidder` | `p2p_bidder/scheduler.go` | - |
| `HeadVotes` | `chain/headvotes.go` | - |
| `SlotArtifacts` | `slot_results/artifacts.go`, `db/slot_artifacts.go` | - |
| `BuilderApi` | `builderapi`: both dialects, and the records they leave | `SlotArtifacts` |
| `TxCall` | what callers of the wallet rely on: the abstract specification | - |
| `Wallet` | `wallet/wallet.go` over a node with a pool and a chain | instantiates `TxCall` |
| `Lifecycle` | `lifecycle`: early onboarding, registration, top-ups, exit | `Wallet` |
| `Settings` | `config/settings.go` | - |
| `EventStream` | `webui/handlers/api/events.go`, `useEventStream.ts` | - |
| `WebUi` | requests that change settings, and what they announce | `Settings`, `EventStream` |
| `MC*` | instances for TLC | their component |
| `MemStoreProofs`, `BidderProofs`, `SlotResultsProofs` | theorems | their component |
| `PayloadBuilderProofs`, `LifecycleProofs`, `WebUiProofs` | theorems | their component and those it composes |
| `ChainProofs` | theorems about what is read off the chain | `Inclusion`, `HeadVotes` |
| `RevealProofs` | theorems about reveals and the requests that lead to them | `RevealService`, `BuilderApi`, `SlotArtifacts` |

One action stands for one critical section, handler or timer callback. Where the code gives up a lock between two
steps (attach, flush, `ApplyUpdates`' clock read, the fallback's look-up and injection, `flushTrailing`, the index, the
row and the record of a bid, a change of settings and its broadcast) the model has two actions. Data is reduced to what the properties tell apart: payload contents, amounts and times become
model values, ticks or copies marked *latest* and *old*. A definition whose name starts like another one's and
whose comment says *Mutant of* is a faulty variant of it, kept to show that the properties notice the fault.

Coarser than the code on purpose: the handlers of `EventStream` that broadcast twice (a bid, a ready payload, a bid or
head event, the service status) do it in one action though the code takes the mutex twice. Each of the two events has its
own number and its own delivery, the browser's rule looks at one event at a time, and what the code lets come between the
two broadcasts the model lets come before or after them, so that no property tells the difference. `Payments` and the single
handlers of `EventStream` follow the code in more detail than the properties need: the first is composed with the reveal
service, whose actions call it, and of the second the properties see numbers, slots and deliveries.

How variables and actions correspond to the code is said at the head of every module; `PROJECT.json` maps each
definition to its lines.

## Runs

| run | question | bounds |
|---|---|---|
| `mem_store` | Do rows ever drift from memory, are wake-ups lost, is Stop durable, do retries drain the store? | 2 keys, 1 value, 2 clients, forced flush at 2 changes: a key changes during the flush of the other, and during its own |
| `plan_service` | Does a slot's snapshot stay what it was, and agree with the plan the operator sees? | 5 slots in epochs of 1 with the clock at 0 to 3, so that a marker is pruned while its slot is asked for again; a retention of 0, 1 or 2 epochs that may change from one epoch to the next |
| `payload_builder` | Is each slot built once or skipped, with the attributes it needs; is the node's word final; is every slot served, also when the node falls silent? | clock at 0 to 2 and the slot after it, channel of 1, caches that keep 2 slots, a map that keeps 1 win, so that a win is forgotten for a later one and its block is seen again |
| `reveal` | Is a slot revealed once, only through its gate, never abandoned early, never parked? | 2 slots, 2 blocks, all gates, 2 attempts, queue of 1 |
| `inclusion` | Is the verdict of a won slot that of the chain, through reorgs and failed fetches? | 7 blocks in 3 branches, 4 heads, window of 2 slots |
| `slot_results` | Does the record say what the builder did, does the UI get the final state, do baselines end? | 5 slots, catch-up of 1, maps of 3 slots, 1 extra attempt |
| `registration` | Does the state that gates bidding follow the chain, whatever registers the builder? | manager, switched on and off at any time, and one web UI request, started before or after the fork, finality of 3 epochs, exit and re-registration |
| `bidder` | Do bids rise, stop at the block, and come once in single-bid mode? | 2 slots of 3 ticks, 3 plans, amounts up to 5 so that the increase overflows |
| `head_votes` | Does a tally count every voter once, is the head always tracked, are crossings and progress reported? | 4 blocks in 3 slots, 2 of them competing, a registry of 4 validators, a cap of 2 roots, thresholds of 50 and 75 percent |
| `builder_api` | Is a payload revealed only after its block is out, does a record name its bid, do submissions end in one result? | 3 concurrent requests before and after the fork, queue of 2, buffer of 1 slot, rows pruned with their slot, captures that fail, restart in order or by a crash that keeps any part of the records |
| `lifecycle` | Does the wallet keep its contract, does an early deposit survive to the fork, is a builder the fork made registered again? | 2 calls, 2 attempts, 1 transaction of another instance, 3 epochs of 2 slots up to the fork's first slot, slots with and without blocks, queues shorter and longer than the churn, 1 restart. The manager's wait for finality is cut to 0 epochs, so that the simulation decides in every epoch |
| `web_ui` | Do browsers get events and the config in force through reconnects and restarts, do requests end, do settings survive? | 2 settings, one of them a toggle, 2 numbers, 2 requests at once; 1 browser, 3 numbers over 2 slots, a cache of 2, room for 2 |

Bounds: every race in the models is between two or three steps on one or two keys or slots, and a component
treats its slots alike, so a second slot is enough to meet shared queues, caches and rounds. The windows that are
64, 16 or 4 slots in the code are 1 to 3 here, so that their edges are inside the instance. In `web_ui` one request
of the event stream at a time is enough because requests share nothing but what is sent to all of them; once a setting
was changed, `MaxMixed` allows 2 events of one slot, since the two halves of the module meet only where a request
announces what it changed. Deadlock is not checked where the model stops when its bounded clock, heads, calls or
requests are used up.

The findings in `PROJECT.json` are disagreements between code and comments met while modelling; each quotes both
sides. The models follow the code there, and no property claims what does not hold: next_n that builds more than N
slots, payments pending again after their reveal, a verdict that is handled before its inclusion, the inclusion counter
that two services increment, the reveal marker pruned under a lifted deadline, baselines that stay *waiting* after a
long stall or a restart, the builder index that a refresh leaves behind, the pending state of a deposit that was
deferred, a top-up repeated after a time-out or credited without being sent, an early deposit repeated after a restart
or made in an epoch taken for the last one, batches of settings that are half persisted, a bid index reused after a crash, events lost to a slow browser, a
bidder that stays in *waiting_gloas* while no lifecycle manager runs.

Where a property carries an exception that is one of these findings, TLC violates it without: `IndexNamesBid` is
about records whose artifact no restart found missing (`orphans` holds the others, which stay among the attempts);
`EarlyDepositSurvives` excepts a deposit decided on the state that `fetchCurrentEpochState` filed under a later epoch than
its own (`blind`); `NoSecondDeposit` excepts a request of the web UI before the first Gloas state is loaded, which does not
wait for one as the manager does; `StateSettles` needs, for a bidder started before the fork, the manager switched on for
good or a registration tried; `CountedOnce` allows a win to be counted again once as many later wins as the map keeps have
pushed it out.

Fairness: goroutines that are runnable run and clocks tick (`WF` on loops, timers, notifications and the clock), because
the Go scheduler and timers guarantee it; `SF` on a batch that the database accepts, in `MemStore`, because the statement
is about retries and says nothing of a database that fails for ever. In `Registration` the chain's epochs go on too, and nobody has to switch the manager on or to send a request. In `PayloadBuilder` fairness is
for the fallback's timer and the build goroutines together: that some of them runs is enough. In `Wallet` it is for the
polling of a call, which ends by its time-out if by nothing else; in `EventStream` for the handler's way out and for the
goroutine that sends the initial state, because Go's select takes every ready case in the end. Nothing obliges
operators, clients, browsers, transactions, the beacon node or restarts.

Timing: where the code relies on clocks the model says so at the guard (`Timely` in `PayloadBuilder`, `Settled` and
`WindowCloses` in `SlotResults`): an event takes seconds while caches keep 64 slots, and a callback held up between
two statements takes less than a second. In `PayloadBuilder` the bound is the constant `MaxDelay`: an event, a fallback
and a build are done at most that many slots after theirs. It is assumed to be at most what the caches keep and at most an
epoch; both are minutes where the work takes seconds. In `BuilderApi` it is `HandlerSlots`: a handler is through before its slot
is that many slots behind. It is assumed to be within what the artifact buffer (64 slots) and the table's retention keep,
where a handler of the Builder API takes seconds and a proposer asks for the slot it is about to propose.

## Refinement

`TxCall` is what the lifecycle manager relies on when it hands the wallet a transaction: the call returns; it says
*included* or *reverted* only of a transaction that was mined; and the transaction is mined at most once, whatever was
resubmitted. `Wallet` maps a call that waits or runs to *running* and counts the chain's transactions of a call as
`landed`; `CallContract` states that every behaviour of `Lifecycle`, wallet and manager together, is one of `TxCall`,
its liveness included. The safety half is also proved (`WalletKeepsContract` in `LifecycleProofs`). A call that failed
promises nothing, which is what the findings on top-ups and early deposits are about.

## Proofs

Every theorem is of the form `Spec => []Inv` or `Spec => [][A]_vars`, for every value of the constants that the `ASSUME`s
of the modules admit: finite or natural parameters, distinct model values, a genesis block at slot 0, and the timing
bound above. Each rests on an inductive invariant that TLC checked on the run's instance before it was proved.

- `MemStoreProofs`: `TypeOK`, `UnmarkedAgrees`, `StopIsDurable`, `NoLostWakeup`. `UnmarkedAgrees` alone is not
  inductive: a batch in flight writes what memory held when it was drained. `StoreInv` adds that marks say what memory
  holds (`MarksMatch`), that a key changed since the snapshot is marked again (`BatchMatches`), where the goroutines can
  be relative to one another (`Phases`, `Attaching`), and that Stop's last flush leaves only late changes.
- `PayloadBuilderProofs`: of the plan service `PlanTypeOK`, `FrozenMatchesPlan`, `SnapshotStable`; of the builder
  `BuildFindsAttributes`, `SkippedXorBuilt`, `BuildOnce`, `NodeWins`, `CountedOnce`. The decision and the build are steps apart, with
  cleanups and changes of plan and settings between them. `BuilderInv` says that whatever is under way concerns a slot
  that still matters (`InTime`), that such a slot has its attributes (`HaveAttributes`) and its build mark
  (`Remembered`), and that its snapshot is there and says what was done with it (`DecisionStands`). The last one rests on
  the plan service's own argument that a snapshot is not pruned before its slot is past. For `CountedOnce` the invariant
  `WinsKnown` says that a counted win is in the map or has `KeepWon` later wins counted: the cleanup drops the oldest only.
  The code keeps 10 wins and payloads for 64 slots, so this is what it promises; that a block 10 wins back does not become
  head again is for the chain to say. The theorem is about the builder's own counting, not about the inclusion tracker's,
  which adds to the same statistic (a finding).
- `RevealProofs`: `RevealTypeOK`, `RevealedOnce`, `GateHonest`, `TimeoutJustified`. `RevealInv` says that a
  published slot keeps its finished entry until its deadline has passed (`MarkerHolds`), that a gate recorded as met has
  the votes of the entry's own block (`VotesHonest`), and that a round works with a time that has been. For time-outs
  `ParkedInv` adds that an entry for which only the time is missing is not tried before it (`NotEarly`), and that the
  entries of a round were due when it began (`WasDue`).
  Of the Builder API `RevealAfterBroadcast`, `IndexNamesBid`, `RowsKept`. A bid's index is drawn in one step, its row
  queued, written and pruned in others, and its record made in a last one, while the buffer evicts slots and a restart
  forgets the counters and may lose rows whose records were kept. `ApiInv` says that whatever buffer, queue, batch, table, handlers and backed records hold under a slot and
  an index is one bid (`NamesOK`), that the next index of a slot a handler can still work for is past all of them
  (`CountersOK`), and that a bid under way is for such a slot (`RequestsOK`), so that eviction and pruning take only
  slots that get no new index.
- `BidderProofs`: `BidderTypeOK`, `OneBid`, `NoBidOnceClosed`, `BidsRise`. The types need that clamped arithmetic is
  closed and that the clock is always in some slot. `BidderInv` adds that `BidCount` counts every attempt
  (`CountsAttempts`) and that a submission under way is for a slot not closed and, in single-bid mode, without a bid so
  far (`SubmitsWhenDue`): the check and the submission are separate steps, and only the single loop keeps the first valid
  at the second. `RisingInv` says which attempt a bid on record belongs to, so that the order of bids is the order of the
  saturating amounts `BidAt(s, k)`.
- `ChainProofs`: of the inclusion tracker `VerdictFollowsHead`, `NoStaleVerdict`. `ChainIsLinear` shows that the recursive
  ancestry of a head is a chain, `VerdictIsOutcome` that what the code reads off two blocks of it is the outcome on all of
  it, in every block tree. `InclusionInv` says that a tracked win's block committed to its slot, that its inclusion is
  recorded or on its way, and that the newest verdict on its way is the tracked one. Of the head votes
  `TallyOfDistinctVoters`, `HeadTracked`, `HeadCrossingReported`. `VotesInv` says that a tally is exactly the weight of the
  validators marked for its root, which votes of aggregates, blocks and late duties add to one by one, that the head has a
  tally though the cap is full, and that a threshold marked as fired was reported; the step of every kind of vote is shown
  to report the crossing it brings about.
- `SlotResultsProofs`: `FinalStateDelivered`, `BuildRecorded`, `WaitingEnds`. `StreamInv` says that what a timer holds is
  out of date only when the latest copy waits behind it, and that nothing touches a slot any more when its maps are pruned
  (`OldSettled`). `ResultsInv` adds, for everything the builder can have done, which of its events are still to be handled
  and what the record can say by then (`Progress`), and which slots can wait before and in a tick (`WaitingBound`).
- `LifecycleProofs`: the safety half of `CallContract`, `NoSecondDeposit`, `EarlyDepositSurvives`. `WalletInv` says where the transaction of a
  call can be at each of its steps: nowhere before it is sent, at the call's nonce while it is watched, at most once
  altogether. With it, every step of wallet, node and manager maps to a step of `TxCall` or a stutter. `ManagerInv` says
  that the manager registers only with a Gloas state at hand and that such a state, also the one loaded at a restart from an
  older head, knows a converted builder. For early
  deposits `DepositInv` says that every deposit of ours in the queue is either of the last epoch before the fork, so that
  it is not final when the fork comes, or is not reached by then when the manager's simulation is run on the queue up to it
  (`Shielded`); and that a call under way, or the statistics it was decided on, will still be so when it is mined
  (`CanLand`), unless the history variable `blind` records that they were filed under a later epoch than their state's. The simulation leaves finality out; the argument is that it is therefore never behind the chain
  (`NotAhead`: neither in the place reached nor in what was spent and is carried), step by step, for every queue and
  churn limit. The theorem has one hypothesis, `MinEarlyOnboardSlots <= SlotsPerEpoch`: with shorter epochs
  `lastSafeEpoch` holds two epochs before the fork as well, and TLC finds a deposit that is processed
  (`SlotsPerEpoch = 2`, `MinEarlyOnboardSlots = 3`). The code has 10 and reads the other from the beacon node, 32 on mainnet
  and 8 in the minimal preset; this is one of the findings.
- `WebUiProofs`: `SettingsSurvive`, `EventsReachBrowser`, `ConfigShown`. `SettingsInv` says that a
  layer has a number exactly when it has a value and that no number is past the counter, in memory and in the rows, so
  that a number taken after a start is newer than all of them. `StreamInv` says that numbers grow
  along the cache and every channel, and that the browser discards as old only what it has applied (`DropsApplied`).
  `ConfigOnItsWay` says that a config the browser does not show is still to be sent, announced or read.

The prover has no induction over data. Where a proof needs it (a chain of blocks, the loop that prunes the cache, the
deposit queue's sums and the simulation of its transitions, bounds of finite sets), the recursive function is shown to
exist and the property to have no least counterexample.

Only model-checked:

- liveness (`EventuallyDrained`, `EverySlotServed`, `EveryRevealEnds`, `StateSettles`, `AdvanceReported`,
  `SubmissionsSettle`, `RequestsEnd`, the liveness of `CallContract`), which the prover does not handle.

## Not modelled

Encoding, hashing, signatures, key derivation, HTTP, SSE parsing and engine I/O; SQL and the migrations; read-only
requests of the web UI, its authentication, audit log and generated docs; validator ranges, jq transforms and the
commands' wiring, all of them without state of their own. A failing call to any of them is a nondeterministic outcome
where its caller distinguishes it. Also left out: the contents of payloads and envelopes among the artifacts, which are
stored under one index; balances credited by top-ups; the display state per slot that the event stream keeps and the
browser does not read; what the chain does with deposits of validators that exited or were withdrawn, and deposits of
others that join the queue after the start; unsubscription from the event dispatcher at shutdown.

## Plan

Left to do: an abstract reveal specification (each slot: requested, then published or given up) that `RevealService`
implements; the dispatcher's shutdown; `SetEnabled` and the absence of a wallet in `Lifecycle` as state rather than as an
open choice at each step.
