---------------------------- MODULE SlotResults ----------------------------
(***************************************************************************)
(* pkg/slot_results/tracker.go: the history of what happened in each slot. *)
(* One loop takes the builder's events from a channel per kind, and at     *)
(* every slot start writes a baseline for slots in which nothing happened; *)
(* Builder API handlers record from goroutines of their own.  Every change *)
(* of a record is announced, bursts within a window are coalesced, and a   *)
(* timer announces the last record of a burst.                             *)
(*                                                                         *)
(*   clock       current slot                                              *)
(*   job         what the payload builder did with the slot                *)
(*   events      builder events not yet taken from their channels          *)
(*   build       Status of the recorded build; "absent": no record, "nil": *)
(*               a record without one                                      *)
(*   lastTicked  lastTickedSlot                                            *)
(*   loop        where the loop is in a tick, and the slot it read         *)
(*   window      lastFired: "never", or fired less than updateFireInterval *)
(*               ago ("open") or longer ("closed")                         *)
(*   pending     the suppressed update                                     *)
(*   flush       flushPending, which is also: a timer is set               *)
(*   firing      the update a timer holds between its unlock and its Fire  *)
(*   emitted     the update last fired                                     *)
(*   records     number of attempts recorded so far                        *)
(*                                                                         *)
(* An update is a copy of a record: "latest" when the record is still the  *)
(* stored one, else "old".  The attempts a record lists are left out; the  *)
(* inclusion it holds is in Inclusion.                                     *)
(***************************************************************************)
EXTENDS Integers, FiniteSets

CONSTANTS
    MaxSlot,     \* bound: the last slot
    Decision,    \* the frozen build decision of each slot (Freeze is stable)
    CatchUp,     \* maxSlotCatchUp (4)
    KeepSlots,   \* slots the coalescing maps keep (64)
    Retention,   \* slots of the retention window, whole epochs
    MaxRecords   \* bound: number of attempts recorded

Slots == 1 .. MaxSlot

ASSUME ResultsAssumption ==
    /\ {MaxSlot, CatchUp, KeepSlots, Retention, MaxRecords} \subseteq Nat
    /\ KeepSlots >= CatchUp + 2 /\ Retention > CatchUp
    /\ Decision \in [Slots -> {"build", "skip", "uninvolved"}]

VARIABLES clock, job, events, build, lastTicked, loop,
          window, pending, flush, firing, emitted, records

streamVars == <<window, pending, flush, firing, emitted>>
loopVars == <<lastTicked, loop>>
vars == <<clock, job, events, build, loopVars, streamVars, records>>

BuildStatus == {"waiting_attributes", "no_attributes", "skipped", "started", "ready", "failed"}
Copies == {"latest", "old"}
Kinds == {"started", "ready", "failed", "skipped"}
Idle == [pc |-> "select", slot |-> 0, until |-> 0]

ResultsTypeOK ==
    /\ clock \in 0 .. MaxSlot
    /\ job \in [Slots -> {"none", "building", "ready", "failed", "skipped"}]
    /\ events \subseteq Kinds \X Slots
    /\ build \in [Slots -> BuildStatus \cup {"absent", "nil"}]
    /\ lastTicked \in 0 .. MaxSlot
    /\ loop \in [pc : {"select", "materialize", "finalize"}, slot : 0 .. MaxSlot, until : 0 .. MaxSlot]
    /\ window \in [Slots -> {"never", "open", "closed"}]
    /\ pending \in [Slots -> Copies \cup {"none"}]
    /\ flush \subseteq Slots
    /\ firing \in [Slots -> Copies \cup {"none"}]
    /\ emitted \in [Slots -> Copies]
    /\ records \in 0 .. MaxRecords

Init ==
    /\ clock = 0 /\ lastTicked = 0 /\ loop = Idle
    /\ job = [s \in Slots |-> "none"]
    /\ events = {}
    /\ build = [s \in Slots |-> "absent"]
    /\ window = [s \in Slots |-> "never"]
    /\ pending = [s \in Slots |-> "none"]
    /\ flush = {}
    /\ firing = [s \in Slots |-> "none"]
    /\ emitted = [s \in Slots |-> "latest"]
    /\ records = 0

-----------------------------------------------------------------------------
(* Announcing a changed record: fireUpdate, under the tracker's mutex.     *)

\* The other copies of slot s's record are no longer the latest.
Aged(copies, s) == [copies EXCEPT ![s] = IF @ = "none" THEN @ ELSE "old"]

\* pruneCoalescing, when slot s fires: the slots whose entries go.
Forgotten(s) ==
    IF Cardinality({f \in Slots : window[f] # "never"} \cup {s}) > KeepSlots
    THEN {f \in Slots : window[f] # "never" /\ f + KeepSlots < s}
    ELSE {}

\* Mutant of Suppress: the first suppressed update is kept, not the last.
SuppressFirst(s) ==
    /\ pending' = [pending EXCEPT ![s] = IF @ = "none" THEN "latest" ELSE "old"]
    /\ flush' = flush \cup {s}
    /\ emitted' = Aged(emitted, s)
    /\ UNCHANGED window

\* Inside the window: the update is kept for the trailing flush.
Suppress(s) ==
    /\ pending' = [pending EXCEPT ![s] = "latest"]
    /\ flush' = flush \cup {s}
    /\ emitted' = Aged(emitted, s)
    /\ UNCHANGED window

\* Outside: it is fired, and opens a window.
FireNow(s) ==
    /\ window' = [f \in Slots |-> IF f = s THEN "open"
                                  ELSE IF f \in Forgotten(s) THEN "never" ELSE window[f]]
    /\ pending' = [f \in Slots |-> IF f \in Forgotten(s) \cup {s} THEN "none" ELSE pending[f]]
    /\ emitted' = [emitted EXCEPT ![s] = "latest"]
    /\ UNCHANGED flush

\* upsert: the slot's build becomes b (the mutation may leave it alone, the
\* record is stored and announced all the same).
Upsert(s, b) ==
    /\ build' = [build EXCEPT ![s] = b]
    /\ firing' = Aged(firing, s)
    /\ \/ window[s] = "open" /\ Suppress(s)
       \/ window[s] # "open" /\ FireNow(s)

\* The build of slot s as a mutation finds it in its clone.
Current(s) == IF build[s] = "absent" THEN "nil" ELSE build[s]

\* A burst's window ends.  Timing: a timer fires its update well within the
\* interval it opened by taking it.
WindowCloses(s) ==
    /\ window[s] = "open" /\ firing[s] = "none"
    /\ window' = [window EXCEPT ![s] = "closed"]
    /\ UNCHANGED <<clock, job, events, build, loopVars, pending, flush, firing, emitted, records>>

\* flushTrailing up to its unlock.  Its timer was set for the end of a window, but
\* when it runs late it may find the next one.
FlushTakes(s) ==
    /\ s \in flush /\ firing[s] = "none"
    /\ flush' = flush \ {s}
    /\ firing' = [firing EXCEPT ![s] = pending[s]]
    /\ pending' = [pending EXCEPT ![s] = "none"]
    /\ window' = [window EXCEPT ![s] = IF pending[s] = "none" THEN @ ELSE "open"]
    /\ UNCHANGED <<clock, job, events, build, loopVars, emitted, records>>

\* flushTrailing's Fire.
FlushFires(s) ==
    /\ firing[s] # "none"
    /\ emitted' = [emitted EXCEPT ![s] = firing[s]]
    /\ firing' = [firing EXCEPT ![s] = "none"]
    /\ UNCHANGED <<clock, job, events, build, loopVars, window, pending, flush, records>>

-----------------------------------------------------------------------------
(* The payload builder, as the tracker sees it (see PayloadBuilder).       *)

\* executeBuildForSlot, for the current or the next slot.
BuilderStarts(s) ==
    /\ job[s] = "none" /\ s \in {clock, clock + 1}
    /\ Decision[s] = "build" /\ job' = [job EXCEPT ![s] = "building"]
    /\ events' = events \cup {<<"started", s>>}
    /\ UNCHANGED <<clock, build, loopVars, streamVars, records>>

\* fireBuildSkipped: attributes of a slot that is not built.
BuilderSkips(s) ==
    /\ job[s] = "none" /\ s \in {clock, clock + 1}
    /\ Decision[s] = "skip" /\ job' = [job EXCEPT ![s] = "skipped"]
    /\ events' = events \cup {<<"skipped", s>>}
    /\ UNCHANGED <<clock, build, loopVars, streamVars, records>>

\* The build delivers a payload or fails, possibly long after its slot.
BuilderEnds(s, outcome) ==
    /\ job[s] = "building"
    /\ job' = [job EXCEPT ![s] = outcome]
    /\ events' = events \cup {<<outcome, s>>}
    /\ UNCHANGED <<clock, build, loopVars, streamVars, records>>

-----------------------------------------------------------------------------
(* The tracker's loop: its select picks any channel that has an event.     *)

Take(kind, s) ==
    /\ loop = Idle /\ <<kind, s>> \in events
    /\ events' = events \ {<<kind, s>>}
    /\ UNCHANGED <<clock, job, loopVars, records>>

\* Mutant of HandleBuildStarted: it sets the status whatever it was.
HandleBuildStartedAlways(s) ==
    /\ Take("started", s)
    /\ Upsert(s, "started")

\* It never regresses a later outcome.
HandleBuildStarted(s) ==
    /\ Take("started", s)
    /\ Upsert(s, IF Current(s) \in {"nil", "waiting_attributes", "no_attributes"}
                 THEN "started" ELSE Current(s))

HandlePayloadReady(s) == Take("ready", s) /\ Upsert(s, "ready")

HandleBuildFailed(s) == Take("failed", s) /\ Upsert(s, "failed")

HandleBuildSkipped(s) ==
    /\ Take("skipped", s)
    /\ Upsert(s, IF Current(s) \in {"nil", "waiting_attributes"} THEN "skipped" ELSE Current(s))

\* An attempt is added to the record: a bid, reveal or submission event of the loop,
\* or a Builder API handler's own call (RecordBuilderAPIBid, RecordBlockSubmission).
Record(s) ==
    /\ records < MaxRecords /\ records' = records + 1
    /\ s \in clock - 1 .. clock + 1
    /\ Upsert(s, Current(s))
    /\ UNCHANGED <<clock, job, events, loopVars>>

\* Mutant of FirstSlot: the catch-up is one slot shorter.
FirstSlotLate == IF clock > lastTicked + CatchUp THEN clock - CatchUp + 1 ELSE lastTicked + 1

\* The slots a tick catches up with.
FirstSlot == IF clock > lastTicked + 1 + CatchUp THEN clock - CatchUp ELSE lastTicked + 1

TickDone == loop.slot = loop.until

SlotTimerFires ==
    /\ loop = Idle /\ clock > lastTicked
    /\ loop' = [pc |-> "materialize", slot |-> FirstSlot, until |-> clock]
    /\ UNCHANGED <<clock, job, events, build, lastTicked, streamVars, records>>

\* materializeBaseline.
MaterializeBaseline ==
    LET s == loop.slot
    IN  /\ loop.pc = "materialize"
        /\ loop' = [loop EXCEPT !.pc = "finalize"]
        /\ \/ Decision[s] = "uninvolved" /\ UNCHANGED <<build, streamVars>>
           \/ /\ Decision[s] # "uninvolved"
              /\ Upsert(s, IF Current(s) # "nil" THEN Current(s)
                           ELSE IF Decision[s] = "build" THEN "waiting_attributes"
                           ELSE "skipped")
        /\ UNCHANGED <<clock, job, events, lastTicked, records>>

\* finalizeWaitingBaseline of the slot before, and the end of the iteration.
FinalizeWaitingBaseline ==
    LET s == loop.slot - 1
        waiting == s \in Slots /\ build[s] = "waiting_attributes"
    IN  /\ loop.pc = "finalize"
        /\ \/ waiting /\ Upsert(s, "no_attributes")
           \/ ~waiting /\ UNCHANGED <<build, streamVars>>
        /\ loop' = IF TickDone THEN Idle ELSE [loop EXCEPT !.pc = "materialize", !.slot = @ + 1]
        /\ lastTicked' = IF TickDone THEN loop.until ELSE lastTicked
        /\ UNCHANGED <<clock, job, events, records>>

\* No event or update of slot s is on its way.
Settled(s) ==
    /\ \A k \in Kinds : <<k, s>> \notin events
    /\ job[s] # "building" /\ s \notin flush /\ firing[s] = "none"

\* pruneForEpoch.  Timing: a retention of epochs outlasts every event of a slot.
PruneForEpoch ==
    LET old == {s \in Slots : s + Retention < clock}
    IN  /\ loop = Idle /\ old # {} /\ \A s \in old : Settled(s)
        /\ build' = [s \in Slots |-> IF s \in old THEN "absent" ELSE build[s]]
        /\ window' = [s \in Slots |-> IF s \in old THEN "never" ELSE window[s]]
        /\ UNCHANGED <<clock, job, events, loopVars, pending, flush, firing, emitted, records>>

\* The wall clock enters the next slot; the loop may lag behind it by any number of
\* slots before it starts a tick.  Timing: what happens in a slot, and a tick that
\* concerns it, is over KeepSlots later.
ClockTicks ==
    /\ clock < MaxSlot /\ clock' = clock + 1
    /\ \A s \in Slots :
        s + KeepSlots < clock + 2 => Settled(s) /\ (loop = Idle \/ loop.slot - 1 > s)
    /\ UNCHANGED <<job, events, build, loopVars, streamVars, records>>

-----------------------------------------------------------------------------
LoopStep(s) ==
    \/ HandleBuildStarted(s) \/ HandlePayloadReady(s)
    \/ HandleBuildFailed(s) \/ HandleBuildSkipped(s)

Next ==
    \/ \E s \in Slots :
        \/ BuilderStarts(s) \/ BuilderSkips(s)
        \/ BuilderEnds(s, "ready") \/ BuilderEnds(s, "failed")
        \/ LoopStep(s) \/ Record(s)
        \/ WindowCloses(s) \/ FlushTakes(s) \/ FlushFires(s)
    \/ SlotTimerFires \/ MaterializeBaseline \/ FinalizeWaitingBaseline
    \/ PruneForEpoch \/ ClockTicks

Spec == Init /\ [][Next]_vars

-----------------------------------------------------------------------------
(* Properties.                                                             *)

\* The final state is always delivered: a stored record that was not fired yet is
\* with a timer, whatever bursts, late timers and pruned maps come in between
\* (fireUpdate, flushTrailing, pruneCoalescing).
FinalStateDelivered ==
    \A s \in Slots :
        build[s] # "absent" /\ emitted[s] = "old" =>
            (s \in flush /\ pending[s] = "latest") \/ firing[s] = "latest"

\* When the builder's events of a slot are handled, in whatever order, the record
\* says what the builder did (handleBuildStarted and its siblings).
BuildRecorded ==
    \A s \in Slots :
        job[s] \in {"ready", "failed", "skipped"} /\ build[s] # "absent"
            /\ (\A k \in Kinds : <<k, s>> \notin events) =>
            build[s] = job[s]

\* After a tick no slot within reach of the catch-up still waits for attributes,
\* however long the loop was held up (finalizeWaitingBaseline).
WaitingEnds ==
    \A s \in Slots :
        loop = Idle /\ s < lastTicked /\ s >= lastTicked - CatchUp - 1 =>
            build[s] # "waiting_attributes"

=============================================================================
