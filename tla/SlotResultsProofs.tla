------------------------- MODULE SlotResultsProofs -------------------------
(***************************************************************************)
(* Proofs about SlotResults: the final state of a record is delivered, a   *)
(* handled build is recorded and the waiting for attributes ends, for      *)
(* every number of slots, every decision and every length of the catch-up, *)
(* the coalescing maps and the retention window.                           *)
(***************************************************************************)
EXTENDS SlotResults, TLAPS

\* Builds an upsert can store.
Stored == BuildStatus \cup {"nil"}

\* The loop's counter while it is in a tick.
LoopInRange ==
    /\ loop.pc = "select" => loop = Idle
    /\ loop.pc # "select" => loop.slot \in Slots /\ loop.slot <= loop.until /\ loop.until <= clock
    /\ lastTicked <= clock

\* What the loop and the timers have to do with a slot is over KeepSlots later.
OldSettled ==
    \A s \in Slots :
        s + KeepSlots < clock + 1 => Settled(s) /\ (loop = Idle \/ loop.slot - 1 > s)

\* Events and builds are of slots the clock has reached or is about to.
EventsInReach == \A k \in Kinds, s \in Slots : <<k, s>> \in events => s <= clock + 1
BuildInReach == \A s \in Slots : job[s] = "building" => s <= clock + 1

\* A timer that holds an update runs within the window it opened, and when its copy is
\* out of date the latest one waits for the next timer.
Delivery ==
    \A s \in Slots :
        /\ pending[s] # "old"
        /\ firing[s] # "none" => window[s] = "open"
        /\ firing[s] = "old" => s \in flush /\ pending[s] = "latest"
        /\ emitted[s] = "old" => (s \in flush /\ pending[s] = "latest") \/ firing[s] = "latest"

StreamInv ==
    /\ ResultsTypeOK /\ LoopInRange /\ OldSettled /\ EventsInReach /\ BuildInReach
    /\ Delivery

\* Slot s was pruned and nothing will touch its record again.
Gone(s) ==
    /\ build[s] = "absent" /\ s + Retention < clock
    /\ \A k \in Kinds : <<k, s>> \notin events
    /\ loop = Idle \/ loop.slot > s

\* The events of slot s still to be handled, and what its record can say by then, for
\* each thing the builder can have done.
Progress(s) ==
    /\ Decision[s] = "uninvolved" => job[s] = "none" /\ build[s] \in {"absent", "nil"}
    /\ Decision[s] = "skip" => job[s] \in {"none", "skipped"} /\ build[s] \in {"absent", "nil", "skipped"}
    /\ Decision[s] = "build" => job[s] # "skipped" /\ build[s] # "skipped"
    /\ job[s] = "none" => \A k \in Kinds : <<k, s>> \notin events
    /\ \A k \in {"ready", "failed", "skipped"} :
        /\ <<k, s>> \in events => job[s] = k
        /\ job[s] = k => <<k, s>> \in events \/ build[s] = k \/ Gone(s)
    /\ job[s] = "skipped" => <<"started", s>> \notin events

BuildProgress == \A s \in Slots : Progress(s)

\* Which slots can wait for attributes, before a tick and in one.
WaitingBound ==
    \A s \in Slots : build[s] = "waiting_attributes" =>
        IF loop.pc = "select"
        THEN s >= lastTicked \/ s < lastTicked - CatchUp - 1
        ELSE s >= loop.slot - 1 \/ s < loop.until - CatchUp - 1

-----------------------------------------------------------------------------
(* What an upsert does to the update stream.                               *)

StreamTypes ==
    /\ window \in [Slots -> {"never", "open", "closed"}]
    /\ pending \in [Slots -> Copies \cup {"none"}]
    /\ flush \subseteq Slots
    /\ firing \in [Slots -> Copies \cup {"none"}]
    /\ emitted \in [Slots -> Copies]

\* What pruneCoalescing forgets has no update on its way.
LEMMA ForgottenSettled ==
    ASSUME StreamInv, NEW s \in Slots, s <= clock + 1, NEW f \in Forgotten(s)
    PROVE  f \in Slots /\ f # s /\ f \notin flush /\ firing[f] = "none"
<1>1. f \in Slots /\ f + KeepSlots < s
  BY DEF Forgotten
<1>2. {f, s, clock, KeepSlots} \subseteq Int /\ KeepSlots >= 0
  BY <1>1, ResultsAssumption DEF Slots, StreamInv, ResultsTypeOK
<1>3. f + KeepSlots < clock + 1 /\ f # s
  BY <1>1, <1>2
<1> QED BY <1>1, <1>3 DEF StreamInv, OldSettled, Settled

\* An upsert of a slot that is not old keeps the types of the stream, delivers or
\* keeps the record, and sets no timer for an old slot.
LEMMA UpsertStream ==
    ASSUME StreamInv, NEW s \in Slots, s <= clock + 1, s + KeepSlots >= clock + 1,
           NEW b \in Stored, Upsert(s, b)
    PROVE  /\ build' = [build EXCEPT ![s] = b]
           /\ build' \in [Slots -> BuildStatus \cup {"absent", "nil"}]
           /\ StreamTypes' /\ Delivery'
           /\ \A f \in Slots : f + KeepSlots < clock + 1 => f \notin flush' /\ firing'[f] = "none"
<1>1. StreamTypes /\ Delivery
  BY DEF StreamInv, ResultsTypeOK, StreamTypes
<1>2. /\ build' = [build EXCEPT ![s] = b]
      /\ build' \in [Slots -> BuildStatus \cup {"absent", "nil"}]
  BY DEF Upsert, Stored, StreamInv, ResultsTypeOK
<1>3. /\ firing' \in [Slots -> Copies \cup {"none"}]
      /\ \A f \in Slots \ {s} : firing'[f] = firing[f]
      /\ firing'[s] = IF firing[s] = "none" THEN "none" ELSE "old"
  BY <1>1 DEF Upsert, Aged, StreamTypes, Copies
<1>4. CASE window[s] = "open" /\ Suppress(s)
  <2>1. /\ window' = window /\ flush' = flush \cup {s}
        /\ pending' = [pending EXCEPT ![s] = "latest"]
        /\ emitted' = [emitted EXCEPT ![s] = "old"]
    BY <1>1, <1>4 DEF Suppress, Aged, StreamTypes, Copies
  <2>2. StreamTypes'
    BY <1>1, <1>3, <2>1 DEF StreamTypes, Copies
  <2>3. Delivery'
    BY <1>1, <1>3, <1>4, <2>1 DEF Delivery, StreamTypes
  <2>4. ASSUME NEW f \in Slots, f + KeepSlots < clock + 1
        PROVE  f \notin flush' /\ firing'[f] = "none"
    <3>1. f # s
      BY <2>4, ResultsAssumption DEF Slots, StreamInv, ResultsTypeOK
    <3> QED BY <1>3, <2>1, <2>4, <3>1 DEF StreamInv, OldSettled, Settled
  <2> QED BY <1>2, <2>2, <2>3, <2>4
<1>5. CASE window[s] # "open" /\ FireNow(s)
  <2>1. \A f \in Forgotten(s) : f \in Slots /\ f # s /\ f \notin flush /\ firing[f] = "none"
    BY ForgottenSettled
  <2>2. /\ window' = [f \in Slots |-> IF f = s THEN "open"
                                      ELSE IF f \in Forgotten(s) THEN "never" ELSE window[f]]
        /\ pending' = [f \in Slots |-> IF f \in Forgotten(s) \cup {s} THEN "none" ELSE pending[f]]
        /\ emitted' = [emitted EXCEPT ![s] = "latest"]
        /\ flush' = flush
    BY <1>5 DEF FireNow
  <2>3. firing[s] = "none" /\ firing' = firing
    BY <1>1, <1>3, <1>5 DEF Delivery, StreamTypes
  <2>4. StreamTypes'
    BY <1>1, <1>3, <2>2 DEF StreamTypes, Copies
  <2>5. Delivery'
    <3> SUFFICES ASSUME NEW f \in Slots
                 PROVE  /\ pending'[f] # "old"
                        /\ firing'[f] # "none" => window'[f] = "open"
                        /\ firing'[f] = "old" => f \in flush' /\ pending'[f] = "latest"
                        /\ emitted'[f] = "old" =>
                            (f \in flush' /\ pending'[f] = "latest") \/ firing'[f] = "latest"
      BY DEF Delivery
    <3>1. CASE f = s
      BY <1>1, <2>2, <2>3, <3>1 DEF StreamTypes
    <3>2. CASE f \in Forgotten(s)
      BY <1>1, <2>1, <2>2, <2>3, <3>2 DEF Delivery, StreamTypes
    <3>3. CASE f # s /\ f \notin Forgotten(s)
      BY <1>1, <2>2, <2>3, <3>3 DEF Delivery, StreamTypes
    <3> QED BY <3>1, <3>2, <3>3
  <2>6. \A f \in Slots : f + KeepSlots < clock + 1 => f \notin flush' /\ firing'[f] = "none"
    BY <2>2, <2>3 DEF StreamInv, OldSettled, Settled
  <2> QED BY <1>2, <2>4, <2>5, <2>6
<1> QED BY <1>4, <1>5 DEF Upsert

\* Only a slot that is not old, and that the clock has reached or is about to, has an
\* event to handle.
LEMMA EventSlot ==
    ASSUME StreamInv, NEW k \in Kinds, NEW s \in Slots, <<k, s>> \in events
    PROVE  s <= clock + 1 /\ s + KeepSlots >= clock + 1
<1>1. s <= clock + 1
  BY DEF StreamInv, EventsInReach
<1>2. ~(s + KeepSlots < clock + 1)
  BY DEF StreamInv, OldSettled, Settled
<1>3. {s, clock, KeepSlots} \subseteq Int
  BY ResultsAssumption DEF Slots, StreamInv, ResultsTypeOK
<1> QED BY <1>1, <1>2, <1>3

\* The build a mutation starts from is a stored one.
LEMMA CurrentStored ==
    ASSUME StreamInv, NEW s \in Slots
    PROVE  Current(s) \in Stored
BY DEF Current, Stored, StreamInv, ResultsTypeOK

-----------------------------------------------------------------------------
(* The stream's invariant.                                                 *)

\* Handling an event keeps it.
LEMMA TakeStream ==
    ASSUME StreamInv, NEW k \in Kinds, NEW s \in Slots, NEW b \in Stored,
           Take(k, s), Upsert(s, b)
    PROVE  StreamInv'
<1>1. s <= clock + 1 /\ s + KeepSlots >= clock + 1
  BY EventSlot DEF Take
<1>2. /\ build' \in [Slots -> BuildStatus \cup {"absent", "nil"}]
      /\ StreamTypes' /\ Delivery'
      /\ \A f \in Slots : f + KeepSlots < clock + 1 => f \notin flush' /\ firing'[f] = "none"
  BY <1>1, UpsertStream
<1>3. /\ clock' = clock /\ job' = job /\ records' = records
      /\ lastTicked' = lastTicked /\ loop' = loop
      /\ events' = events \ {<<k, s>>}
  BY DEF Take, loopVars
<1>4. ResultsTypeOK'
  BY <1>2, <1>3 DEF StreamInv, ResultsTypeOK, StreamTypes
<1>5. LoopInRange' /\ EventsInReach' /\ BuildInReach'
  BY <1>3 DEF StreamInv, LoopInRange, EventsInReach, BuildInReach
<1>6. OldSettled'
  BY <1>2, <1>3 DEF StreamInv, OldSettled, Settled
<1> QED BY <1>2, <1>4, <1>5, <1>6 DEF StreamInv

\* A recorded attempt keeps it.
LEMMA RecordStream ==
    ASSUME StreamInv, NEW s \in Slots, Record(s)
    PROVE  StreamInv'
<1>0. {s, clock, KeepSlots, records, MaxRecords} \subseteq Int /\ KeepSlots >= 2 /\ records >= 0
  BY ResultsAssumption DEF Slots, StreamInv, ResultsTypeOK
<1>1. s <= clock + 1 /\ s + KeepSlots >= clock + 1
  BY <1>0 DEF Record
<1>2. /\ build' \in [Slots -> BuildStatus \cup {"absent", "nil"}]
      /\ StreamTypes' /\ Delivery'
      /\ \A f \in Slots : f + KeepSlots < clock + 1 => f \notin flush' /\ firing'[f] = "none"
  BY <1>1, UpsertStream, CurrentStored DEF Record
<1>3. /\ clock' = clock /\ job' = job /\ events' = events
      /\ lastTicked' = lastTicked /\ loop' = loop
  BY DEF Record, loopVars
<1>4. records' \in 0 .. MaxRecords
  BY <1>0 DEF Record
<1>5. ResultsTypeOK'
  BY <1>2, <1>3, <1>4 DEF StreamInv, ResultsTypeOK, StreamTypes
<1>6. LoopInRange' /\ EventsInReach' /\ BuildInReach'
  BY <1>3 DEF StreamInv, LoopInRange, EventsInReach, BuildInReach
<1>7. OldSettled'
  BY <1>2, <1>3 DEF StreamInv, OldSettled, Settled
<1> QED BY <1>2, <1>5, <1>6, <1>7 DEF StreamInv

\* The builder's steps keep it: they concern a slot that is not old.
LEMMA BuilderStream ==
    ASSUME StreamInv, NEW s \in Slots,
           BuilderStarts(s) \/ BuilderSkips(s) \/ BuilderEnds(s, "ready") \/ BuilderEnds(s, "failed")
    PROVE  StreamInv'
<1>0. {s, clock, KeepSlots} \subseteq Int /\ KeepSlots >= 2
  BY ResultsAssumption DEF Slots, StreamInv, ResultsTypeOK
<1>1. s <= clock + 1 /\ s + KeepSlots >= clock + 1
  <2>1. CASE job[s] = "building"
    <3>1. ~(s + KeepSlots < clock + 1)
      BY <2>1 DEF StreamInv, OldSettled, Settled
    <3>2. s <= clock + 1
      BY <2>1 DEF StreamInv, BuildInReach
    <3> QED BY <1>0, <3>1, <3>2
  <2>2. CASE s \in {clock, clock + 1}
    BY <1>0, <2>2
  <2> QED BY <2>1, <2>2 DEF BuilderStarts, BuilderSkips, BuilderEnds
<1>2. PICK k \in Kinds, j \in {"building", "ready", "failed", "skipped"} :
        events' = events \cup {<<k, s>>} /\ job' = [job EXCEPT ![s] = j]
  BY DEF BuilderStarts, BuilderSkips, BuilderEnds, Kinds
<1>3. /\ clock' = clock /\ records' = records /\ build' = build
      /\ lastTicked' = lastTicked /\ loop' = loop
      /\ window' = window /\ pending' = pending /\ flush' = flush /\ firing' = firing
      /\ emitted' = emitted
  BY DEF BuilderStarts, BuilderSkips, BuilderEnds, loopVars, streamVars
<1>4. ResultsTypeOK'
  BY <1>2, <1>3 DEF StreamInv, ResultsTypeOK
<1>5. LoopInRange' /\ Delivery'
  BY <1>3 DEF StreamInv, LoopInRange, Delivery
<1>6. EventsInReach' /\ BuildInReach'
  BY <1>1, <1>2, <1>3 DEF StreamInv, EventsInReach, BuildInReach, ResultsTypeOK
<1>7. OldSettled'
  <2>1. \A f \in Slots : f + KeepSlots < clock + 1 => f # s
    BY <1>0, <1>1
  <2>2. \A f \in Slots \ {s} : Settled(f) => Settled(f)'
    BY <1>2, <1>3 DEF Settled, StreamInv, ResultsTypeOK
  <2> QED BY <1>3, <2>1, <2>2 DEF StreamInv, OldSettled
<1> QED BY <1>4, <1>5, <1>6, <1>7 DEF StreamInv

\* The timers keep it.
LEMMA TimerStream ==
    ASSUME StreamInv, NEW s \in Slots, WindowCloses(s) \/ FlushTakes(s) \/ FlushFires(s)
    PROVE  StreamInv'
<1>1. StreamTypes /\ Delivery
  BY DEF StreamInv, ResultsTypeOK, StreamTypes
<1>2. /\ clock' = clock /\ records' = records /\ build' = build /\ job' = job
      /\ events' = events /\ lastTicked' = lastTicked /\ loop' = loop
  BY DEF WindowCloses, FlushTakes, FlushFires, loopVars
<1>3. StreamTypes'
  BY <1>1 DEF WindowCloses, FlushTakes, FlushFires, StreamTypes, Copies
<1>4. Delivery'
  <2>1. CASE WindowCloses(s)
    BY <1>1, <2>1 DEF WindowCloses, StreamTypes, Delivery
  <2>2. CASE FlushTakes(s)
    <3>1. /\ flush' = flush \ {s} /\ emitted' = emitted /\ firing[s] = "none"
          /\ firing' = [firing EXCEPT ![s] = pending[s]]
          /\ pending' = [pending EXCEPT ![s] = "none"]
          /\ window' = [window EXCEPT ![s] = IF pending[s] = "none" THEN @ ELSE "open"]
      BY <2>2 DEF FlushTakes
    <3> QED BY <1>1, <3>1 DEF StreamTypes, Delivery
  <2>3. CASE FlushFires(s)
    BY <1>1, <2>3 DEF FlushFires, StreamTypes, Delivery
  <2> QED BY <2>1, <2>2, <2>3
<1>5. ResultsTypeOK'
  BY <1>2, <1>3 DEF StreamInv, ResultsTypeOK, StreamTypes
<1>6. LoopInRange' /\ EventsInReach' /\ BuildInReach'
  BY <1>2 DEF StreamInv, LoopInRange, EventsInReach, BuildInReach
<1>7. OldSettled'
  <2>1. \A f \in Slots : f \notin flush /\ firing[f] = "none" => f \notin flush' /\ firing'[f] = "none"
    BY <1>1 DEF WindowCloses, FlushTakes, FlushFires, StreamTypes
  <2> QED BY <1>2, <2>1 DEF StreamInv, OldSettled, Settled
<1> QED BY <1>4, <1>5, <1>6, <1>7 DEF StreamInv

\* A tick starts close enough to the clock.
LEMMA FirstSlotInReach ==
    ASSUME StreamInv, clock > lastTicked
    PROVE  FirstSlot \in Slots /\ FirstSlot <= clock /\ FirstSlot >= clock - CatchUp
<1>1. {MaxSlot, CatchUp, clock, lastTicked} \subseteq Nat /\ clock <= MaxSlot
  BY ResultsAssumption DEF StreamInv, ResultsTypeOK
<1> QED BY <1>1 DEF FirstSlot, Slots

\* The loop's steps within a tick keep it.
LEMMA TickStream ==
    ASSUME StreamInv, SlotTimerFires \/ MaterializeBaseline \/ FinalizeWaitingBaseline
    PROVE  StreamInv'
<1>0. {clock, lastTicked, KeepSlots, CatchUp, MaxSlot} \subseteq Nat /\ KeepSlots >= CatchUp + 2
      /\ clock <= MaxSlot
  BY ResultsAssumption DEF StreamInv, ResultsTypeOK
<1>1. CASE SlotTimerFires
  <2>1. FirstSlot \in Slots /\ FirstSlot <= clock /\ FirstSlot >= clock - CatchUp
    BY <1>1, FirstSlotInReach DEF SlotTimerFires
  <2>2. /\ loop' = [pc |-> "materialize", slot |-> FirstSlot, until |-> clock]
        /\ clock' = clock /\ records' = records /\ build' = build /\ job' = job
        /\ events' = events /\ lastTicked' = lastTicked
        /\ window' = window /\ pending' = pending /\ flush' = flush /\ firing' = firing
        /\ emitted' = emitted
    BY <1>1 DEF SlotTimerFires, streamVars
  <2>3. ResultsTypeOK'
    BY <1>0, <2>1, <2>2 DEF StreamInv, ResultsTypeOK, Slots
  <2>4. LoopInRange' /\ EventsInReach' /\ BuildInReach' /\ Delivery'
    BY <1>0, <2>1, <2>2 DEF StreamInv, LoopInRange, EventsInReach, BuildInReach, Delivery
  <2>5. OldSettled'
    <3>1. \A f \in Slots : f + KeepSlots < clock + 1 => FirstSlot - 1 > f
      BY <1>0, <2>1 DEF Slots
    <3> QED BY <2>2, <3>1 DEF StreamInv, OldSettled, Settled
  <2> QED BY <2>3, <2>4, <2>5 DEF StreamInv
<1>2. ASSUME loop.pc # "select", NEW s \in Slots, NEW b \in Stored,
             s = loop.slot \/ s = loop.slot - 1, Upsert(s, b)
      PROVE  /\ build' \in [Slots -> BuildStatus \cup {"absent", "nil"}]
             /\ StreamTypes' /\ Delivery'
             /\ \A f \in Slots : f + KeepSlots < clock + 1 => f \notin flush' /\ firing'[f] = "none"
  <2>1. loop.slot \in Nat /\ loop.slot <= clock /\ s \in Nat
    BY <1>0, <1>2 DEF StreamInv, LoopInRange, Slots, ResultsTypeOK
  <2>2. ~(s + KeepSlots < clock + 1)
    BY <1>0, <1>2, <2>1 DEF StreamInv, OldSettled, Idle
  <2>3. s <= clock + 1 /\ s + KeepSlots >= clock + 1
    BY <1>0, <1>2, <2>1, <2>2
  <2> QED BY <1>2, <2>3, UpsertStream
<1>3. ASSUME UNCHANGED <<build, streamVars>>
      PROVE  /\ build' \in [Slots -> BuildStatus \cup {"absent", "nil"}]
             /\ StreamTypes' /\ Delivery'
             /\ \A f \in Slots : f + KeepSlots < clock + 1 => f \notin flush' /\ firing'[f] = "none"
  BY <1>3 DEF streamVars, StreamInv, ResultsTypeOK, StreamTypes, Delivery, OldSettled, Settled
<1>4. CASE MaterializeBaseline
  <2>1. /\ loop.pc = "materialize" /\ loop.slot \in Slots
        /\ loop.slot <= loop.until /\ loop.until <= clock
    BY <1>4 DEF MaterializeBaseline, StreamInv, LoopInRange
  <2>2. /\ build' \in [Slots -> BuildStatus \cup {"absent", "nil"}]
        /\ StreamTypes' /\ Delivery'
        /\ \A f \in Slots : f + KeepSlots < clock + 1 => f \notin flush' /\ firing'[f] = "none"
    <3>1. (IF Current(loop.slot) # "nil" THEN Current(loop.slot)
           ELSE IF Decision[loop.slot] = "build" THEN "waiting_attributes" ELSE "skipped") \in Stored
      BY <2>1, CurrentStored DEF Stored, BuildStatus
    <3> QED BY <1>2, <1>3, <1>4, <2>1, <3>1 DEF MaterializeBaseline
  <2>3. /\ loop' = [loop EXCEPT !.pc = "finalize"]
        /\ clock' = clock /\ records' = records /\ job' = job
        /\ events' = events /\ lastTicked' = lastTicked
    BY <1>4 DEF MaterializeBaseline
  <2>4. /\ loop'.pc = "finalize" /\ loop'.slot = loop.slot /\ loop'.until = loop.until
        /\ loop' \in [pc : {"select", "materialize", "finalize"}, slot : 0 .. MaxSlot, until : 0 .. MaxSlot]
    BY <2>3 DEF StreamInv, ResultsTypeOK
  <2>5. ResultsTypeOK'
    BY <2>2, <2>3, <2>4 DEF StreamInv, ResultsTypeOK, StreamTypes
  <2>6. LoopInRange' /\ EventsInReach' /\ BuildInReach'
    BY <2>1, <2>3, <2>4 DEF StreamInv, LoopInRange, EventsInReach, BuildInReach
  <2>7. OldSettled'
    BY <2>1, <2>2, <2>3, <2>4 DEF StreamInv, OldSettled, Settled, Idle
  <2> QED BY <2>2, <2>5, <2>6, <2>7 DEF StreamInv
<1>5. CASE FinalizeWaitingBaseline
  <2>1. /\ loop.pc = "finalize" /\ loop.slot \in Slots
        /\ loop.slot <= loop.until /\ loop.until <= clock
    BY <1>5 DEF FinalizeWaitingBaseline, StreamInv, LoopInRange
  <2>2. /\ build' \in [Slots -> BuildStatus \cup {"absent", "nil"}]
        /\ StreamTypes' /\ Delivery'
        /\ \A f \in Slots : f + KeepSlots < clock + 1 => f \notin flush' /\ firing'[f] = "none"
    <3>1. "no_attributes" \in Stored
      BY DEF Stored, BuildStatus
    <3> QED BY <1>2, <1>3, <1>5, <2>1, <3>1 DEF FinalizeWaitingBaseline
  <2>3. /\ loop' = IF TickDone THEN Idle ELSE [loop EXCEPT !.pc = "materialize", !.slot = @ + 1]
        /\ lastTicked' = IF TickDone THEN loop.until ELSE lastTicked
        /\ clock' = clock /\ records' = records /\ job' = job /\ events' = events
    BY <1>5 DEF FinalizeWaitingBaseline
  <2>4. loop \in [pc : {"select", "materialize", "finalize"}, slot : 0 .. MaxSlot, until : 0 .. MaxSlot]
    BY DEF StreamInv, ResultsTypeOK
  <2>5. CASE TickDone
    <3>1. loop' = Idle /\ lastTicked' = loop.until
      BY <2>3, <2>5
    <3>2. ResultsTypeOK'
      BY <1>0, <2>2, <2>3, <2>4, <3>1 DEF StreamInv, ResultsTypeOK, StreamTypes, Idle
    <3>3. LoopInRange' /\ EventsInReach' /\ BuildInReach'
      <4>1. loop'.pc = "select"
        BY <3>1 DEF Idle
      <4> QED BY <2>1, <2>3, <3>1, <4>1 DEF StreamInv, LoopInRange, EventsInReach, BuildInReach
    <3>4. OldSettled'
      BY <2>2, <2>3, <3>1 DEF StreamInv, OldSettled, Settled
    <3> QED BY <2>2, <3>2, <3>3, <3>4 DEF StreamInv
  <2>6. CASE ~TickDone
    <3>1. loop' = [loop EXCEPT !.pc = "materialize", !.slot = @ + 1] /\ lastTicked' = lastTicked
      BY <2>3, <2>6
    <3>2. /\ loop'.pc = "materialize" /\ loop'.slot = loop.slot + 1 /\ loop'.until = loop.until
          /\ loop.slot < loop.until
      BY <2>1, <2>4, <2>6, <3>1 DEF TickDone
    <3>3. loop.slot + 1 \in Slots /\ loop.slot + 1 \in 0 .. MaxSlot
      BY <1>0, <2>1, <2>4, <3>2 DEF Slots
    <3>4. ResultsTypeOK'
      <4>1. loop' \in [pc : {"select", "materialize", "finalize"}, slot : 0 .. MaxSlot, until : 0 .. MaxSlot]
        BY <2>4, <3>1, <3>3
      <4> QED BY <2>2, <2>3, <3>1, <4>1 DEF StreamInv, ResultsTypeOK, StreamTypes
    <3>5. LoopInRange' /\ EventsInReach' /\ BuildInReach'
      BY <2>1, <2>3, <2>4, <3>1, <3>2, <3>3 DEF StreamInv, LoopInRange, EventsInReach, BuildInReach
    <3>6. OldSettled'
      <4>1. \A f \in Slots : f + KeepSlots < clock + 1 => loop.slot - 1 > f /\ Settled(f)
        BY <2>1 DEF StreamInv, OldSettled, Idle
      <4>2. \A f \in Slots : loop.slot - 1 > f => loop'.slot - 1 > f
        BY <2>4, <3>2 DEF Slots
      <4> QED BY <2>2, <2>3, <4>1, <4>2 DEF OldSettled, Settled
    <3> QED BY <2>2, <3>4, <3>5, <3>6 DEF StreamInv
  <2> QED BY <2>5, <2>6
<1> QED BY <1>1, <1>4, <1>5

\* Pruning and the clock keep it.
LEMMA PruneClockStream ==
    ASSUME StreamInv, PruneForEpoch \/ ClockTicks
    PROVE  StreamInv'
<1>0. {clock, MaxSlot, KeepSlots} \subseteq Nat
  BY ResultsAssumption DEF StreamInv, ResultsTypeOK
<1>1. CASE PruneForEpoch
  <2> DEFINE old == {s \in Slots : s + Retention < clock}
  <2>1. /\ \A s \in old : Settled(s)
        /\ build' = [s \in Slots |-> IF s \in old THEN "absent" ELSE build[s]]
        /\ window' = [s \in Slots |-> IF s \in old THEN "never" ELSE window[s]]
        /\ clock' = clock /\ records' = records /\ job' = job /\ events' = events
        /\ lastTicked' = lastTicked /\ loop' = loop
        /\ pending' = pending /\ flush' = flush /\ firing' = firing /\ emitted' = emitted
    BY <1>1 DEF PruneForEpoch, loopVars
  <2>2. \A s \in old : s \in Slots
    OBVIOUS
  <2> HIDE DEF old
  <2>3. ResultsTypeOK'
    BY <2>1 DEF StreamInv, ResultsTypeOK
  <2>4. LoopInRange' /\ EventsInReach' /\ BuildInReach' /\ OldSettled'
    BY <2>1 DEF StreamInv, LoopInRange, EventsInReach, BuildInReach, OldSettled, Settled
  <2>5. Delivery'
    BY <2>1, <2>2 DEF StreamInv, Delivery, Settled
  <2> QED BY <2>3, <2>4, <2>5 DEF StreamInv
<1>2. CASE ClockTicks
  <2>1. /\ clock < MaxSlot /\ clock' = clock + 1
        /\ job' = job /\ events' = events /\ build' = build /\ lastTicked' = lastTicked
        /\ loop' = loop /\ window' = window /\ pending' = pending /\ flush' = flush
        /\ firing' = firing /\ emitted' = emitted /\ records' = records
        /\ \A s \in Slots : s + KeepSlots < clock + 2 => Settled(s) /\ (loop = Idle \/ loop.slot - 1 > s)
    BY <1>2 DEF ClockTicks, loopVars, streamVars
  <2>2. clock' \in 0 .. MaxSlot
    BY <1>0, <2>1
  <2>3. ResultsTypeOK'
    BY <2>1, <2>2 DEF StreamInv, ResultsTypeOK
  <2>4. LoopInRange'
    BY <1>0, <2>1 DEF StreamInv, LoopInRange, ResultsTypeOK
  <2>5. EventsInReach' /\ BuildInReach'
    BY <1>0, <2>1 DEF StreamInv, EventsInReach, BuildInReach, Slots
  <2>6. Delivery'
    BY <2>1 DEF StreamInv, Delivery
  <2>7. OldSettled'
    <3>1. \A f \in Slots : f + KeepSlots < clock' + 1 => f + KeepSlots < clock + 2
      BY <1>0, <2>1 DEF Slots
    <3> QED BY <2>1, <3>1 DEF OldSettled, Settled
  <2> QED BY <2>3, <2>4, <2>5, <2>6, <2>7 DEF StreamInv
<1> QED BY <1>1, <1>2

\* Every handler of the loop takes an event and upserts its slot.
LEMMA LoopStepUpserts ==
    ASSUME StreamInv, NEW s \in Slots, LoopStep(s)
    PROVE  \E k \in Kinds, b \in Stored : Take(k, s) /\ Upsert(s, b)
<1>1. Current(s) \in Stored /\ {"started", "ready", "failed", "skipped"} \subseteq Stored
  BY CurrentStored DEF Stored, BuildStatus
<1>2. CASE HandleBuildStarted(s)
  BY <1>1, <1>2 DEF HandleBuildStarted, Kinds
<1>3. CASE HandlePayloadReady(s)
  BY <1>1, <1>3 DEF HandlePayloadReady, Kinds
<1>4. CASE HandleBuildFailed(s)
  BY <1>1, <1>4 DEF HandleBuildFailed, Kinds
<1>5. CASE HandleBuildSkipped(s)
  BY <1>1, <1>5 DEF HandleBuildSkipped, Kinds
<1> QED BY <1>2, <1>3, <1>4, <1>5 DEF LoopStep

\* Initially.
LEMMA StreamInit ==
    ASSUME Init
    PROVE  StreamInv
<1>1. MaxSlot \in Nat /\ MaxRecords \in Nat /\ KeepSlots \in Nat /\ KeepSlots >= 2
  BY ResultsAssumption
<1>2. ResultsTypeOK
  BY <1>1 DEF Init, ResultsTypeOK, Idle, Copies
<1>3. LoopInRange /\ EventsInReach /\ BuildInReach /\ Delivery
  BY DEF Init, LoopInRange, EventsInReach, BuildInReach, Delivery, Idle
<1>4. OldSettled
  BY <1>1 DEF Init, OldSettled, Settled
<1> QED BY <1>2, <1>3, <1>4 DEF StreamInv

\* The stream's invariant is inductive.
LEMMA StreamStep ==
    ASSUME StreamInv, [Next]_vars
    PROVE  StreamInv'
<1>1. ASSUME NEW s \in Slots, LoopStep(s) PROVE StreamInv'
  BY <1>1, LoopStepUpserts, TakeStream
<1>2. CASE UNCHANGED vars
  <2>1. /\ clock' = clock /\ job' = job /\ events' = events /\ build' = build
        /\ lastTicked' = lastTicked /\ loop' = loop /\ records' = records
        /\ window' = window /\ pending' = pending /\ flush' = flush /\ firing' = firing
        /\ emitted' = emitted
    BY <1>2 DEF vars, loopVars, streamVars
  <2>2. ResultsTypeOK'
    BY <2>1 DEF StreamInv, ResultsTypeOK
  <2>3. LoopInRange' /\ EventsInReach' /\ BuildInReach' /\ Delivery' /\ OldSettled'
    BY <2>1 DEF StreamInv, LoopInRange, EventsInReach, BuildInReach, Delivery, OldSettled, Settled
  <2> QED BY <2>2, <2>3 DEF StreamInv
<1> QED
  BY <1>1, <1>2, BuilderStream, RecordStream, TimerStream, TickStream, PruneClockStream DEF Next

\* The types, the bookkeeping of the loop and the delivery of updates, throughout.
THEOREM StreamInvariant == Spec => []StreamInv
<1>1. Init => StreamInv
  BY StreamInit
<1>2. StreamInv /\ [Next]_vars => StreamInv'
  BY StreamStep
<1> QED BY <1>1, <1>2, PTL DEF Spec

\* The final state of every record is delivered: a stored record that no update showed
\* yet is with a timer, whatever bursts, late timers and pruned maps come in between.
THEOREM FinalStateIsDelivered == Spec => []FinalStateDelivered
<1>1. StreamInv => FinalStateDelivered
  BY DEF StreamInv, Delivery, FinalStateDelivered
<1> QED BY <1>1, StreamInvariant, PTL

-----------------------------------------------------------------------------
(* What the record says of the build.                                      *)

ResultsInv == StreamInv /\ BuildProgress /\ WaitingBound

\* The waiting bound survives when no slot begins to wait.
LEMMA WaitingKept ==
    ASSUME WaitingBound, loop' = loop, lastTicked' = lastTicked,
           \A t \in Slots : build'[t] = "waiting_attributes" => build[t] = "waiting_attributes"
    PROVE  WaitingBound'
BY DEF WaitingBound

\* The progress of a slot survives where its job, its events and its record do.
LEMMA ProgressKept ==
    ASSUME NEW t \in Slots, Progress(t), build'[t] = build[t], job'[t] = job[t],
           \A k \in Kinds : <<k, t>> \in events' <=> <<k, t>> \in events,
           Gone(t) => Gone(t)'
    PROVE  Progress(t)'
<1>1. {"ready", "failed", "skipped", "started"} \subseteq Kinds
  BY DEF Kinds
<1> QED BY <1>1 DEF Progress

\* The record of a slot that is gone stays gone while no tick starts.
LEMMA GoneKept ==
    ASSUME NEW t \in Slots, Gone(t), build'[t] = build[t], clock' = clock, loop' = loop,
           \A k \in Kinds : <<k, t>> \in events' <=> <<k, t>> \in events
    PROVE  Gone(t)'
BY DEF Gone

\* A handled event leaves its slot's record right.
LEMMA LoopProgress ==
    ASSUME ResultsInv, NEW s \in Slots, LoopStep(s)
    PROVE  BuildProgress' /\ WaitingBound'
<1>1. PICK k \in Kinds, b \in Stored : Take(k, s) /\ Upsert(s, b)
  BY LoopStepUpserts DEF ResultsInv
<1>2. /\ clock' = clock /\ job' = job /\ loop' = loop /\ lastTicked' = lastTicked
      /\ events' = events \ {<<k, s>>} /\ <<k, s>> \in events
      /\ build' = [build EXCEPT ![s] = b]
  BY <1>1 DEF Take, Upsert, loopVars
<1>3. build \in [Slots -> BuildStatus \cup {"absent", "nil"}] /\ Decision[s] \in {"build", "skip", "uninvolved"}
  BY ResultsAssumption DEF ResultsInv, StreamInv, ResultsTypeOK
<1>4. \A t \in Slots \ {s} : Progress(t)'
  <2> TAKE t \in Slots \ {s}
  <2>1. build'[t] = build[t] /\ \A j \in Kinds : <<j, t>> \in events' <=> <<j, t>> \in events
    BY <1>2, <1>3
  <2>2. Gone(t) => Gone(t)'
    BY <1>2, <2>1, GoneKept
  <2> QED BY <1>2, <2>1, <2>2, ProgressKept DEF ResultsInv, BuildProgress
<1>5. Progress(s) /\ ~Gone(s)
  BY <1>2 DEF ResultsInv, BuildProgress, Gone
<1>6. Progress(s)' /\ (b = "waiting_attributes" => build[s] = "waiting_attributes")
  <2>1. CASE HandleBuildStarted(s)
    <3>1. k = "started" /\ b = IF Current(s) \in {"nil", "waiting_attributes", "no_attributes"}
                               THEN "started" ELSE Current(s)
      <4>1. <<"started", s>> \in events /\ events' = events \ {<<"started", s>>}
        BY <2>1 DEF HandleBuildStarted, Take
      <4>2. build'[s] = IF Current(s) \in {"nil", "waiting_attributes", "no_attributes"}
                        THEN "started" ELSE Current(s)
        BY <1>3, <2>1 DEF HandleBuildStarted, Upsert
      <4> QED BY <1>2, <1>3, <4>1, <4>2
    <3>2. Decision[s] = "build"
      BY <1>2, <1>3, <1>5, <3>1 DEF Progress, Kinds
    <3>3. b # "waiting_attributes" /\ b # "skipped" /\ (build[s] \in {"ready", "failed"} => b = build[s])
      BY <1>5, <3>1, <3>2 DEF Current, Progress
    <3>4. job[s] # "none" /\ job[s] # "skipped"
      BY <1>2, <1>5, <3>1, <3>2 DEF Progress, Kinds
    <3> QED BY <1>2, <1>3, <1>5, <3>1, <3>2, <3>3, <3>4 DEF Progress, Kinds
  <2>2. CASE HandlePayloadReady(s) \/ HandleBuildFailed(s)
    <3>1. k \in {"ready", "failed"} /\ b = k
      <4>1. CASE HandlePayloadReady(s)
        BY <1>2, <1>3, <4>1 DEF HandlePayloadReady, Take, Upsert
      <4>2. CASE HandleBuildFailed(s)
        BY <1>2, <1>3, <4>2 DEF HandleBuildFailed, Take, Upsert
      <4> QED BY <2>2, <4>1, <4>2
    <3>2. job[s] = k
      BY <1>2, <1>5, <3>1 DEF Progress
    <3>3. Decision[s] = "build"
      BY <1>3, <1>5, <3>1, <3>2 DEF Progress
    <3> QED BY <1>2, <1>3, <1>5, <3>1, <3>2, <3>3 DEF Progress, Kinds
  <2>3. CASE HandleBuildSkipped(s)
    <3>1. k = "skipped" /\ b = IF Current(s) \in {"nil", "waiting_attributes"}
                               THEN "skipped" ELSE Current(s)
      <4>1. <<"skipped", s>> \in events /\ events' = events \ {<<"skipped", s>>}
        BY <2>3 DEF HandleBuildSkipped, Take
      <4>2. build'[s] = IF Current(s) \in {"nil", "waiting_attributes"} THEN "skipped" ELSE Current(s)
        BY <1>3, <2>3 DEF HandleBuildSkipped, Upsert
      <4> QED BY <1>2, <1>3, <4>1, <4>2
    <3>2. job[s] = "skipped" /\ Decision[s] = "skip"
      BY <1>2, <1>3, <1>5, <3>1 DEF Progress
    <3>3. b = "skipped"
      BY <1>5, <3>1, <3>2 DEF Current, Progress
    <3> QED BY <1>2, <1>3, <1>5, <3>1, <3>2, <3>3 DEF Progress, Kinds
  <2> QED BY <2>1, <2>2, <2>3 DEF LoopStep
<1>7. WaitingBound'
  BY <1>2, <1>3, <1>6, WaitingKept DEF ResultsInv
<1> QED BY <1>4, <1>6, <1>7 DEF BuildProgress

\* An attempt is recorded for a slot that is not gone, and leaves its build alone.
LEMMA RecordProgress ==
    ASSUME ResultsInv, NEW s \in Slots, Record(s)
    PROVE  BuildProgress' /\ WaitingBound'
<1>1. /\ clock' = clock /\ job' = job /\ loop' = loop /\ lastTicked' = lastTicked
      /\ events' = events /\ build' = [build EXCEPT ![s] = Current(s)]
  BY DEF Record, Upsert, loopVars
<1>2. build \in [Slots -> BuildStatus \cup {"absent", "nil"}]
  BY DEF ResultsInv, StreamInv, ResultsTypeOK
<1>3. ~Gone(s)
  <2>1. {s, clock, Retention} \subseteq Int /\ Retention >= 1
    BY ResultsAssumption DEF Slots, ResultsInv, StreamInv, ResultsTypeOK
  <2> QED BY <2>1 DEF Record, Gone
<1>4. \A t \in Slots : Progress(t)'
  <2> TAKE t \in Slots
  <2>1. Progress(t)
    BY DEF ResultsInv, BuildProgress
  <2>2. CASE t # s \/ build[s] # "absent"
    <3>1. build'[t] = build[t]
      BY <1>1, <1>2, <2>2 DEF Current
    <3>2. Gone(t) => Gone(t)'
      BY <1>1, <3>1, GoneKept
    <3> QED BY <1>1, <2>1, <3>1, <3>2, ProgressKept
  <2>3. CASE t = s /\ build[s] = "absent"
    <3>1. build'[s] = "nil"
      BY <1>1, <1>2, <2>3 DEF Current
    <3> QED BY <1>1, <1>3, <2>1, <2>3, <3>1 DEF Progress
  <2> QED BY <2>2, <2>3
<1>5. \A t \in Slots : build'[t] = "waiting_attributes" => build[t] = "waiting_attributes"
  BY <1>1, <1>2 DEF Current
<1> QED BY <1>1, <1>4, <1>5, WaitingKept DEF ResultsInv, BuildProgress

\* A step of the builder announces what it did.
LEMMA BuilderProgress ==
    ASSUME ResultsInv, NEW s \in Slots,
           BuilderStarts(s) \/ BuilderSkips(s) \/ BuilderEnds(s, "ready") \/ BuilderEnds(s, "failed")
    PROVE  BuildProgress' /\ WaitingBound'
<1>1. /\ clock' = clock /\ build' = build /\ loop' = loop /\ lastTicked' = lastTicked
  BY DEF BuilderStarts, BuilderSkips, BuilderEnds, loopVars, streamVars
<1>2. /\ Progress(s) /\ job \in [Slots -> {"none", "building", "ready", "failed", "skipped"}]
      /\ Decision[s] \in {"build", "skip", "uninvolved"}
  BY ResultsAssumption DEF ResultsInv, BuildProgress, StreamInv, ResultsTypeOK
<1>3. PICK k \in Kinds, j \in {"building", "ready", "failed", "skipped"} :
        events' = events \cup {<<k, s>>} /\ job' = [job EXCEPT ![s] = j]
  BY DEF BuilderStarts, BuilderSkips, BuilderEnds, Kinds
<1>4. \A t \in Slots \ {s} : Progress(t)'
  <2> TAKE t \in Slots \ {s}
  <2>1. job'[t] = job[t] /\ \A i \in Kinds : <<i, t>> \in events' <=> <<i, t>> \in events
    BY <1>2, <1>3
  <2>2. Gone(t) => Gone(t)'
    BY <1>1, <2>1, GoneKept
  <2> QED BY <1>1, <2>1, <2>2, ProgressKept DEF ResultsInv, BuildProgress
<1>5. Progress(s)'
  <2>1. CASE BuilderStarts(s)
    BY <1>1, <1>2, <2>1 DEF BuilderStarts, Progress, Kinds
  <2>2. CASE BuilderSkips(s)
    BY <1>1, <1>2, <2>2 DEF BuilderSkips, Progress, Kinds
  <2>3. CASE BuilderEnds(s, "ready")
    BY <1>1, <1>2, <2>3 DEF BuilderEnds, Progress, Kinds
  <2>4. CASE BuilderEnds(s, "failed")
    BY <1>1, <1>2, <2>4 DEF BuilderEnds, Progress, Kinds
  <2> QED BY <2>1, <2>2, <2>3, <2>4
<1> QED BY <1>1, <1>4, <1>5, WaitingKept DEF ResultsInv, BuildProgress

\* A tick starts beyond every slot that is gone, and within the bound on waiting.
LEMMA SlotTimerProgress ==
    ASSUME ResultsInv, SlotTimerFires
    PROVE  BuildProgress' /\ WaitingBound'
<1>0. /\ {clock, lastTicked, CatchUp, Retention} \subseteq Nat /\ Retention > CatchUp
      /\ clock > lastTicked /\ loop.pc = "select"
  BY ResultsAssumption DEF ResultsInv, StreamInv, ResultsTypeOK, SlotTimerFires, Idle
<1>1. FirstSlot \in Slots /\ FirstSlot <= clock /\ FirstSlot >= clock - CatchUp
  BY <1>0, FirstSlotInReach DEF ResultsInv
<1>2. /\ loop' = [pc |-> "materialize", slot |-> FirstSlot, until |-> clock]
      /\ clock' = clock /\ build' = build /\ job' = job /\ events' = events
  BY DEF SlotTimerFires
<1>3. loop'.pc = "materialize" /\ loop'.slot = FirstSlot /\ loop'.until = clock
  BY <1>2
<1>4. BuildProgress'
  <2> SUFFICES ASSUME NEW t \in Slots PROVE Progress(t)'
    BY DEF BuildProgress
  <2>1. t \in Nat
    BY DEF Slots
  <2>2. Gone(t) => Gone(t)'
    <3>1. t + Retention < clock => FirstSlot > t
      BY <1>0, <1>1, <2>1 DEF Slots
    <3> QED BY <1>2, <1>3, <3>1 DEF Gone
  <2> QED BY <1>2, <2>2, ProgressKept DEF ResultsInv, BuildProgress
<1>5. WaitingBound'
  <2> SUFFICES ASSUME NEW t \in Slots, build[t] = "waiting_attributes"
               PROVE  t >= FirstSlot - 1 \/ t < clock - CatchUp - 1
    BY <1>2, <1>3 DEF WaitingBound
  <2>1. t >= lastTicked \/ t < lastTicked - CatchUp - 1
    BY <1>0 DEF ResultsInv, WaitingBound
  <2>2. t \in Nat
    BY DEF Slots
  <2> QED BY <1>0, <2>1, <2>2 DEF FirstSlot
<1> QED BY <1>4, <1>5

\* The loop's other steps in a tick: a baseline is written where there was none, and
\* the slot before stops waiting.
LEMMA TickProgress ==
    ASSUME ResultsInv, MaterializeBaseline \/ FinalizeWaitingBaseline
    PROVE  BuildProgress' /\ WaitingBound'
<1>0. /\ build \in [Slots -> BuildStatus \cup {"absent", "nil"}]
      /\ loop \in [pc : {"select", "materialize", "finalize"}, slot : 0 .. MaxSlot, until : 0 .. MaxSlot]
      /\ {CatchUp, MaxSlot} \subseteq Nat
  BY ResultsAssumption DEF ResultsInv, StreamInv, ResultsTypeOK
<1>1. CASE MaterializeBaseline
  <2>0. loop.slot \in Slots /\ loop.pc = "materialize"
    BY <1>1 DEF MaterializeBaseline, ResultsInv, StreamInv, LoopInRange
  <2>1. PICK s \in Slots : s = loop.slot /\ loop.pc = "materialize"
    BY <2>0
  <2>2. /\ clock' = clock /\ job' = job /\ events' = events /\ lastTicked' = lastTicked
        /\ loop' = [loop EXCEPT !.pc = "finalize"]
    BY <1>1 DEF MaterializeBaseline
  <2>3. loop'.pc = "finalize" /\ loop'.slot = s /\ loop'.until = loop.until
    BY <1>0, <2>1, <2>2
  <2>4. Decision[s] \in {"build", "skip", "uninvolved"}
    BY <2>1, ResultsAssumption
  <2>5. /\ \A t \in Slots \ {s} : build'[t] = build[t]
        /\ \/ build'[s] = build[s] /\ build[s] \notin {"absent", "nil"}
           \/ build[s] \in {"absent", "nil"} /\ Decision[s] = "build" /\ build'[s] = "waiting_attributes"
           \/ build[s] \in {"absent", "nil"} /\ Decision[s] = "skip" /\ build'[s] = "skipped"
           \/ build'[s] = build[s] /\ Decision[s] = "uninvolved"
    <3>1. CASE Decision[s] = "uninvolved" /\ UNCHANGED <<build, streamVars>>
      BY <3>1
    <3>2. CASE /\ Decision[s] # "uninvolved"
               /\ Upsert(s, IF Current(s) # "nil" THEN Current(s)
                            ELSE IF Decision[s] = "build" THEN "waiting_attributes" ELSE "skipped")
      BY <1>0, <2>1, <2>4, <3>2 DEF Upsert, Current
    <3> QED BY <1>1, <2>1, <3>1, <3>2 DEF MaterializeBaseline
  <2>6. ~Gone(s)
    <3>1. loop # Idle
      BY <2>1 DEF Idle
    <3>2. ~(loop.slot > s)
      BY <1>0, <2>1
    <3> QED BY <3>1, <3>2 DEF Gone
  <2>7. \A t \in Slots : Gone(t) => t # s /\ Gone(t)'
    BY <2>1, <2>2, <2>3, <2>5, <2>6 DEF Gone, Idle
  <2>8. \A t \in Slots \ {s} : Progress(t)'
    BY <2>2, <2>5, <2>7, ProgressKept DEF ResultsInv, BuildProgress
  <2>9. Progress(s)'
    <3>1. Progress(s)
      BY <2>1 DEF ResultsInv, BuildProgress
    <3> QED BY <2>1, <2>2, <2>4, <2>5, <2>6, <3>1 DEF Progress
  <2>10. WaitingBound'
    <3> SUFFICES ASSUME NEW t \in Slots, build'[t] = "waiting_attributes"
                 PROVE  t >= s - 1 \/ t < loop.until - CatchUp - 1
      BY <2>3 DEF WaitingBound
    <3>1. CASE t = s
      BY <1>0, <2>1, <3>1
    <3>2. CASE t # s
      BY <2>1, <2>5, <3>2 DEF ResultsInv, WaitingBound
    <3> QED BY <3>1, <3>2
  <2> QED BY <2>8, <2>9, <2>10 DEF BuildProgress
<1>2. CASE FinalizeWaitingBaseline
  <2> DEFINE p == loop.slot - 1
  <2>1. loop.slot \in Slots /\ loop.pc = "finalize" /\ p \in Int
    BY <1>0, <1>2 DEF FinalizeWaitingBaseline, ResultsInv, StreamInv, LoopInRange, Slots
  <2>2. /\ clock' = clock /\ job' = job /\ events' = events
        /\ loop' = IF TickDone THEN Idle ELSE [loop EXCEPT !.pc = "materialize", !.slot = @ + 1]
        /\ lastTicked' = IF TickDone THEN loop.until ELSE lastTicked
    BY <1>2 DEF FinalizeWaitingBaseline
  <2>3. \A t \in Slots :
          \/ build'[t] = build[t] /\ ~(t = p /\ build[t] = "waiting_attributes")
          \/ t = p /\ build[t] = "waiting_attributes" /\ build'[t] = "no_attributes"
    <3>1. CASE p \in Slots /\ build[p] = "waiting_attributes" /\ Upsert(p, "no_attributes")
      <4>1. build' = [build EXCEPT ![p] = "no_attributes"]
        BY <3>1 DEF Upsert
      <4> HIDE DEF p
      <4> QED BY <1>0, <3>1, <4>1
    <3>2. CASE ~(p \in Slots /\ build[p] = "waiting_attributes") /\ UNCHANGED <<build, streamVars>>
      BY <3>2
    <3> QED BY <1>2, <3>1, <3>2 DEF FinalizeWaitingBaseline
  <2>4. \/ loop' = Idle
        \/ loop'.pc = "materialize" /\ loop'.slot = loop.slot + 1 /\ loop'.until = loop.until
    BY <1>0, <2>2
  <2>5. \A t \in Slots : Gone(t) => Gone(t)'
    <3> SUFFICES ASSUME NEW t \in Slots, Gone(t) PROVE Gone(t)'
      OBVIOUS
    <3>1. build'[t] = build[t] /\ loop.slot > t
      BY <2>1, <2>3 DEF Gone, Idle
    <3>2. loop' = Idle \/ loop'.slot > t
      BY <1>0, <2>4, <3>1 DEF Slots
    <3> QED BY <2>2, <3>1, <3>2 DEF Gone
  <2>6. \A t \in Slots : Progress(t)'
    <3> TAKE t \in Slots
    <3>1. Progress(t)
      BY DEF ResultsInv, BuildProgress
    <3>2. CASE build'[t] = build[t]
      BY <2>2, <2>5, <3>1, <3>2, ProgressKept
    <3>3. CASE build[t] = "waiting_attributes" /\ build'[t] = "no_attributes"
      BY <2>2, <2>5, <3>1, <3>3, ResultsAssumption DEF Progress
    <3> QED BY <2>3, <3>2, <3>3
  <2>7. WaitingBound'
    <3> SUFFICES ASSUME NEW t \in Slots, build'[t] = "waiting_attributes"
                 PROVE  IF loop'.pc = "select"
                        THEN t >= lastTicked' \/ t < lastTicked' - CatchUp - 1
                        ELSE t >= loop'.slot - 1 \/ t < loop'.until - CatchUp - 1
      BY DEF WaitingBound
    <3>1. build[t] = "waiting_attributes" /\ t # p
      BY <2>3
    <3>2. t >= loop.slot - 1 \/ t < loop.until - CatchUp - 1
      BY <2>1, <3>1 DEF ResultsInv, WaitingBound
    <3>3. t >= loop.slot \/ t < loop.until - CatchUp - 1
      BY <1>0, <3>1, <3>2 DEF Slots
    <3>4. CASE TickDone
      <4>1. loop'.pc = "select" /\ lastTicked' = loop.until /\ loop.slot = loop.until
        BY <2>2, <3>4 DEF Idle, TickDone
      <4> QED BY <3>3, <4>1
    <3>5. CASE ~TickDone
      <4>1. loop'.pc = "materialize" /\ loop'.slot = loop.slot + 1 /\ loop'.until = loop.until
        BY <1>0, <2>2, <3>5
      <4> QED BY <1>0, <3>3, <4>1
    <3> QED BY <3>4, <3>5
  <2> QED BY <2>6, <2>7 DEF BuildProgress
<1> QED BY <1>1, <1>2

\* Pruning takes the record of a slot whose events are all handled.
LEMMA PruneProgress ==
    ASSUME ResultsInv, PruneForEpoch
    PROVE  BuildProgress' /\ WaitingBound'
<1> DEFINE old == {s \in Slots : s + Retention < clock}
<1>1. /\ loop = Idle /\ \A s \in old : Settled(s)
      /\ build' = [s \in Slots |-> IF s \in old THEN "absent" ELSE build[s]]
      /\ clock' = clock /\ job' = job /\ events' = events
      /\ lastTicked' = lastTicked /\ loop' = loop
  BY DEF PruneForEpoch, loopVars
<1>2. \A t \in Slots : Progress(t)'
  <2> TAKE t \in Slots
  <2>1. Progress(t)
    BY DEF ResultsInv, BuildProgress
  <2>2. CASE t \in old
    <3>1. Gone(t)'
      BY <1>1, <2>2 DEF Gone, Settled
    <3>2. build'[t] = "absent"
      BY <1>1, <2>2
    <3> QED BY <1>1, <2>1, <3>1, <3>2 DEF Progress
  <2>3. CASE t \notin old
    <3>1. build'[t] = build[t]
      BY <1>1, <2>3
    <3> QED BY <1>1, <2>1, <3>1, GoneKept, ProgressKept
  <2> QED BY <2>2, <2>3
<1>3. \A t \in Slots : build'[t] = "waiting_attributes" => build[t] = "waiting_attributes"
  BY <1>1
<1> QED BY <1>1, <1>2, <1>3, WaitingKept DEF ResultsInv, BuildProgress

\* A step that leaves the records, the jobs, the events and the loop alone.
LEMMA IdleProgress ==
    ASSUME ResultsInv, job' = job, events' = events, build' = build, loop' = loop,
           lastTicked' = lastTicked, clock' \in {clock, clock + 1}
    PROVE  BuildProgress' /\ WaitingBound'
<1>1. \A t \in Slots : Gone(t) => Gone(t)'
  <2>1. {clock, Retention} \subseteq Nat
    BY ResultsAssumption DEF ResultsInv, StreamInv, ResultsTypeOK
  <2>2. \A t \in Slots : t + Retention < clock => t + Retention < clock'
    BY <2>1 DEF Slots
  <2> QED BY <2>2 DEF Gone
<1>2. BuildProgress'
  BY <1>1, ProgressKept DEF ResultsInv, BuildProgress
<1> QED BY <1>2, WaitingKept DEF ResultsInv

\* The whole invariant is inductive.
LEMMA ResultsStep ==
    ASSUME ResultsInv, [Next]_vars
    PROVE  ResultsInv'
<1>1. StreamInv'
  BY StreamStep DEF ResultsInv
<1>2. ASSUME NEW s \in Slots, WindowCloses(s) \/ FlushTakes(s) \/ FlushFires(s)
      PROVE  BuildProgress' /\ WaitingBound'
  BY <1>2, IdleProgress DEF WindowCloses, FlushTakes, FlushFires, loopVars
<1>3. ASSUME ClockTicks \/ UNCHANGED vars
      PROVE  BuildProgress' /\ WaitingBound'
  <2>1. /\ job' = job /\ events' = events /\ build' = build /\ loop' = loop
        /\ lastTicked' = lastTicked /\ clock' \in {clock, clock + 1}
    BY <1>3 DEF ClockTicks, vars, loopVars
  <2> QED BY <2>1, IdleProgress
<1>4. BuildProgress' /\ WaitingBound'
  <2>1. ASSUME NEW s \in Slots,
               \/ BuilderStarts(s) \/ BuilderSkips(s)
               \/ BuilderEnds(s, "ready") \/ BuilderEnds(s, "failed")
        PROVE  BuildProgress' /\ WaitingBound'
    BY <2>1, BuilderProgress
  <2>2. ASSUME NEW s \in Slots, LoopStep(s) \/ Record(s)
        PROVE  BuildProgress' /\ WaitingBound'
    BY <2>2, LoopProgress, RecordProgress
  <2>3. CASE SlotTimerFires \/ MaterializeBaseline \/ FinalizeWaitingBaseline \/ PruneForEpoch
    BY <2>3, SlotTimerProgress, TickProgress, PruneProgress
  <2> QED BY <1>2, <1>3, <2>1, <2>2, <2>3 DEF Next
<1> QED BY <1>1, <1>4 DEF ResultsInv

\* The invariant holds throughout.
THEOREM ResultsInvariant == Spec => []ResultsInv
<1>1. Init => ResultsInv
  <2>1. Init => StreamInv
    BY StreamInit
  <2>2. Init => BuildProgress
    BY DEF Init, BuildProgress, Progress
  <2>3. Init => WaitingBound
    BY DEF Init, WaitingBound
  <2> QED BY <2>1, <2>2, <2>3 DEF ResultsInv
<1>2. ResultsInv /\ [Next]_vars => ResultsInv'
  BY ResultsStep
<1> QED BY <1>1, <1>2, PTL DEF Spec

\* When a slot's events are handled, in whatever order the loop took them, the stored
\* record says what the builder did.
THEOREM BuildIsRecorded == Spec => []BuildRecorded
<1>1. ResultsInv => BuildRecorded
  BY DEF ResultsInv, BuildProgress, Progress, Gone, BuildRecorded, Kinds
<1> QED BY <1>1, ResultsInvariant, PTL

\* After a tick no slot within reach of the catch-up still waits for attributes,
\* however far the loop had fallen behind.
THEOREM WaitingHasEnded == Spec => []WaitingEnds
<1>1. ResultsInv => WaitingEnds
  <2> SUFFICES ASSUME ResultsInv, NEW s \in Slots, loop = Idle, s < lastTicked,
                      s >= lastTicked - CatchUp - 1, build[s] = "waiting_attributes"
               PROVE  FALSE
    BY DEF WaitingEnds
  <2>1. s >= lastTicked \/ s < lastTicked - CatchUp - 1
    BY DEF ResultsInv, WaitingBound, Idle
  <2>2. {s, lastTicked, CatchUp} \subseteq Int
    BY ResultsAssumption DEF Slots, ResultsInv, StreamInv, ResultsTypeOK
  <2> QED BY <2>1, <2>2
<1> QED BY <1>1, ResultsInvariant, PTL

=============================================================================
