--------------------------- MODULE MemStoreProofs ---------------------------
(***************************************************************************)
(* What MemStore guarantees for every set of keys, values and clients: its *)
(* types, that an unmarked key is in the table as it is in memory, that    *)
(* Stop is durable, and that no wake-up of the flush loop is lost.         *)
(***************************************************************************)
EXTENDS MemStore, TLAPS

\* notify's argument is a level, and is not "none" while anything is pending.
LEMMA LevelType ==
    ASSUME NEW d, NEW x
    PROVE  /\ Level(d, x) \in Levels
           /\ d \cup x # {} => Level(d, x) # "none"
  BY DEF Level, Levels

\* The type invariant is inductive.
LEMMA TypeStep == TypeOK /\ [Next]_vars => TypeOK'
<1> SUFFICES ASSUME TypeOK, [Next]_vars PROVE TypeOK'
  OBVIOUS
<1> USE DEF TypeOK, Threads
<1>1. ASSUME NEW c \in Clients, NEW k \in Keys, NEW v \in Values, Put(c, k, v)
      PROVE  TypeOK'
  BY <1>1, LevelType DEF Put, MarkDirty, RecordLate, runVars
<1>2. ASSUME NEW c \in Clients, NEW K \in SUBSET Keys, Remove(c, K)
      PROVE  TypeOK'
  BY <1>2, LevelType DEF Remove, MarkDeleted, RecordLate, runVars
<1>3. ASSUME NEW t \in Threads, Notify(t) PROVE TypeOK'
  BY <1>3 DEF Notify, Levels, storeVars, runVars
<1>4. CASE Attach
  BY <1>4 DEF Attach, wakeVars
<1>5. ASSUME NEW ok \in BOOLEAN, Loaded(ok) PROVE TypeOK'
  BY <1>5, LevelType DEF Loaded, Load
<1>6. ASSUME Snapshot, loop' \in {loop, "persist"}, main' \in {main, "persist"},
             UNCHANGED <<ctxDone, loadErr, stopErr>>
      PROVE  TypeOK'
  BY <1>6 DEF Snapshot, wakeVars
<1>7. ASSUME PersistBatch, loop' \in {loop, "wait"}, main' \in {main, "stopped"},
             UNCHANGED <<ctxDone, loadErr, stopErr>>
      PROVE  TypeOK'
  BY <1>7 DEF PersistBatch, NoBatch, storeVars, wakeVars
<1>8. ASSUME NEW t \in Threads, Requeue(t), loop' \in {loop, "notify"},
             main' \in {main, "notify"}, stopErr' \in {stopErr, TRUE},
             UNCHANGED <<ctxDone, loadErr>>
      PROVE  TypeOK'
  <2>1. note' \in [Threads -> Levels]
    BY <1>8, LevelType DEF Requeue
  <2>2. /\ {dirty', deleted'} \subseteq SUBSET Keys
        /\ batch' \in [dirty : SUBSET Keys, deleted : SUBSET Keys,
                        upserts : [Keys -> Values \cup {None}]]
    BY <1>8 DEF Requeue, NoBatch
  <2>3. stopErr' \in BOOLEAN
    BY <1>8, Zenon
  <2> QED
    BY <1>8, <2>1, <2>2, <2>3 DEF Requeue
<1>9. CASE LoopStep
  <2>1. CASE LoopExit \/ LoopTimer \/ LoopNotified
    BY <2>1 DEF LoopExit, LoopTimer, LoopNotified, storeVars, wakeVars
  <2>2. CASE LoopPoked \/ LoopForced
    BY <2>2 DEF LoopPoked, LoopForced, storeVars
  <2>3. CASE LoopFlush
    BY <2>3, <1>6 DEF LoopFlush, storeVars, wakeVars
  <2>4. CASE LoopPersisted
    BY <2>4, <1>7 DEF LoopPersisted
  <2>5. CASE LoopPersistFailed
    BY <2>5, <1>8 DEF LoopPersistFailed
  <2> QED
    BY <1>9, <2>1, <2>2, <2>3, <2>4, <2>5 DEF LoopStep
<1>10. CASE Signal \/ StopCall \/ StopJoined \/ StopNotified
  <2>1. ctxDone' \in BOOLEAN
    BY <1>10, Zenon DEF Signal, StopCall, StopJoined, StopNotified
  <2> QED
    BY <1>10, <2>1 DEF Signal, StopCall, StopJoined, StopNotified, storeVars, wakeVars
<1>11. CASE StopFlush
  BY <1>11, <1>6 DEF StopFlush, storeVars, wakeVars
<1>12. CASE StopPersisted
  BY <1>12, <1>7 DEF StopPersisted
<1>13. CASE StopPersistFailed
  BY <1>13, <1>8 DEF StopPersistFailed
<1>14. CASE Restart
  BY <1>14 DEF Restart, NoBatch, Levels
<1>15. CASE UNCHANGED vars
  BY <1>15 DEF vars, storeVars, wakeVars, runVars
<1>16. CASE ClientChange
  BY <1>16, <1>1, <1>2 DEF ClientChange, Delete, Prune, Clear
<1>17. CASE MainStep
  BY <1>17, <1>4, <1>5, <1>10, <1>11, <1>12, <1>13 DEF MainStep
<1> QED
  BY <1>3, <1>9, <1>10, <1>14, <1>15, <1>16, <1>17 DEF Next

\* Every variable of the store keeps its type, in every reachable state.
THEOREM TypeCorrect == Spec => []TypeOK
<1>1. Init => TypeOK
  <2> SUFFICES ASSUME Init PROVE TypeOK
    OBVIOUS
  <2>1. /\ {keepExisting, poke, force, ctxDone, loadErr, stopErr} \subseteq BOOLEAN
    BY Zenon DEF Init
  <2>2. /\ {dirty, deleted, late} \subseteq SUBSET Keys
        /\ note \in [Threads -> Levels]
        /\ batch \in [dirty : SUBSET Keys, deleted : SUBSET Keys,
                       upserts : [Keys -> Values \cup {None}]]
    BY DEF Init, NoBatch, Threads, Levels
  <2> QED
    BY <2>1, <2>2 DEF Init, TypeOK
<1> QED
  BY <1>1, TypeStep, PTL DEF Spec

-----------------------------------------------------------------------------
\* A step that leaves the data alone and moves only goroutines and tokens.
DataUnchanged == UNCHANGED <<storeVars, table, batch, loadErr, late>>

\* Memory changes at the keys of K, and K is marked accordingly.
LEMMA PutKeepsInv ==
    ASSUME NEW c \in Clients, NEW k \in Keys, NEW v \in Values,
           TypeOK, StoreInv, Put(c, k, v)
    PROVE  StoreInv'
<1> USE DEF Put, StoreInv
<1>1. Phases' /\ Attaching'
  BY DEF MarkDirty, runVars, TypeOK, Phases, Attaching, InBatch, Attached
<1>2. MarksMatch' /\ BatchMatches'
  BY StoreAssumption DEF MarkDirty, runVars, TypeOK, MarksMatch, BatchMatches, InBatch,
     Pending, Attached, Attaching, Phases
<1>3. UnmarkedAgrees'
  BY DEF MarkDirty, runVars, TypeOK, UnmarkedAgrees, Agrees, InBatch, Pending, Attached
<1>4. FinalFlushDrained'
  BY DEF MarkDirty, RecordLate, runVars, TypeOK, FinalFlushDrained, Pending, Attached
<1> QED
  BY <1>1, <1>2, <1>3, <1>4

\* A removal: the keys of K disappear and are marked as deleted.
LEMMA RemoveKeepsInv ==
    ASSUME NEW c \in Clients, NEW K \in SUBSET Keys,
           TypeOK, StoreInv, Remove(c, K)
    PROVE  StoreInv'
<1> USE DEF Remove, StoreInv
<1>1. Phases' /\ Attaching'
  BY DEF MarkDeleted, runVars, TypeOK, Phases, Attaching, InBatch, Attached
<1>2. MarksMatch' /\ BatchMatches'
  BY DEF MarkDeleted, runVars, TypeOK, MarksMatch, BatchMatches, InBatch,
     Pending, Attached, Attaching, Phases
<1>3. UnmarkedAgrees'
  BY DEF MarkDeleted, runVars, TypeOK, UnmarkedAgrees, Agrees, InBatch, Pending, Attached
<1>4. FinalFlushDrained'
  BY DEF MarkDeleted, RecordLate, runVars, TypeOK, FinalFlushDrained, Pending, Attached
<1> QED
  BY <1>1, <1>2, <1>3, <1>4

\* The attach: rows are read into keys that were absent, hence unmarked.
LEMMA LoadedKeepsInv ==
    ASSUME NEW ok \in BOOLEAN, TypeOK, StoreInv, Loaded(ok)
    PROVE  StoreInv'
<1> USE DEF Loaded, StoreInv
<1>0. deleted = {} /\ InBatch = {}
  BY DEF Attaching, Phases
<1>1. Phases' /\ Attaching' /\ FinalFlushDrained'
  BY <1>0 DEF TypeOK, Phases, Attaching, InBatch, FinalFlushDrained
<1>2. MarksMatch' /\ BatchMatches'
  BY <1>0 DEF TypeOK, MarksMatch, BatchMatches, InBatch, Pending
<1>3. UnmarkedAgrees'
  <2> SUFFICES ASSUME NEW k \in Keys, k \notin (Pending \cup InBatch)' PROVE Agrees(k)'
    BY DEF UnmarkedAgrees
  <2>1. entries[k] = None
    BY DEF Attaching, Pending
  <2>2. CASE ok = TRUE
    BY <2>1, <2>2, StoreAssumption DEF Agrees, Load, TypeOK
  <2>3. CASE ok = FALSE
    BY <2>1, <2>3, StoreAssumption DEF Agrees, Load, TypeOK
  <2> QED
    BY <2>2, <2>3
<1> QED
  BY <1>1, <1>2, <1>3

\* A snapshot moves every mark into the batch.
LEMMA SnapshotKeepsData ==
    ASSUME TypeOK, MarksMatch, UnmarkedAgrees, InBatch = {}, Snapshot,
           main \notin {"new", "loading"}, loadErr' = loadErr
    PROVE  MarksMatch' /\ BatchMatches' /\ UnmarkedAgrees' /\ Pending' = {}
<1> USE DEF Snapshot
<1>1. MarksMatch' /\ Pending' = {}
  BY DEF MarksMatch, Pending
<1>2. BatchMatches'
  BY DEF TypeOK, BatchMatches, MarksMatch, InBatch, Pending
<1>3. UnmarkedAgrees'
  BY DEF TypeOK, UnmarkedAgrees, Agrees, InBatch, Pending
<1> QED
  BY <1>1, <1>2, <1>3

\* A committed batch brings the table to memory wherever no newer mark stands.
LEMMA PersistKeepsData ==
    ASSUME TypeOK, MarksMatch, BatchMatches, UnmarkedAgrees, PersistBatch,
           main \notin {"new", "loading"}, loadErr' = loadErr
    PROVE  MarksMatch' /\ BatchMatches' /\ UnmarkedAgrees'
<1> USE DEF PersistBatch, storeVars
<1>1. MarksMatch' /\ BatchMatches'
  BY DEF MarksMatch, BatchMatches, InBatch, Pending, NoBatch
<1>2. UnmarkedAgrees'
  <2> SUFFICES ASSUME NEW k \in Keys, k \notin Pending PROVE Agrees(k)'
    BY DEF UnmarkedAgrees, Pending
  <2>1. CASE k \in batch.deleted
    BY <2>1 DEF Agrees, BatchMatches, InBatch, TypeOK
  <2>2. CASE k \in batch.dirty /\ k \notin batch.deleted
    BY <2>2 DEF Agrees, BatchMatches, InBatch, TypeOK
  <2>3. CASE k \notin InBatch
    BY <2>3 DEF Agrees, UnmarkedAgrees, InBatch, TypeOK
  <2> QED
    BY <2>1, <2>2, <2>3 DEF InBatch
<1> QED
  BY <1>1, <1>2

\* A failed batch is marked again, except where a newer mark stands.
LEMMA RequeueKeepsData ==
    ASSUME NEW t \in Threads, TypeOK, MarksMatch, BatchMatches, UnmarkedAgrees,
           Requeue(t), main \notin {"new", "loading"}, loadErr' = loadErr
    PROVE  MarksMatch' /\ BatchMatches' /\ UnmarkedAgrees'
<1> USE DEF Requeue
<1>1. MarksMatch'
  BY DEF MarksMatch, BatchMatches, InBatch, Pending, TypeOK
<1>2. BatchMatches'
  BY DEF BatchMatches, InBatch, NoBatch
<1>3. UnmarkedAgrees'
  BY DEF UnmarkedAgrees, Agrees, InBatch, Pending, NoBatch, TypeOK
<1> QED
  BY <1>1, <1>2, <1>3

\* Every step of the flush loop keeps the invariant.
LEMMA LoopKeepsInv ==
    ASSUME TypeOK, StoreInv, LoopStep
    PROVE  StoreInv'
<1> USE DEF StoreInv
<1>1. CASE LoopExit \/ LoopPoked \/ LoopForced \/ LoopTimer \/ LoopNotified
  <2>1. DataUnchanged /\ UNCHANGED <<main, stopErr>>
    BY <1>1 DEF LoopExit, LoopPoked, LoopForced, LoopTimer, LoopNotified, DataUnchanged
  <2>2. /\ loop \in {"wait", "debounce", "notify"}
        /\ loop' \in {"wait", "debounce", "flush", "exited"}
    BY <1>1 DEF LoopExit, LoopPoked, LoopForced, LoopTimer, LoopNotified
  <2>3. Phases'
    BY <2>1, <2>2 DEF Phases, DataUnchanged, InBatch
  <2> QED
    BY <2>1, <2>3 DEF DataUnchanged, storeVars, Attaching, MarksMatch, BatchMatches,
       UnmarkedAgrees, Agrees, FinalFlushDrained, InBatch, Pending
<1>2. CASE LoopFlush
  <2>1. main \in {"up", "join"} /\ UNCHANGED <<main, stopErr, loadErr>> /\ InBatch = {}
    BY <1>2 DEF LoopFlush, Phases, TypeOK
  <2>2. CASE Pending = {}
    BY <1>2, <2>1, <2>2 DEF LoopFlush, Phases, Attaching, MarksMatch, BatchMatches, storeVars,
       UnmarkedAgrees, Agrees, FinalFlushDrained, InBatch, Pending
  <2>3. CASE Pending # {}
    <3>1. Snapshot /\ loop' = "persist"
      BY <1>2, <2>3 DEF LoopFlush
    <3>2. MarksMatch' /\ BatchMatches' /\ UnmarkedAgrees'
      BY <2>1, <3>1, SnapshotKeepsData
    <3> QED
      BY <2>1, <3>1, <3>2 DEF Phases, Attaching, FinalFlushDrained
  <2> QED
    BY <2>2, <2>3
<1>3. CASE LoopPersisted \/ LoopPersistFailed
  <2>1. /\ loop = "persist" /\ loop' \in {"wait", "notify"}
        /\ main \in {"up", "join"} /\ UNCHANGED <<main, stopErr, loadErr>>
        /\ InBatch' = {}
    BY <1>3 DEF LoopPersisted, LoopPersistFailed, PersistBatch, Requeue, Phases, TypeOK,
       NoBatch, InBatch
  <2>2. MarksMatch' /\ BatchMatches' /\ UnmarkedAgrees'
    BY <1>3, <2>1, PersistKeepsData, RequeueKeepsData DEF LoopPersisted, LoopPersistFailed,
       Threads
  <2> QED
    BY <2>1, <2>2 DEF Phases, Attaching, FinalFlushDrained
<1> QED
  BY <1>1, <1>2, <1>3 DEF LoopStep

\* Every step of the attach and of Stop keeps the invariant.
LEMMA StopKeepsInv ==
    ASSUME TypeOK, StoreInv,
           \/ Signal \/ StopCall \/ StopJoined \/ StopNotified
           \/ StopFlush \/ StopPersisted \/ StopPersistFailed
    PROVE  StoreInv'
<1> USE DEF StoreInv
<1>1. CASE Signal \/ StopCall \/ StopJoined \/ StopNotified
  <2>1. DataUnchanged /\ UNCHANGED <<loop, stopErr>>
    BY <1>1 DEF Signal, StopCall, StopJoined, StopNotified, DataUnchanged
  <2>2. \/ main' = main
        \/ main = "up" /\ main' = "join"
        \/ main = "join" /\ main' = "flush" /\ loop = "exited"
        \/ main = "notify" /\ main' = "stopped"
    BY <1>1 DEF Signal, StopCall, StopJoined, StopNotified
  <2>3. Phases' /\ Attaching' /\ FinalFlushDrained'
    BY <2>1, <2>2 DEF Phases, Attaching, FinalFlushDrained, DataUnchanged, storeVars, InBatch,
       Pending
  <2> QED
    BY <2>1, <2>2, <2>3 DEF DataUnchanged, storeVars, MarksMatch, BatchMatches,
       UnmarkedAgrees, Agrees, InBatch, Pending
<1>2. CASE StopFlush
  <2>1. /\ main = "flush" /\ loop = "exited" /\ InBatch = {}
        /\ UNCHANGED <<loop, stopErr, loadErr>>
    BY <1>2 DEF StopFlush, Phases
  <2>2. CASE Pending = {}
    BY <1>2, <2>1, <2>2 DEF StopFlush, Phases, Attaching, MarksMatch, BatchMatches, storeVars,
       UnmarkedAgrees, Agrees, FinalFlushDrained, InBatch, Pending
  <2>3. CASE Pending # {}
    <3>1. Snapshot /\ main' = "persist"
      BY <1>2, <2>3 DEF StopFlush
    <3>2. MarksMatch' /\ BatchMatches' /\ UnmarkedAgrees' /\ Pending' = {}
      BY <2>1, <3>1, SnapshotKeepsData
    <3> QED
      BY <2>1, <3>1, <3>2 DEF Phases, Attaching, FinalFlushDrained
  <2> QED
    BY <2>2, <2>3
<1>3. CASE StopPersisted
  <2>1. /\ main = "persist" /\ main' = "stopped" /\ loop = "exited"
        /\ UNCHANGED <<loop, stopErr, loadErr, dirty, deleted, late>> /\ InBatch' = {}
    BY <1>3 DEF StopPersisted, PersistBatch, storeVars, Phases, NoBatch, InBatch
  <2>2. MarksMatch' /\ BatchMatches' /\ UnmarkedAgrees'
    BY <1>3, <2>1, PersistKeepsData DEF StopPersisted
  <2> QED
    BY <2>1, <2>2 DEF Phases, Attaching, FinalFlushDrained, Pending
<1>4. CASE StopPersistFailed
  <2>1. /\ main = "persist" /\ main' = "notify" /\ loop = "exited" /\ stopErr'
        /\ UNCHANGED <<loop, loadErr>> /\ InBatch' = {}
    BY <1>4 DEF StopPersistFailed, Requeue, Phases, NoBatch, InBatch
  <2>2. MarksMatch' /\ BatchMatches' /\ UnmarkedAgrees'
    BY <1>4, <2>1, RequeueKeepsData DEF StopPersistFailed, Threads
  <2> QED
    BY <2>1, <2>2 DEF Phases, Attaching, FinalFlushDrained
<1> QED
  BY <1>1, <1>2, <1>3, <1>4

\* StoreInv is inductive, relative to the types.
LEMMA StoreInvStep == TypeOK /\ StoreInv /\ [Next]_vars => StoreInv'
<1> SUFFICES ASSUME TypeOK, StoreInv, [Next]_vars PROVE StoreInv'
  OBVIOUS
<1>1. CASE ClientChange
  BY <1>1, PutKeepsInv, RemoveKeepsInv DEF ClientChange, Delete, Prune, Clear
<1>2. ASSUME NEW t \in Threads, Notify(t) PROVE StoreInv'
  BY <1>2 DEF Notify, storeVars, runVars, StoreInv, Phases, Attaching, MarksMatch,
     BatchMatches, UnmarkedAgrees, Agrees, FinalFlushDrained, InBatch, Pending
<1>3. CASE LoopStep
  BY <1>3, LoopKeepsInv
<1>4. CASE Attach
  <2>1. Phases' /\ Attaching' /\ MarksMatch' /\ FinalFlushDrained' /\ InBatch' = {}
    BY <1>4 DEF Attach, StoreInv, Phases, Attaching, MarksMatch, FinalFlushDrained, InBatch
  <2> QED
    BY <1>4, <2>1 DEF Attach, StoreInv, BatchMatches, UnmarkedAgrees, InBatch
<1>5. CASE MainStep /\ ~Attach
  BY <1>5, LoadedKeepsInv, StopKeepsInv DEF MainStep
<1>6. CASE Signal
  BY <1>6, StopKeepsInv
<1>7. CASE Restart
  BY <1>7 DEF Restart, NoBatch, StoreInv, Phases, Attaching, MarksMatch,
     BatchMatches, UnmarkedAgrees, FinalFlushDrained, InBatch, Pending
<1>8. CASE UNCHANGED vars
  BY <1>8 DEF vars, storeVars, runVars, StoreInv, Phases, Attaching, MarksMatch,
     BatchMatches, UnmarkedAgrees, Agrees, FinalFlushDrained, InBatch, Pending
<1> QED
  BY <1>1, <1>2, <1>3, <1>4, <1>5, <1>6, <1>7, <1>8 DEF Next

\* The inductive invariant holds in every reachable state.
LEMMA StoreInvCorrect == Spec => []StoreInv
<1>1. Init => StoreInv
  BY DEF Init, NoBatch, StoreInv, Phases, Attaching, MarksMatch,
     BatchMatches, UnmarkedAgrees, FinalFlushDrained, InBatch, Pending
<1> QED
  BY <1>1, StoreInvStep, TypeCorrect, PTL DEF Spec

\* In every reachable state, whatever flushes failed and whatever was written
\* or deleted while they ran, a key that is not marked for the next flush and
\* not in the running one has in the table exactly what memory holds.
THEOREM WriteBehindConsistent == Spec => []UnmarkedAgrees
  BY StoreInvCorrect, PTL DEF StoreInv

\* Stop returns only when the loop is gone and, unless its own flush failed,
\* every change made before the call is in the table.
THEOREM StopDurable == Spec => []StopIsDurable
<1>1. StoreInv => StopIsDurable
  BY DEF StoreInv, Phases, FinalFlushDrained, StopIsDurable
<1> QED
  BY <1>1, StoreInvCorrect, PTL

-----------------------------------------------------------------------------
\* A token, or a thread about to send one.
LEMMA WakeupStep == TypeOK /\ StoreInv /\ NoLostWakeup /\ [Next]_vars => NoLostWakeup'
<1> SUFFICES ASSUME TypeOK, StoreInv, NoLostWakeup, [Next]_vars,
                    loop' \in {"wait", "persist", "notify"}, Pending' # {}
             PROVE  poke' \/ force' \/ \E t \in Threads : note'[t] # "none"
  BY DEF NoLostWakeup, Threads
<1>1. ASSUME NEW c \in Clients, NEW k \in Keys, NEW v \in Values, Put(c, k, v)
      PROVE  \E t \in Threads : note'[t] # "none"
  <2>1. Attached
    BY <1>1 DEF Put, runVars, StoreInv, Phases, Attached
  <2> QED
    BY <1>1, <2>1, LevelType DEF Put, MarkDirty, TypeOK, Threads
<1>2. ASSUME NEW c \in Clients, NEW K \in SUBSET Keys, Remove(c, K)
      PROVE  \E t \in Threads : note'[t] # "none"
  <2>1. Attached
    BY <1>2 DEF Remove, runVars, StoreInv, Phases, Attached
  <2> QED
    BY <1>2, <2>1, LevelType DEF Remove, MarkDeleted, TypeOK, Threads
<1>3. CASE ClientChange
  BY <1>1, <1>2, <1>3 DEF ClientChange, Delete, Prune, Clear
<1>4. ASSUME NEW t \in Threads, Notify(t) PROVE poke'
  BY <1>4 DEF Notify
<1>5. CASE Attach \/ Restart
  BY <1>5 DEF Attach, Restart, StoreInv, Phases
<1>6. ASSUME NEW ok \in BOOLEAN, Loaded(ok) PROVE note'["main"] # "none"
  BY <1>6, LevelType DEF Loaded, TypeOK, Threads, Pending
<1>7. CASE LoopExit \/ LoopPoked \/ LoopForced \/ LoopTimer
  BY <1>7 DEF LoopExit, LoopPoked, LoopForced, LoopTimer
<1>8. CASE LoopFlush
  BY <1>8 DEF LoopFlush, Snapshot, storeVars, Pending
<1>9. CASE LoopPersisted
  BY <1>9 DEF LoopPersisted, PersistBatch, storeVars, wakeVars, Pending, NoLostWakeup
<1>10. CASE LoopPersistFailed
  BY <1>10, LevelType DEF LoopPersistFailed, Requeue, Pending, TypeOK, Threads
<1>11. CASE LoopNotified
  BY <1>11 DEF LoopNotified, storeVars, wakeVars, Pending, NoLostWakeup
<1>12. CASE Signal \/ StopCall
  BY <1>12 DEF Signal, StopCall, storeVars, wakeVars, Pending, NoLostWakeup
<1>13. CASE StopJoined \/ StopFlush \/ StopPersisted \/ StopPersistFailed \/ StopNotified
  BY <1>13 DEF StopJoined, StopFlush, StopPersisted, StopPersistFailed, StopNotified,
     StoreInv, Phases
<1>14. CASE UNCHANGED vars
  BY <1>14 DEF vars, storeVars, wakeVars, runVars, Pending, NoLostWakeup
<1> QED
  BY <1>3, <1>4, <1>5, <1>6, <1>7, <1>8, <1>9, <1>10, <1>11, <1>12, <1>13, <1>14
     DEF Next, LoopStep, MainStep, Threads

\* The flush loop never goes to sleep on pending changes without a token in a
\* channel or a notify under way.
THEOREM WakeupKept == Spec => []NoLostWakeup
<1>1. Init => NoLostWakeup
  BY DEF Init, NoLostWakeup
<1> QED
  BY <1>1, WakeupStep, TypeCorrect, StoreInvCorrect, PTL DEF Spec

=============================================================================
