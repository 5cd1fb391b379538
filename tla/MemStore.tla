------------------------------ MODULE MemStore ------------------------------
(***************************************************************************)
(* pkg/memstore/store.go: the keyed in-memory store with buffered          *)
(* write-behind persistence that holds the action plans, the slot results, *)
(* the validator registrations, the proposer preferences and the builder   *)
(* preferences, together with its one persistence adapter, the kv_store    *)
(* table of pkg/db/kv_store.go.                                            *)
(*                                                                         *)
(* Threads: the clients (any goroutine that mutates the store), the flush  *)
(* loop `run`, and the main goroutine, which attaches the table and, on    *)
(* shutdown, calls Stop.  A critical section under s.mu is one step.  What *)
(* the code does after it unlocks s.mu (the notify of a mutation, the      *)
(* database call of a flush) is a step of its own.                         *)
(*                                                                         *)
(*   entries, dirty, deleted   the fields of Store under s.mu              *)
(*   keepExisting              the write policy chosen by the constructor  *)
(*   table                     the namespace's rows in kv_store            *)
(*   poke, force               the two channels of capacity one            *)
(*   note[t]                   the notify thread t has still to perform    *)
(*   ctxDone                   the flush loop's context is cancelled       *)
(*   loop, main                where the flush loop and main are           *)
(*   batch                     the snapshot a running Flush persists       *)
(*   loadErr                   Load failed at attach (only logged)         *)
(*   stopErr                   Stop's final flush failed (it is only       *)
(*                             logged: "pending changes lost")             *)
(*   late                      history: keys changed since Stop was called *)
(***************************************************************************)
EXTENDS Naturals, FiniteSets

CONSTANTS
    Keys,        \* keys of the store
    Values,      \* values that can be written; every one encodes and decodes
    None,        \* absence of an entry or of a row
    Garbled,     \* a row of an older release whose value does not decode
    Clients,     \* goroutines that mutate the store
    MaxPending   \* pending changes that cut the debounce short

ASSUME StoreAssumption ==
    /\ None \notin Values
    /\ Garbled \notin Values
    /\ None # Garbled
    /\ "loop" \notin Clients
    /\ "main" \notin Clients

VARIABLES entries, keepExisting, dirty, deleted, table, poke, force, note,
          ctxDone, loop, main, batch, loadErr, stopErr, late

storeVars == <<entries, keepExisting, dirty, deleted>>
wakeVars  == <<poke, force, note>>
runVars   == <<ctxDone, loop, main, batch, loadErr, stopErr>>
vars      == <<storeVars, table, wakeVars, runVars, late>>

Threads == Clients \cup {"loop", "main"}
Levels  == {"none", "poke", "force"}

\* A Flush's snapshot: the keys drained from both sets, and their values.
NoBatch == [dirty |-> {}, deleted |-> {}, upserts |-> [k \in Keys |-> None]]

Pending == dirty \cup deleted
InBatch == batch.dirty \cup batch.deleted

\* `s.persistence # nil`.
Attached == main # "new"

TypeOK ==
    /\ entries \in [Keys -> Values \cup {None}]
    /\ keepExisting \in BOOLEAN
    /\ dirty \in SUBSET Keys
    /\ deleted \in SUBSET Keys
    /\ table \in [Keys -> Values \cup {None, Garbled}]
    /\ poke \in BOOLEAN
    /\ force \in BOOLEAN
    /\ note \in [Threads -> Levels]
    /\ ctxDone \in BOOLEAN
    /\ loop \in {"off", "wait", "debounce", "flush", "persist", "notify", "exited"}
    /\ main \in {"new", "loading", "up", "join", "flush", "persist", "notify",
                 "stopped"}
    /\ batch \in [dirty : SUBSET Keys, deleted : SUBSET Keys,
                  upserts : [Keys -> Values \cup {None}]]
    /\ loadErr \in BOOLEAN
    /\ stopErr \in BOOLEAN
    /\ late \in SUBSET Keys

-----------------------------------------------------------------------------
(* Construction, and the marks a mutation leaves under s.mu.               *)

\* New / NewKeepExisting over whatever rows earlier processes left.
Init ==
    /\ entries = [k \in Keys |-> None]
    /\ keepExisting \in BOOLEAN
    /\ dirty = {} /\ deleted = {}
    /\ table \in [Keys -> Values \cup {None, Garbled}]
    /\ poke = FALSE /\ force = FALSE
    /\ note = [t \in Threads |-> "none"]
    /\ ctxDone = FALSE
    /\ loop = "off" /\ main = "new"
    /\ batch = NoBatch
    /\ loadErr = FALSE /\ stopErr = FALSE
    /\ late = {}

\* The argument of notify, as far as notify tells counts apart: zero, some,
\* or at least maxPending changes.
Level(d, x) ==
    IF d \cup x = {} THEN "none"
    ELSE IF Cardinality(d) + Cardinality(x) >= MaxPending THEN "force" ELSE "poke"

\* markDirtyLocked for the keys of K; thread t has to notify afterwards.
MarkDirty(t, K) ==
    IF Attached
    THEN /\ dirty' = dirty \cup K
         /\ deleted' = deleted \ K
         /\ note' = [note EXCEPT ![t] = Level(dirty \cup K, deleted \ K)]
    ELSE UNCHANGED <<dirty, deleted, note>>

\* markDeletedLocked for the keys of K.
MarkDeleted(t, K) ==
    IF Attached
    THEN /\ dirty' = dirty \ K
         /\ deleted' = deleted \cup K
         /\ note' = [note EXCEPT ![t] = Level(dirty \ K, deleted \cup K)]
    ELSE UNCHANGED <<dirty, deleted, note>>

\* History: which keys changed after Stop was called.
RecordLate(K) ==
    late' = IF main \in {"join", "flush", "persist", "notify", "stopped"}
            THEN late \cup K ELSE late

-----------------------------------------------------------------------------
(* Clients.                                                                *)

\* Put, when the write policy admits it; a refused Put changes nothing.
Put(c, k, v) ==
    /\ note[c] = "none"
    /\ keepExisting => entries[k] = None
    /\ entries' = [entries EXCEPT ![k] = v]
    /\ MarkDirty(c, {k})
    /\ RecordLate({k})
    /\ UNCHANGED <<keepExisting, table, poke, force, runVars>>

\* Remove the present keys of K: the common body of Delete, Prune and Clear.
\* run.go attaches every store before it starts a goroutine that deletes from
\* it, so no deletion falls between the two critical sections of an attach.
Remove(c, K) ==
    /\ note[c] = "none"
    /\ main # "loading"
    /\ K # {}
    /\ \A k \in K : entries[k] # None
    /\ entries' = [k \in Keys |-> IF k \in K THEN None ELSE entries[k]]
    /\ MarkDeleted(c, K)
    /\ RecordLate(K)
    /\ UNCHANGED <<keepExisting, table, poke, force, runVars>>

Delete(c, k) == Remove(c, {k})

\* Prune: every present key for which drop holds.
Prune(c, drop) == Remove(c, {k \in drop : entries[k] # None})

Clear(c) == Remove(c, {k \in Keys : entries[k] # None})

\* notify: two non-blocking sends to channels of capacity one.
Notify(t) ==
    /\ note[t] # "none"
    /\ poke' = TRUE
    /\ force' = (force \/ note[t] = "force")
    /\ note' = [note EXCEPT ![t] = "none"]
    /\ UNCHANGED <<storeVars, table, runVars, late>>

-----------------------------------------------------------------------------
(* Attach: SetPersistence.                                                 *)

\* First critical section: everything written before is unknown to the table.
Attach ==
    /\ main = "new"
    /\ main' = "loading"
    /\ dirty' = {k \in Keys : entries[k] # None}
    /\ UNCHANGED <<entries, keepExisting, deleted, table, wakeVars, ctxDone,
                   loop, batch, loadErr, stopErr, late>>

\* KVPersistence.Load: rows that do not decode are skipped.
Load == [k \in Keys |-> IF table[k] \in Values THEN table[k] ELSE None]

\* Second critical section: loaded rows never replace entries; the flush loop
\* starts.  A failed Load yields no rows and is only logged.
Loaded(ok) ==
    /\ main = "loading"
    /\ main' = "up"
    /\ entries' = [k \in Keys |-> IF ok /\ entries[k] = None THEN Load[k] ELSE entries[k]]
    /\ loadErr' = ~ok
    /\ loop' = "wait"
    /\ note' = [note EXCEPT !["main"] = Level(dirty, deleted)]
    /\ UNCHANGED <<keepExisting, dirty, deleted, table, poke, force, ctxDone,
                   batch, stopErr, late>>

-----------------------------------------------------------------------------
(* Flush, called by the loop and by Stop.  pc is the caller's own counter. *)

\* flushMu is held from the snapshot to the return.
FlushMuFree == loop \notin {"persist", "notify"} /\ main \notin {"persist", "notify"}

\* The critical section of Flush: drain both sets into the batch.
Snapshot ==
    /\ batch' = [dirty |-> dirty, deleted |-> deleted,
                 upserts |-> [k \in Keys |-> IF k \in dirty THEN entries[k] ELSE None]]
    /\ dirty' = {} /\ deleted' = {}
    /\ UNCHANGED <<entries, keepExisting, table, wakeVars, late>>

\* PersistBatch committed: upserts, then deletes, in one transaction.
PersistBatch ==
    /\ table' = [k \in Keys |->
                   IF k \in batch.deleted THEN None
                   ELSE IF k \in batch.dirty /\ batch.upserts[k] # None
                        THEN batch.upserts[k]
                        ELSE table[k]]
    /\ batch' = NoBatch
    /\ UNCHANGED <<storeVars, wakeVars, late>>

\* Mutant of Requeue: the drained deletions are forgotten.
RequeueForgetsDeletes(t) ==
    LET d == dirty \cup (batch.dirty \ deleted)
    IN  /\ dirty' = d
        /\ note' = [note EXCEPT ![t] = Level(d, deleted)]
        /\ batch' = NoBatch
        /\ UNCHANGED <<entries, keepExisting, deleted, table, poke, force, late>>

\* PersistBatch rolled back: requeue re-marks the batch for the next flush
\* without undoing what changed while it was in flight.
Requeue(t) ==
    LET d == dirty \cup (batch.dirty \ deleted)
        x == deleted \cup (batch.deleted \ d)
    IN  /\ dirty' = d /\ deleted' = x
        /\ note' = [note EXCEPT ![t] = Level(d, x)]
        /\ batch' = NoBatch
        /\ UNCHANGED <<entries, keepExisting, table, poke, force, late>>

-----------------------------------------------------------------------------
(* The flush loop: run.                                                    *)

\* One of the two selects on ctx.Done, poke, force and the debounce timer.
LoopExit ==
    /\ loop \in {"wait", "debounce"} /\ ctxDone
    /\ loop' = "exited"
    /\ UNCHANGED <<storeVars, table, wakeVars, ctxDone, main, batch, loadErr, stopErr, late>>

LoopPoked ==
    /\ loop = "wait" /\ poke
    /\ poke' = FALSE
    /\ loop' = "debounce"
    /\ UNCHANGED <<storeVars, table, force, note, ctxDone, main, batch, loadErr, stopErr, late>>

LoopForced ==
    /\ loop \in {"wait", "debounce"} /\ force
    /\ force' = FALSE
    /\ loop' = "flush"
    /\ UNCHANGED <<storeVars, table, poke, note, ctxDone, main, batch, loadErr, stopErr, late>>

\* Mutant of LoopTimer: a token that is queued holds the debounce up.
LoopTimerExtended ==
    /\ loop = "debounce" /\ ~poke
    /\ loop' = "flush"
    /\ UNCHANGED <<storeVars, table, wakeVars, ctxDone, main, batch, loadErr, stopErr, late>>

LoopTimer ==
    /\ loop = "debounce"
    /\ loop' = "flush"
    /\ UNCHANGED <<storeVars, table, wakeVars, ctxDone, main, batch, loadErr, stopErr, late>>

LoopFlush ==
    /\ loop = "flush" /\ FlushMuFree
    /\ IF Pending = {}
       THEN /\ loop' = "wait"
            /\ UNCHANGED <<storeVars, table, wakeVars, batch, late>>
       ELSE /\ loop' = "persist"
            /\ Snapshot
    /\ UNCHANGED <<ctxDone, main, loadErr, stopErr>>

\* Mutant of LoopPersisted: the token that arrived during the flush is drained.
LoopPersistedDrainsPoke ==
    /\ loop = "persist"
    /\ loop' = "wait"
    /\ table' = [k \in Keys |->
                   IF k \in batch.deleted THEN None
                   ELSE IF k \in batch.dirty THEN batch.upserts[k] ELSE table[k]]
    /\ batch' = NoBatch
    /\ poke' = FALSE
    /\ UNCHANGED <<storeVars, force, note, late>>
    /\ UNCHANGED <<ctxDone, main, loadErr, stopErr>>

LoopPersisted ==
    /\ loop = "persist"
    /\ loop' = "wait"
    /\ PersistBatch
    /\ UNCHANGED <<ctxDone, main, loadErr, stopErr>>

LoopPersistFailed ==
    /\ loop = "persist"
    /\ loop' = "notify"
    /\ Requeue("loop")
    /\ UNCHANGED <<ctxDone, main, loadErr, stopErr>>

\* Flush returned its error and the loop comes round again.
LoopNotified ==
    /\ loop = "notify" /\ note["loop"] = "none"
    /\ loop' = "wait"
    /\ UNCHANGED <<storeVars, table, wakeVars, ctxDone, main, batch, loadErr, stopErr, late>>

-----------------------------------------------------------------------------
(* Shutdown.                                                               *)

\* A termination signal cancels the context run.go gave to SetPersistence.
Signal ==
    /\ ~ctxDone
    /\ ctxDone' = TRUE
    /\ UNCHANGED <<storeVars, table, wakeVars, loop, main, batch, loadErr, stopErr, late>>

\* Stop: cancel, wait for the loop, flush once more.  Before the attach it
\* returns at once.
StopCall ==
    /\ main = "up" /\ note["main"] = "none"
    /\ main' = "join"
    /\ ctxDone' = TRUE
    /\ UNCHANGED <<storeVars, table, wakeVars, loop, batch, loadErr, stopErr, late>>

\* Mutant of StopJoined: the flush loop is not waited for.
StopNotJoined ==
    /\ main = "join"
    /\ main' = "flush"
    /\ UNCHANGED <<storeVars, table, wakeVars, ctxDone, loop, batch, loadErr, stopErr, late>>

StopJoined ==
    /\ main = "join" /\ loop = "exited"
    /\ main' = "flush"
    /\ UNCHANGED <<storeVars, table, wakeVars, ctxDone, loop, batch, loadErr, stopErr, late>>

StopFlush ==
    /\ main = "flush" /\ FlushMuFree
    /\ IF Pending = {}
       THEN /\ main' = "stopped"
            /\ UNCHANGED <<storeVars, table, wakeVars, batch, late>>
       ELSE /\ main' = "persist"
            /\ Snapshot
    /\ UNCHANGED <<ctxDone, loop, loadErr, stopErr>>

StopPersisted ==
    /\ main = "persist"
    /\ main' = "stopped"
    /\ PersistBatch
    /\ UNCHANGED <<ctxDone, loop, loadErr, stopErr>>

StopPersistFailed ==
    /\ main = "persist"
    /\ main' = "notify"
    /\ stopErr' = TRUE
    /\ Requeue("main")
    /\ UNCHANGED <<ctxDone, loop, loadErr>>

StopNotified ==
    /\ main = "notify" /\ note["main"] = "none"
    /\ main' = "stopped"
    /\ UNCHANGED <<storeVars, table, wakeVars, ctxDone, loop, batch, loadErr, stopErr, late>>

\* The process dies, at any point, and starts again over the same table.
Restart ==
    /\ main # "new"
    /\ entries' = [k \in Keys |-> None]
    /\ dirty' = {} /\ deleted' = {}
    /\ poke' = FALSE /\ force' = FALSE
    /\ note' = [t \in Threads |-> "none"]
    /\ ctxDone' = FALSE
    /\ loop' = "off" /\ main' = "new"
    /\ batch' = NoBatch
    /\ loadErr' = FALSE /\ stopErr' = FALSE
    /\ late' = {}
    /\ UNCHANGED <<keepExisting, table>>

-----------------------------------------------------------------------------
ClientChange ==
    \E c \in Clients :
        \/ \E k \in Keys, v \in Values : Put(c, k, v)
        \/ \E k \in Keys : Delete(c, k)
        \/ \E drop \in SUBSET Keys : Prune(c, drop)
        \/ Clear(c)

LoopStep ==
    \/ LoopExit \/ LoopPoked \/ LoopForced \/ LoopTimer
    \/ LoopFlush \/ LoopPersisted \/ LoopPersistFailed \/ LoopNotified

MainStep ==
    \/ Attach
    \/ \E ok \in BOOLEAN : Loaded(ok)
    \/ StopCall \/ StopJoined \/ StopFlush
    \/ StopPersisted \/ StopPersistFailed \/ StopNotified

Next ==
    \/ ClientChange
    \/ \E t \in Threads : Notify(t)
    \/ LoopStep
    \/ MainStep
    \/ Signal
    \/ Restart

Spec == Init /\ [][Next]_vars

\* Goroutines run: a notify after an unlock, the flush loop, SetPersistence and
\* Stop once they are called.  The database does not fail every single batch for ever.
\* Nothing obliges clients, signals or restarts.
Fairness ==
    /\ \A t \in Threads : WF_vars(Notify(t))
    /\ WF_vars(LoopStep)
    /\ SF_vars(LoopPersisted)
    /\ WF_vars(\E ok \in BOOLEAN : Loaded(ok))
    /\ WF_vars(StopJoined \/ StopFlush \/ StopPersisted \/ StopPersistFailed \/ StopNotified)

FairSpec == Spec /\ Fairness

-----------------------------------------------------------------------------
(* Properties.                                                             *)

\* What the table should say of key k.  A key that is in memory has its row; a
\* key that is not has none, save rows this process never read.
Agrees(k) ==
    IF entries[k] # None
    THEN table[k] = entries[k]
    ELSE loadErr \/ table[k] \in {None, Garbled}

\* A key that is neither marked nor in the batch of a running flush is in the
\* table as it is in memory: no interleaving of mutations with a flush, with a
\* failed flush's requeue or with the attach leaves an unmarked key whose row
\* is stale (Flush, requeue, markDirtyLocked, SetPersistence).
UnmarkedAgrees ==
    main \notin {"new", "loading"} =>
        \A k \in Keys : k \notin Pending \cup InBatch => Agrees(k)

\* No lost wake-up: while changes are pending and the loop is about to sleep in
\* its select, a token is in a channel or some thread is about to send one
\* (notify runs after the unlock, and the loop takes its token before Flush).
NoLostWakeup ==
    loop \in {"wait", "persist", "notify"} /\ Pending # {} =>
        poke \/ force \/ \E t \in Threads : note[t] # "none"

\* Stop: when it returns without a logged error, the loop is gone and every
\* change made before the call is in the table.
StopIsDurable ==
    main = "stopped" =>
        /\ loop = "exited" /\ InBatch = {}
        /\ ~stopErr => Pending \subseteq late

\* Once the clients fall silent, an attached store that is not stopped gets to
\* a state where nothing is left to persist, whatever flushes failed before.
Drained == Pending = {} /\ InBatch = {}

EventuallyDrained ==
    <>[][~ClientChange]_vars => []<>(Drained \/ ctxDone \/ ~Attached)

-----------------------------------------------------------------------------
(* The inductive invariant behind UnmarkedAgrees and StopIsDurable.        *)

\* Where the goroutines are relative to one another.
Phases ==
    /\ main \in {"new", "loading"} <=> loop = "off"
    /\ main \in {"flush", "persist", "notify", "stopped"} => loop = "exited"
    /\ main = "notify" => stopErr
    /\ InBatch # {} => loop = "persist" \/ main = "persist"

\* Before the table is read nothing is marked but the entries to upload.
Attaching ==
    /\ main \in {"new", "loading"} => deleted = {}
    /\ main = "new" => dirty = {}
    /\ main = "loading" => \A k \in Keys : entries[k] # None => k \in dirty

\* A mark says what memory holds: dirty keys are present, deleted ones absent.
MarksMatch ==
    /\ \A k \in dirty : entries[k] # None
    /\ \A k \in deleted : entries[k] = None

\* The same of a batch when it was drained; and a key that has changed since
\* is marked again, so the next batch corrects the row this one writes.
BatchMatches ==
    /\ \A k \in batch.dirty : batch.upserts[k] # None
    /\ \A k \in batch.deleted : batch.upserts[k] = None
    /\ \A k \in InBatch : k \notin Pending => batch.upserts[k] = entries[k]

\* Once Stop's flush has drained the sets, only late changes are pending.
FinalFlushDrained ==
    main = "persist" \/ (main = "stopped" /\ ~stopErr) => Pending \subseteq late

StoreInv ==
    /\ Phases
    /\ Attaching
    /\ MarksMatch
    /\ BatchMatches
    /\ UnmarkedAgrees
    /\ FinalFlushDrained

=============================================================================
