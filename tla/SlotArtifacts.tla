--------------------------- MODULE SlotArtifacts ---------------------------
(***************************************************************************)
(* pkg/slot_results/artifacts.go: the raw payloads, bids and envelopes of  *)
(* each slot, kept in a buffer of the newest slots and written to the      *)
(* database by a batching writer.  The actions that capture an artifact    *)
(* are operators: the module of the caller says when it captures one.      *)
(*                                                                         *)
(*   buffer      per buffered slot: the artifact under each (kind, index)  *)
(*   bidIdx      the next bid index of a slot, once it was asked for       *)
(*   writeQueue  artifacts on their way to the writer                      *)
(*   batch       those the writer took and has not written (pending)       *)
(*   table       slot_artifacts: the artifact under (slot, kind, index)    *)
(*   pruning     PruneBefore has cleared the buffer below this slot and    *)
(*               not yet the table; 0: no prune runs                       *)
(***************************************************************************)
EXTENDS Integers, FiniteSets, Sequences, SequencesExt, Functions, FiniteSetsExt, TLC

CONSTANTS
    BufferSlots,   \* memoryBufferSlots (64)
    QueueCap       \* writerQueueCap (256)

ASSUME ArtifactsAssumption == {BufferSlots, QueueCap} \subseteq Nat \ {0}

VARIABLES buffer, bidIdx, writeQueue, batch, table, pruning

artifactVars == <<buffer, bidIdx, writeQueue, batch, table, pruning>>

Empty == [x \in {} |-> {}]

ArtifactsInit ==
    /\ buffer = Empty /\ bidIdx = Empty /\ table = Empty
    /\ writeQueue = <<>> /\ batch = <<>> /\ pruning = 0

Drop(f, S) == Restrict(f, DOMAIN f \ S)
Put(f, k, x) == [y \in DOMAIN f \cup {k} |-> IF y = k THEN x ELSE f[y]]

-----------------------------------------------------------------------------
(* Capturing.                                                              *)

\* GetMaxSlotArtifactIdx, for bids, as the first index that is free.
FirstFree(s) ==
    LET used == {k[3] : k \in {k \in DOMAIN table : k[1] = s /\ k[2] = "bid"}} IN
    IF used = {} THEN 0 ELSE 1 + Max(used)

\* Mutant of NextIndex: the highest stored index is handed out again.
NextIndexStored(s) ==
    IF s \in DOMAIN bidIdx THEN bidIdx[s]
    ELSE IF FirstFree(s) = 0 THEN 0 ELSE FirstFree(s) - 1

\* The index the slot's next bid is given.
NextIndex(s) == IF s \in DOMAIN bidIdx THEN bidIdx[s] ELSE FirstFree(s)

\* Mutant of AllocateIndex: the counter is left for the capture to advance.
AllocateIndexPeek(s) == bidIdx' = Put(bidIdx, s, NextIndex(s))

\* StoreBid up to its unlock.
AllocateIndex(s) == bidIdx' = Put(bidIdx, s, NextIndex(s) + 1)

\* insertBuffer: the slots that go when slot s comes.
Oldest(s) ==
    LET slots == DOMAIN buffer \cup {s}
        excess == Cardinality(slots) - BufferSlots
    IN  {t \in slots : Cardinality({u \in slots : u < t}) < excess}

\* store: artifact x under (kind, idx) of slot s, in the buffer and, unless the queue
\* is full, on its way to the table.
Capture(s, kind, idx, x) ==
    LET kinds == IF s \in DOMAIN buffer THEN buffer[s] ELSE Empty IN
    /\ buffer' = Drop(Put(buffer, s, Put(kinds, <<kind, idx>>, x)), Oldest(s))
    /\ bidIdx' = Drop(bidIdx, Oldest(s))
    /\ writeQueue' = IF Len(writeQueue) < QueueCap
                     THEN Append(writeQueue, [key |-> <<s, kind, idx>>, data |-> x]) ELSE writeQueue
    /\ UNCHANGED <<batch, table, pruning>>
Queued == Len(writeQueue) < QueueCap

-----------------------------------------------------------------------------
(* The writer.                                                             *)

\* InsertSlotArtifacts: one transaction of INSERT OR REPLACE, in order, so that the
\* last row of a key stays.
RowsOf(rows, k) == {i \in DOMAIN rows : rows[i].key = k}
Inserted(rows) ==
    [k \in DOMAIN table \cup {rows[i].key : i \in DOMAIN rows} |->
        IF RowsOf(rows, k) = {} THEN table[k] ELSE rows[Max(RowsOf(rows, k))].data]

\* flush: a batch that cannot be written is gone all the same.
Flush(rows) == batch' = <<>> /\ table' \in {Inserted(rows), table}

WriterTakes ==
    /\ writeQueue # <<>>
    /\ writeQueue' = Tail(writeQueue)
    /\ LET rows == Append(batch, Head(writeQueue)) IN
       \/ Len(rows) >= QueueCap /\ Flush(rows)
       \/ Len(rows) < QueueCap /\ batch' = rows /\ UNCHANGED table
    /\ UNCHANGED <<buffer, bidIdx, pruning>>

WriterTicks ==
    /\ batch # <<>>
    /\ Flush(batch)
    /\ UNCHANGED <<buffer, bidIdx, writeQueue, pruning>>

\* PruneBefore: the buffer under the mutex, then the table.
PruneBuffer(cutoff) ==
    /\ pruning = 0
    /\ \E s \in DOMAIN buffer \cup {k[1] : k \in DOMAIN table} : s < cutoff
    /\ pruning' = cutoff
    /\ buffer' = Drop(buffer, {s \in DOMAIN buffer : s < cutoff})
    /\ bidIdx' = Drop(bidIdx, {s \in DOMAIN buffer : s < cutoff})
    /\ UNCHANGED <<writeQueue, batch, table>>

PruneTable ==
    /\ pruning # 0
    /\ pruning' = 0
    /\ table' \in {Drop(table, {k \in DOMAIN table : k[1] < pruning}), table}
    /\ UNCHANGED <<buffer, bidIdx, writeQueue, batch>>

\* The process stops, in order (Stop drains the queue into a last batch) or not, and
\* starts again with what the table holds.
Restarted(orderly) ==
    /\ buffer' = Empty /\ bidIdx' = Empty
    /\ writeQueue' = <<>> /\ batch' = <<>> /\ pruning' = 0
    /\ table' = IF orderly THEN Inserted(batch \o writeQueue) ELSE table

\* Get: the buffer, then the table.
Get(s, kind, idx) ==
    IF s \in DOMAIN buffer /\ <<kind, idx>> \in DOMAIN buffer[s] THEN {buffer[s][<<kind, idx>>]}
    ELSE IF <<s, kind, idx>> \in DOMAIN table THEN {table[<<s, kind, idx>>]} ELSE {}
=============================================================================
