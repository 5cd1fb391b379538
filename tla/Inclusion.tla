----------------------------- MODULE Inclusion -----------------------------
(***************************************************************************)
(* pkg/payload_bidder/inclusion_tracker.go: which of our payloads the      *)
(* chain includes, and whether it builds on them, re-judged at every head  *)
(* because reorgs change the answer; and the part of                       *)
(* pkg/slot_results/tracker.go that records it.                            *)
(*                                                                         *)
(* Threads: the inclusion tracker's loop and the results tracker's loop,   *)
(* joined by two channels with blocking sends.  What a head that carries   *)
(* our payload does to payments and reveals is HeadIncludes of             *)
(* RevealService.                                                          *)
(*                                                                         *)
(*   tracked      trackedWins: the block and last verdict of a won slot    *)
(*   blockCache   roots of the blocks in the ancestry cache                *)
(*   includedCh   inclusion events of a slot on their way                  *)
(*   statusCh     verdicts of a slot on their way                          *)
(*   recorded     PayloadStatus of the slot's recorded inclusion           *)
(*   lastHead     history: the last head handled, and whether the whole    *)
(*                ancestry it needed was at hand                           *)
(*   heads        number of heads so far                                   *)
(*                                                                         *)
(* Both loops treat each slot by itself, so a channel is kept per slot and *)
(* a head is handled in one step; it waits for room in the channels first  *)
(* instead of between its sends.                                           *)
(***************************************************************************)
EXTENDS Integers, Sequences, FiniteSets

CONSTANTS
    Slots,        \* slots we may win
    Blocks,       \* roots of the beacon blocks of this run
    Info,         \* the BlockInfo of each block
    GloasSlot,    \* first slot of the Gloas fork
    Window,       \* wonTrackingWindowSlots (16)
    CacheExtra,   \* blockCacheExtraSlots (4)
    ChannelSize,  \* capacity of each of the two channels (16)
    MaxHeads,     \* bound: number of head events
    NoSlot, NoWin

Verdicts == {"canonical", "missed", "orphaned"}

\* ours: the slot of our payload the block commits to; base: the slot of our
\* payload it builds on, by its bid's parent_block_hash.
BlockInfo == [slot : Nat, parent : Blocks, ours : Slots \cup {NoSlot}, base : Slots \cup {NoSlot}]

ASSUME InclusionAssumption ==
    /\ Slots \subseteq Nat /\ NoSlot \notin Nat
    /\ Info \in [Blocks -> BlockInfo]
    /\ {GloasSlot, Window, CacheExtra, ChannelSize, MaxHeads} \subseteq Nat
    /\ \A b \in Blocks :
        /\ Info[b].ours \in {NoSlot, Info[b].slot}
        \* The first block is the genesis block.
        /\ \/ Info[Info[b].parent].slot < Info[b].slot
           \/ Info[b].parent = b /\ Info[b].slot = 0
    /\ NoWin \notin [root : Blocks, verdict : Verdicts \cup {"unknown"}]

VARIABLES tracked, blockCache, includedCh, statusCh, recorded, lastHead, heads

channels == <<includedCh, statusCh>>
vars == <<tracked, blockCache, channels, recorded, lastHead, heads>>

Win == [root : Blocks, verdict : Verdicts \cup {"unknown"}]
Statuses == Verdicts \cup {"none", "pending"}

InclusionTypeOK ==
    /\ tracked \in [Slots -> Win \cup {NoWin}]
    /\ blockCache \subseteq Blocks
    /\ includedCh \in [Slots -> 0 .. ChannelSize]
    /\ statusCh \in [Slots -> Seq(Verdicts)]
    /\ \A s \in Slots : Len(statusCh[s]) <= ChannelSize
    /\ recorded \in [Slots -> Statuses]
    /\ heads \in 0 .. MaxHeads

Init ==
    /\ tracked = [s \in Slots |-> NoWin]
    /\ blockCache = {}
    /\ includedCh = [s \in Slots |-> 0]
    /\ statusCh = [s \in Slots |-> <<>>]
    /\ recorded = [s \in Slots |-> "none"]
    /\ lastHead = [block |-> NoSlot, complete |-> FALSE]
    /\ heads = 0

-----------------------------------------------------------------------------
(* The ancestry of a head.                                                 *)

\* A block and its ancestors; the first block is its own parent.
Chain[b \in Blocks] ==
    IF Info[b].parent = b THEN {b} ELSE {b} \cup Chain[Info[b].parent]

\* resolveVerdict: the head's chain after slot s, its first block, and the block
\* the walk ends at.
After(h, s) == {b \in Chain[h] : Info[b].slot > s}
NextBlock(h, s) ==
    CHOOSE b \in After(h, s) : \A c \in After(h, s) : Info[b].slot <= Info[c].slot
Cursor(h, s) ==
    CHOOSE b \in Chain[h] \ After(h, s) :
        \A c \in Chain[h] \ After(h, s) : Info[c].slot <= Info[b].slot

\* The blocks getBlock is asked for, and those it returns when the node cannot
\* serve the blocks in down.
Asked(h, s) == (After(h, s) \ {h}) \cup {Cursor(h, s)}
Answered(h, s, down) ==
    {b \in Asked(h, s) :
        \A c \in Asked(h, s) \cap down : Info[c].slot < Info[b].slot}

\* Mutant of Verdict: the head itself is taken for the block after the won slot.
VerdictOfHead(h, s, root) ==
    IF Cursor(h, s) # root THEN "orphaned"
    ELSE IF Info[h].base = s THEN "canonical" ELSE "missed"

Verdict(h, s, root) ==
    IF Cursor(h, s) # root THEN "orphaned"
    ELSE IF Info[NextBlock(h, s)].base = s THEN "canonical" ELSE "missed"

-----------------------------------------------------------------------------
(* processBlockInfo.                                                       *)

\* checkForOurPayload: tracking starts, or starts again.
Armed(b) ==
    IF Info[b].ours # NoSlot /\ Info[b].ours >= GloasSlot
    THEN [tracked EXCEPT ![Info[b].ours] = [root |-> b, verdict |-> "unknown"]]
    ELSE tracked

\* evaluateTrackedWins: the slots whose verdict changes.
Changed(b, t, down) ==
    {s \in Slots : /\ t[s] # NoWin /\ Info[b].slot > s
                   /\ Asked(b, s) \cap down = {}
                   /\ t[s].verdict # Verdict(b, s, t[s].root)}

\* pruneTracking.
PrunedWins(t, n) ==
    [s \in Slots |-> IF n > Window /\ s < n - Window THEN NoWin ELSE t[s]]
PrunedCache(C, n) ==
    IF n > Window + CacheExtra THEN {b \in C : Info[b].slot >= n - Window - CacheExtra} ELSE C

\* Fire waits on a blocking subscription whose channel is full.
RoomFor(b, ch) ==
    /\ Info[b].ours # NoSlot => includedCh[Info[b].ours] < ChannelSize
    /\ \A s \in ch : Len(statusCh[s]) < ChannelSize

\* A head event for block b: the block is fetched and judged; the blocks in down
\* are neither cached nor served.  (When b
\* itself is not served, the event has no effect.)
ProcessHead(b, down) ==
    LET t == Armed(b)
        ch == Changed(b, t, down)
        live == {s \in Slots : t[s] # NoWin /\ Info[b].slot > s}
        cache == blockCache \cup {b} \cup UNION {Answered(b, s, down) : s \in live}
    IN  /\ heads < MaxHeads /\ heads' = heads + 1
        /\ RoomFor(b, ch)
        /\ includedCh' = [s \in Slots |-> includedCh[s] + (IF s = Info[b].ours THEN 1 ELSE 0)]
        /\ statusCh' = [s \in Slots |-> IF s \in ch
                                        THEN Append(statusCh[s], Verdict(b, s, t[s].root))
                                        ELSE statusCh[s]]
        /\ tracked' = PrunedWins([s \in Slots |-> IF s \in ch
                                       THEN [t[s] EXCEPT !.verdict = Verdict(b, s, t[s].root)]
                                       ELSE t[s]], Info[b].slot)
        /\ blockCache' = PrunedCache(cache, Info[b].slot)
        /\ lastHead' = [block |-> b,
                        complete |-> \A s \in live : Asked(b, s) \cap down = {}]
        /\ UNCHANGED recorded

-----------------------------------------------------------------------------
(* The results tracker: its loop picks any channel that has an event.      *)

\* handleIncluded.
HandleIncluded(s) ==
    /\ includedCh[s] > 0
    /\ includedCh' = [includedCh EXCEPT ![s] = @ - 1]
    /\ recorded' = [recorded EXCEPT ![s] = IF s >= GloasSlot THEN "pending" ELSE "canonical"]
    /\ UNCHANGED <<tracked, blockCache, statusCh, lastHead, heads>>

\* Mutant of HandlePayloadStatus: a recorded verdict is final.
HandlePayloadStatusOnce(s) ==
    /\ statusCh[s] # <<>>
    /\ statusCh' = [statusCh EXCEPT ![s] = Tail(@)]
    /\ recorded' = [recorded EXCEPT ![s] = IF @ = "pending" THEN Head(statusCh[s]) ELSE @]
    /\ UNCHANGED <<tracked, blockCache, includedCh, lastHead, heads>>

\* handlePayloadStatus: without a recorded inclusion the verdict is dropped.
HandlePayloadStatus(s) ==
    /\ statusCh[s] # <<>>
    /\ statusCh' = [statusCh EXCEPT ![s] = Tail(@)]
    /\ recorded' = [recorded EXCEPT ![s] = IF @ = "none" THEN @ ELSE Head(statusCh[s])]
    /\ UNCHANGED <<tracked, blockCache, includedCh, lastHead, heads>>

-----------------------------------------------------------------------------
Next ==
    \/ \E b \in Blocks : \E down \in SUBSET (Chain[b] \ (blockCache \cup {b})) :
           ProcessHead(b, down)
    \/ \E s \in Slots : HandleIncluded(s) \/ HandlePayloadStatus(s)

Spec == Init /\ [][Next]_vars

-----------------------------------------------------------------------------
(* Properties.                                                             *)

\* The outcome of slot s on the chain of head h, when block root committed to our
\* payload: the block is on it, and a child of it builds on the payload.
Outcome(h, s, root) ==
    IF root \notin Chain[h] THEN "orphaned"
    ELSE IF \E b \in Chain[h] : b # root /\ Info[b].parent = root /\ Info[b].base = s
    THEN "canonical" ELSE "missed"

\* After a head whose ancestry could be read, every tracked win has the verdict of
\* that head's chain, through every reorg, fetch failure and pruned cache
\* (evaluateTrackedWins).
VerdictFollowsHead ==
    lastHead.complete =>
        \A s \in Slots :
            tracked[s] # NoWin /\ Info[lastHead.block].slot > s =>
                tracked[s].verdict = Outcome(lastHead.block, s, tracked[s].root)

Quiet(s) == includedCh[s] = 0 /\ statusCh[s] = <<>>

\* Once the channels are drained, the recorded status of a judged win is its last
\* verdict or still pending: no verdict of an abandoned branch stays.
NoStaleVerdict ==
    \A s \in Slots :
        Quiet(s) /\ tracked[s] # NoWin /\ tracked[s].verdict # "unknown" =>
            recorded[s] \in {"pending", tracked[s].verdict}

=============================================================================
