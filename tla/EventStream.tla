---------------------------- MODULE EventStream ----------------------------
(***************************************************************************)
(* pkg/webui/handlers/api/events.go: events are stamped, cached and sent   *)
(* to the channels of the connected browsers; a browser that connects gets *)
(* the cached events first, and in between, from a goroutine of its own,   *)
(* the current state.  useEventStream.ts drops what it has already seen    *)
(* and connects again when the stream breaks.                              *)
(*                                                                         *)
(*   slot    the slot of the loop's ticker                                 *)
(*   seq     the last number stamped                                       *)
(*   cache   eventCache: the number and slot of each event                 *)
(*   seen    seenHeadRoots                                                 *)
(*   conn    each request of EventStream: where its handler is, what       *)
(*           SendInitialState still has to send, its channel and capacity, *)
(*           and whether the browser is still there                        *)
(*   view    the browser: the highest number it processed, the events it   *)
(*           applied or was not sent because its channel was full, the     *)
(*           config it shows, and whether a newer one was not sent         *)
(*                                                                         *)
(* What events say is left out, but for the config, which is read when the *)
(* event is written: it is passed by reference.  slotStates is left out    *)
(* too: the browser does not read slot_state events, so that it is left    *)
(* open which slots have a state.  Several handlers announce in the same   *)
(* way; each is an action of its own.                                      *)
(***************************************************************************)
EXTENDS Integers, Sequences, FiniteSetsExt

CONSTANTS
    Conns,          \* bound: requests of EventStream
    Roots,          \* block roots
    CacheSlots,     \* eventCacheSlots (5)
    MaxCached,      \* maxCachedEvents (2000)
    Spare,          \* room in a channel besides the replay (64)
    KeepSlots,      \* keepSlots (10)
    SlotStates,     \* bound: slots with a state (KeepSlots and a few)
    Snapshots,      \* messages of SendInitialState between config and slot states (6)
    MaxSlot, MaxSeq \* bounds

ASSUME StreamAssumption ==
    {CacheSlots, MaxCached, Spare, KeepSlots, SlotStates, Snapshots, MaxSlot, MaxSeq} \subseteq Nat

VARIABLES slot, seq, cache, seen, conn, view

streamVars == <<slot, seq, cache, seen, conn, view>>

NoConn == [pc |-> "none", todo |-> <<>>, ch |-> <<>>, cap |-> 0, live |-> FALSE]

\* The events of a slot are cached; config, and the rest, are not.  Events without a
\* number are of SendInitialState.
Event(n, type) == [seq |-> n, type |-> type]

\* Of what is sent to a browser that left only the number of messages counts.
Sent(c, events) ==
    IF conn[c].live THEN events ELSE [i \in DOMAIN events |-> Event(0, "other")]

StreamInit ==
    /\ slot = 0 /\ seq = 0 /\ cache = <<>> /\ seen = {}
    /\ conn = [c \in Conns |-> NoConn]
    /\ view = [last |-> 0, settled |-> {}, config |-> <<>>, stale |-> FALSE]

Registered == {c \in Conns : conn[c].pc # "none"}
Full(c) == Len(conn[c].ch) >= conn[c].cap

-----------------------------------------------------------------------------
(* Broadcasting, under mu.                                                 *)

\* deliverLocked, for events one after the other: each gets the next number, and a
\* channel without room for it is skipped.
DeliverLocked(types) ==
    /\ seq + Len(types) <= MaxSeq
    /\ seq' = seq + Len(types)
    /\ LET stamped == [i \in DOMAIN types |-> Event(seq + i, types[i])]
           room(c) == Min({conn[c].cap - Len(conn[c].ch), Len(types)})
           skipped(type) == {seq + i : i \in {j \in DOMAIN types :
                               types[j] = type /\ \E c \in Registered : conn[c].live /\ j > room(c)}}
       IN  /\ conn' = [c \in Conns |->
                         IF c \in Registered
                         THEN [conn[c] EXCEPT !.ch = @ \o Sent(c, SubSeq(stamped, 1, room(c)))] ELSE conn[c]]
           /\ view' = [view EXCEPT !.settled = @ \cup skipped("slot"),
                                   !.stale = @ \/ skipped("config") # {}]

\* Broadcast: statistics, status, config; not cached.
Broadcast(type) == DeliverLocked(<<type>>) /\ UNCHANGED <<slot, cache, seen>>

\* The newest events, as many as the cache takes.
Newest(q) == SubSeq(q, Max({1, Len(q) - MaxCached + 1}), Len(q))

\* broadcastForSlot's entries in the cache.
Cached(s, n) ==
    Newest(cache \o [i \in 1 .. n |-> [seq |-> seq + i, slot |-> s]])

\* broadcastForSlot for n events.
BroadcastForSlot(s, n, rest) ==
    /\ DeliverLocked([i \in 1 .. n |-> "slot"] \o rest)
    /\ cache' = Cached(s, n)
    /\ UNCHANGED slot

\* broadcastSlotState: nothing for a slot without a state.
BroadcastSlotState(known) == IF known THEN <<"other">> ELSE <<>>

-----------------------------------------------------------------------------
(* The loop of Start, and what other goroutines announce.                  *)

\* cleanupOldSlots, for the slot that starts.
KeepsRoot(h) == slot + 1 <= KeepSlots \/ h[1] >= slot + 1 - KeepSlots

\* pruneEventCache, likewise: its loop appends what is kept of the first i entries.
PruneEventCache(q) ==
    LET kept[i \in 0 .. Len(q)] ==
          IF i = 0 THEN <<>>
          ELSE IF q[i].slot >= slot + 1 - CacheSlots + 1 THEN Append(kept[i - 1], q[i]) ELSE kept[i - 1]
    IN  IF slot + 1 < CacheSlots THEN q ELSE kept[Len(q)]

HandleSlotStart ==
    /\ slot < MaxSlot
    /\ slot' = slot + 1
    /\ DeliverLocked(<<"slot">>)
    /\ seen' = {h \in seen : KeepsRoot(h)}
    /\ cache' = PruneEventCache(Cached(slot + 1, 1))

\* An event of a slot and nothing else.
Announce(s) ==
    /\ BroadcastForSlot(s, 1, <<>>)
    /\ UNCHANGED seen

\* A build started or failed, or the node sent attributes.
HandlePayloadBuild(s) == Announce(s)
\* With the envelope, if the node had it.
HandlePayloadAvailable(s) == Announce(s)
HandleBlockDetail(s) == Announce(s)
HandleHeadVoteUpdate(s) == Announce(s)
\* Requests received and answers delivered, both dialects; from their goroutines.
BroadcastBuilderAPI(s) == Announce(s)
\* An event of the lifecycle manager counts for the current slot.
BroadcastLifecycle == Announce(slot)

\* Included and won.
BroadcastBidWon(s) ==
    /\ BroadcastForSlot(s, 2, <<>>)
    /\ UNCHANGED seen

\* A slot's state is created where there is none.
HandlePayloadReady(s) ==
    /\ BroadcastForSlot(s, 1, BroadcastSlotState(TRUE))
    /\ UNCHANGED seen

HandleBidEvent(s) ==
    /\ BroadcastForSlot(s, 1, BroadcastSlotState(TRUE))
    /\ UNCHANGED seen

\* ... or it is not, and a bid that failed leaves it alone.
HandleBidSubmission(s) ==
    /\ \E known \in BOOLEAN : BroadcastForSlot(s, 1, BroadcastSlotState(known))
    /\ UNCHANGED seen

BroadcastRevealStarted(s) == Announce(s)

\* A reveal is marked in a state there is.
BroadcastReveal(s) ==
    /\ \E known \in BOOLEAN : BroadcastForSlot(s, 1, BroadcastSlotState(known))
    /\ UNCHANGED seen

\* A head event: only the first for a block is sent on.
HandleHeadEvent(s, root) ==
    /\ <<s, root>> \notin seen
    /\ seen' = seen \cup {<<s, root>>}
    /\ BroadcastForSlot(s, 1, BroadcastSlotState(TRUE))

\* Something changed; also plans, results and vote coverage.
SendStats == Broadcast("other")
SendBuilderInfo == Broadcast("other")

\* A change of the registration state is also announced, for the current slot.
SendServiceStatus ==
    \/ Broadcast("other")
    \/ /\ DeliverLocked(<<"other", "slot">>)
       /\ cache' = Newest(Append(cache, [seq |-> seq + 2, slot |-> slot]))
       /\ UNCHANGED <<slot, seen>>

\* Bound: events come at most a slot late.
LoopStep ==
    \/ HandleSlotStart \/ SendStats \/ SendBuilderInfo \/ SendServiceStatus \/ BroadcastLifecycle
    \/ \E s \in {slot - 1, slot} \cap Nat :
         \/ HandlePayloadBuild(s) \/ HandlePayloadReady(s) \/ HandlePayloadAvailable(s)
         \/ HandleBlockDetail(s) \/ HandleHeadVoteUpdate(s)
         \/ HandleBidEvent(s) \/ HandleBidSubmission(s) \/ BroadcastBidWon(s)
         \/ BroadcastRevealStarted(s) \/ BroadcastReveal(s) \/ BroadcastBuilderAPI(s)
         \/ \E root \in Roots : HandleHeadEvent(s, root)

-----------------------------------------------------------------------------
(* One request of EventStream: its handler and the goroutine that sends    *)
(* the initial state.                                                      *)

unstreamed == <<slot, seq, cache, seen>>

\* SendInitialState: the config, other snapshots, then the slot states there are by then.
InitialState == <<"config">> \o [i \in 1 .. Snapshots |-> "other"] \o <<"states">>

\* RegisterClient: the channel begins with the cached events.  The browser has one
\* request at a time; which of those that are over is used again makes no difference.
RegisterClient(c) ==
    /\ c \notin Registered /\ \A d \in Conns : ~conn[d].live /\ (d < c => d \in Registered)
    /\ conn' = [conn EXCEPT ![c] =
                  [pc |-> "stream", todo |-> InitialState, live |-> TRUE,
                   ch |-> [i \in DOMAIN cache |-> Event(cache[i].seq, "slot")],
                   cap |-> Len(cache) + Spare]]
    /\ UNCHANGED <<unstreamed, view>>

SendInitial(c) ==
    /\ conn[c].todo # <<>> /\ Head(conn[c].todo) # "states" /\ ~Full(c)
    /\ conn' = [conn EXCEPT ![c].ch = @ \o Sent(c, <<Event(0, Head(conn[c].todo))>>),
                            ![c].todo = Tail(@)]
    /\ UNCHANGED <<unstreamed, view>>

\* They are copied first: the lock is not held while they are sent.
CopyStates(c) ==
    /\ conn[c].todo = <<"states">>
    /\ \E n \in 0 .. SlotStates : conn' = [conn EXCEPT ![c].todo = [i \in 1 .. n |-> "other"]]
    /\ UNCHANGED <<unstreamed, view>>

\* Mutant of QuitInitial: a send waits for room only.
QuitInitialNever(c) == FALSE /\ UNCHANGED streamVars

\* The request is over while a message waits.
QuitInitial(c) ==
    /\ conn[c].todo # <<>> /\ ~conn[c].live
    /\ conn' = [conn EXCEPT ![c].todo = <<>>]
    /\ UNCHANGED <<unstreamed, view>>

\* handleEvent of the browser: what was processed before is dropped.
Processes(e, config) ==
    IF e.seq > 0 /\ e.seq <= view.last THEN view
    ELSE [view EXCEPT !.last = IF e.seq > 0 THEN e.seq ELSE @,
                      !.settled = IF e.type = "slot" THEN @ \cup {e.seq} ELSE @,
                      !.config = IF e.type = "config" THEN config ELSE @,
                      !.stale = @ /\ e.type # "config"]

\* The handler takes an event and writes it.
Write(c, config) ==
    /\ conn[c].pc = "stream" /\ conn[c].ch # <<>>
    /\ view' = IF conn[c].live THEN Processes(Head(conn[c].ch), config) ELSE view
    /\ conn' = [conn EXCEPT ![c].ch = Tail(@)]
    /\ UNCHANGED unstreamed

\* The connection breaks.
Disconnect(c) ==
    /\ conn[c].live
    /\ conn' = [conn EXCEPT ![c].live = FALSE,
                            ![c].ch = [i \in DOMAIN @ |-> Event(0, "other")]]
    /\ UNCHANGED <<unstreamed, view>>

\* The handler leaves its loop, and waits for the goroutine ...
Leave(c) ==
    /\ conn[c].pc = "stream" /\ ~conn[c].live
    /\ conn' = [conn EXCEPT ![c].pc = "leave"]
    /\ UNCHANGED <<unstreamed, view>>

\* ... before it removes and closes the channel.
RemoveClient(c) ==
    /\ conn[c].pc = "leave" /\ conn[c].todo = <<>>
    /\ conn' = [conn EXCEPT ![c] = NoConn]
    /\ UNCHANGED <<unstreamed, view>>

HandlerStep(c, config) == Write(c, config) \/ Leave(c) \/ RemoveClient(c)
InitialStep(c) == SendInitial(c) \/ CopyStates(c) \/ QuitInitial(c)

\* Mutant of Seed: numbers start over.
SeedZero == 0

\* NewEventStreamManager starts from the clock, which is past the numbers handed out
\* before.
Seed == seq + 1

\* The process is started again.
StreamRestart ==
    /\ seq < MaxSeq /\ seq' = Seed
    /\ slot' = slot /\ cache' = <<>> /\ seen' = {}
    /\ conn' = [c \in Conns |-> NoConn]
    /\ view' = view

-----------------------------------------------------------------------------
(* Properties.                                                             *)

\* Of the events a browser that is connected can still be told about, it misses only those
\* its channel had no room for: each other is on its way or was applied, through replays,
\* connections that broke while events were under way, and restarts of the process
\* (RegisterClient, broadcastForSlot, the numbers' seed, lastSeqRef).
EventsReachBrowser ==
    \A c \in Conns : conn[c].live =>
        \A i \in DOMAIN cache :
            \/ cache[i].seq \in view.settled
            \/ \E j \in DOMAIN conn[c].ch : conn[c].ch[j].seq = cache[i].seq

\* The request of a browser that left ends, its channel closed only after the goroutine
\* that sends on it, though the channel is full and nobody reads it any more
\* (SendInitialState, EventStream).
RequestsEnd == \A c \in Conns : conn[c].pc = "stream" /\ ~conn[c].live ~> conn[c].pc = "none"
=============================================================================
