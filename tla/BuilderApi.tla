----------------------------- MODULE BuilderApi -----------------------------
(***************************************************************************)
(* pkg/builderapi: proposers ask over HTTP for a bid and hand in the block *)
(* that takes it, in the dialect before Gloas (legacy) or since (epbs).    *)
(* Every request is a goroutine of its own.  Bids are built from the       *)
(* payload cache and the slot's frozen plan, a block is broadcast through  *)
(* the beacon node and its reveal handed to the reveal service; what       *)
(* happened is recorded per slot, each bid with the artifact it is.        *)
(*                                                                         *)
(*   clock       current slot                                              *)
(*   cache       PayloadCache: the payload of a slot                       *)
(*   registered  validators that registered (legacy)                       *)
(*   maxPayment  BuilderPreferencesStore                                   *)
(*   req         the requests: where each is, and what it holds            *)
(*   lastBids    per dialect and slot: the outcome last passed on          *)
(*   attempts    the bids recorded for the slots                           *)
(*   orphans     history: records of bids whose artifact had not reached   *)
(*               the table when the program stopped                        *)
(*   outcomes    per request: what was recorded of its block               *)
(*   broadcast   slots whose block was given to the beacon node            *)
(*   revealing   slots whose reveal was requested                          *)
(*   bids        number of bids added to the payloads (AddBid)             *)
(*                                                                         *)
(* A payload is named by its slot and parent, a signed bid by its number   *)
(* and what it pays.  Decoding, signatures and the wire formats are inputs *)
(* of a request: they hold or they do not.                                 *)
(***************************************************************************)
EXTENDS SlotArtifacts

CONSTANTS
    MaxSlot,      \* bound: the last slot
    GloasSlot,    \* the first slot of the Gloas fork
    Plan,         \* per slot, the frozen Builder API settings (Freeze is stable)
    BlockValue,   \* value of each slot's payload, in gwei
    MaxGwei,      \* the largest uint64
    Validators,
    Payments,     \* the values max_execution_payment is given
    Requests,     \* bound: the requests that arrive
    Calls,        \* bound: what each of them may be
    CacheSlots,   \* maxSlots of the payload cache
    BidSlots,     \* maxRecordedBidSlots (16)
    Parents,      \* parent blocks: a slot's payload has one of them
    Leads,        \* bound: how far ahead of the clock the slots asked for are
    HandlerSlots, \* bound: a handler is done when its slot is that far behind
    Retention     \* SlotArtifactRetentionEpochs, in slots

ApiSlots == 1 .. MaxSlot
Dialects == {"legacy", "epbs"}

\* How far ahead of the clock a bid is built: one slot at most.
Ahead == IF 1 \in Leads THEN 1 ELSE 0

\* Proposers ask for the current or the next slot, and are answered within seconds:
\* the slot of a handler is neither pruned nor pushed out of the buffer of 64 slots.
ASSUME ApiAssumption ==
    /\ {MaxSlot, GloasSlot, MaxGwei, HandlerSlots, Retention} \subseteq Nat
    /\ CacheSlots > 0 /\ BidSlots > 0
    /\ BlockValue \in [ApiSlots -> 0 .. MaxGwei]
    /\ Leads \subseteq Int /\ \A l \in Leads : l + HandlerSlots > 0
    /\ HandlerSlots + Ahead <= BufferSlots /\ HandlerSlots <= Retention + 1

VARIABLES clock, cache, registered, maxPayment,
          req, lastBids, attempts, orphans, outcomes, broadcast, revealing, bids

envVars == <<clock, cache, registered, maxPayment>>
recordVars == <<lastBids, attempts, orphans, outcomes>>
blockVars == <<broadcast, revealing>>
apiVars == <<envVars, req, recordVars, blockVars, bids, artifactVars>>

Fresh == [pc |-> "new"]
Done == [pc |-> "done"]
NoBid == [id |-> 0, value |-> 0, payment |-> 0]

ApiInit ==
    /\ clock = 1 /\ cache = Empty /\ registered = {}
    /\ maxPayment = [v \in Validators |-> 0]
    /\ req = [q \in Requests |-> Fresh]
    /\ lastBids = [d \in Dialects |-> Empty] /\ attempts = {} /\ orphans = {}
    /\ outcomes = [q \in Requests |-> {}]
    /\ broadcast = {} /\ revealing = {} /\ bids = 0
    /\ ArtifactsInit

-----------------------------------------------------------------------------
(* getHeader and getExecutionPayloadBid.                                   *)

\* What the payload cache says of a request.
CacheOutcome(r) ==
    IF r.slot \notin DOMAIN cache THEN "no payload"
    ELSE IF cache[r.slot] # r.parent THEN "wrong parent" ELSE "bid"

\* The checks in the order the handlers make them: the outcome to record, "none"
\* when nothing is, or "bid".
LegacyOutcome(r) ==
    IF clock >= GloasSlot \/ r.slot > clock + 1 THEN "none"
    ELSE IF ~Plan[r.slot].serve THEN "suppressed"
    ELSE IF r.validator \notin registered THEN "not registered"
    ELSE CacheOutcome(r)

\* The signed request authorisation holds, or is missing and not required.
Authorised(r) == "auth" \in r.known

EpbsOutcome(r) ==
    IF "active" \notin r.known \/ r.slot > clock + 1 THEN "none"
    ELSE IF ~Plan[r.slot].serve THEN "suppressed"
    ELSE IF r.slot < GloasSlot THEN "before Gloas"
    ELSE IF ~Authorised(r) THEN "none"
    ELSE IF CacheOutcome(r) = "bid" /\ "preferences" \notin r.known THEN "no preferences"
    ELSE CacheOutcome(r)

\* The plan's absolute value, or the block's with the subsidy.
TotalValue(s) == IF Plan[s].total >= 0 THEN Plan[s].total ELSE BlockValue[s] + Plan[s].subsidy

\* The bid.  Legacy values are 256-bit; an epbs value is a uint64 that wraps, split at
\* what the proposer takes as an execution payment.
SignedBid(d, r) ==
    LET total == IF d = "legacy" THEN TotalValue(r.slot) ELSE TotalValue(r.slot) % (MaxGwei + 1)
        payment == IF d = "legacy" THEN 0 ELSE Min({total, maxPayment[r.validator]})
    IN  [id |-> bids + 1, value |-> total - payment, payment |-> payment]

Outcome(d, r) == IF d = "legacy" THEN LegacyOutcome(r) ELSE EpbsOutcome(r)

\* The handler up to its record, or to the response it is about to delay.
GetBid(q, d, r) ==
    /\ req[q] = Fresh
    /\ LET o == Outcome(d, r) IN
       \/ /\ o = "none"
          /\ req' = [req EXCEPT ![q] = Done]
          /\ UNCHANGED bids
       \/ /\ o # "none" \* a bid that cannot be built has failed, too
          /\ req' = [req EXCEPT ![q] = [pc |-> "record", dialect |-> d, slot |-> r.slot, bid |-> NoBid,
                                        status |-> IF o = "suppressed" THEN o ELSE "failed", error |-> o]]
          /\ UNCHANGED bids
       \/ /\ o = "bid"
          /\ req' = [req EXCEPT ![q] = [pc |-> "respond", dialect |-> d, slot |-> r.slot,
                                        bid |-> SignedBid(d, r)]]
          /\ bids' = bids + 1
    /\ UNCHANGED <<envVars, recordVars, blockVars, artifactVars>>

\* The response is written, or fails, or the proposer hangs up during the delay.
Responses(s) == {"served", "failed"} \cup (IF Plan[s].delay THEN {"cancelled"} ELSE {})

Respond(q) ==
    /\ req[q].pc = "respond"
    /\ \E status \in Responses(req[q].slot) :
         req' = [req EXCEPT ![q] = [pc |-> "record", dialect |-> @.dialect, slot |-> @.slot, bid |-> @.bid,
                                    status |-> status, error |-> IF status = "served" THEN "" ELSE status]]
    /\ UNCHANGED <<envVars, recordVars, blockVars, bids, artifactVars>>

\* What two outcomes must agree on to count as the same.
Fingerprint(x) == <<x.status, IF x.bid = NoBid THEN 0 ELSE x.slot, x.bid.value + x.bid.payment, x.error>>

\* The dedupe map with an outcome of slot s: the smallest slots beyond its cap go.
Remembered(m, s, x) ==
    LET all == Put(m, s, Fingerprint(x))
        excess == Cardinality(DOMAIN all) - BidSlots
    IN  Drop(all, {t \in DOMAIN all : Cardinality({u \in DOMAIN all : u < t}) < excess})

\* recordBid under its mutex; the recorder is called after the unlock.
RecordBid(q) ==
    LET x == req[q] IN
    /\ x.pc = "record"
    /\ \/ /\ x.slot \in DOMAIN lastBids[x.dialect]
          /\ lastBids[x.dialect][x.slot] = Fingerprint(x)
          /\ req' = [req EXCEPT ![q] = Done]
          /\ UNCHANGED lastBids
       \/ /\ x.slot \in DOMAIN lastBids[x.dialect] => lastBids[x.dialect][x.slot] # Fingerprint(x)
          /\ lastBids' = [lastBids EXCEPT ![x.dialect] = Remembered(@, x.slot, x)]
          /\ req' = [req EXCEPT ![q].pc = IF x.bid = NoBid THEN "append" ELSE "allocate"]
    /\ UNCHANGED <<envVars, attempts, orphans, outcomes, blockVars, bids, artifactVars>>

\* RecordBuilderAPIBid: StoreBid takes an index ...
Allocate(q) ==
    /\ req[q].pc = "allocate"
    /\ req' = [req EXCEPT ![q] = [pc |-> "store", slot |-> @.slot, bid |-> @.bid, idx |-> NextIndex(@.slot)]]
    /\ AllocateIndex(req[q].slot)
    /\ UNCHANGED <<envVars, recordVars, blockVars, bids, buffer, writeQueue, batch, table, pruning>>

\* ... and stores the bid under it; the attempt names the index unless the writer's
\* queue was full.
StoreBid(q) ==
    LET x == req[q] IN
    /\ x.pc = "store"
    /\ Capture(x.slot, "bid", x.idx, x.bid.id)
    /\ attempts' = attempts \cup {[slot |-> x.slot, bid |-> x.bid.id, idx |-> IF Queued THEN x.idx ELSE -1]}
    /\ req' = [req EXCEPT ![q] = Done]
    /\ UNCHANGED <<envVars, lastBids, orphans, outcomes, blockVars, bids>>

\* The table cannot be read for the slot's first index, or the bid not be encoded once it
\* has one: the attempt is recorded without.
StoreBidFails(q) ==
    /\ \/ req[q].pc = "allocate" /\ req[q].slot \notin DOMAIN bidIdx
       \/ req[q].pc = "store"
    /\ req' = [req EXCEPT ![q] = [pc |-> "append", slot |-> @.slot, bid |-> @.bid]]
    /\ UNCHANGED <<envVars, recordVars, blockVars, bids, artifactVars>>

\* An attempt without a bid, or without its artifact.
AppendBid(q) ==
    /\ req[q].pc = "append"
    /\ attempts' = attempts \cup {[slot |-> req[q].slot, bid |-> req[q].bid.id, idx |-> -1]}
    /\ req' = [req EXCEPT ![q] = Done]
    /\ UNCHANGED <<envVars, lastBids, orphans, outcomes, blockVars, bids, artifactVars>>

-----------------------------------------------------------------------------
(* submitBlindedBlock and submitBeaconBlock.                               *)

SubmitOpen(d) == IF d = "legacy" THEN clock < GloasSlot ELSE clock >= GloasSlot

\* The block of slot s arrives, with the payload of parent p in it.
SubmitBlock(q, d, s, p) ==
    /\ req[q] = Fresh
    /\ \/ \* the API is disabled or the body cannot be read; or the dialect is not served
          /\ req' = [req EXCEPT ![q] = Done]
          /\ UNCHANGED outcomes
       \/ \* not our payload, or the block cannot be put together
          /\ SubmitOpen(d)
          /\ outcomes' = [outcomes EXCEPT ![q] = {"received", "failed"}]
          /\ req' = [req EXCEPT ![q] = Done]
       \/ /\ SubmitOpen(d) /\ s \in DOMAIN cache /\ cache[s] = p
          /\ outcomes' = [outcomes EXCEPT ![q] = {"received"}]
          /\ req' = [req EXCEPT ![q] = [pc |-> "publish", dialect |-> d, slot |-> s]]
    /\ UNCHANGED <<envVars, lastBids, attempts, orphans, blockVars, bids, artifactVars>>

\* Mutant of Publish: the reveal is handed over before the block is out.
PublishLast(q) ==
    LET x == req[q] IN
    /\ x.pc = "publish"
    /\ revealing' = IF x.dialect = "epbs" THEN revealing \cup {x.slot} ELSE revealing
    /\ \/ broadcast' = broadcast \cup {x.slot} /\ outcomes' = [outcomes EXCEPT ![q] = @ \cup {"accepted"}]
       \/ UNCHANGED broadcast /\ outcomes' = [outcomes EXCEPT ![q] = @ \cup {"failed"}]
    /\ req' = [req EXCEPT ![q] = Done]
    /\ UNCHANGED <<envVars, lastBids, attempts, orphans, bids, artifactVars>>

\* SubmitProposal.  An error may be of the answer only: the node has the block.
Publish(q) ==
    LET x == req[q] IN
    /\ x.pc = "publish"
    /\ \/ /\ broadcast' = broadcast \cup {x.slot}
          /\ req' = [req EXCEPT ![q].pc = "accept"]
          /\ UNCHANGED outcomes
       \/ /\ broadcast' \in {broadcast, broadcast \cup {x.slot}}
          /\ outcomes' = [outcomes EXCEPT ![q] = @ \cup {"failed"}]
          /\ req' = [req EXCEPT ![q] = Done]
    /\ UNCHANGED <<envVars, lastBids, attempts, orphans, revealing, bids, artifactVars>>

\* Mutant of Accept: a legacy block is not recorded as accepted.
AcceptQuietly(q) ==
    LET x == req[q] IN
    /\ x.pc = "accept"
    /\ revealing' = IF x.dialect = "epbs" THEN revealing \cup {x.slot} ELSE revealing
    /\ outcomes' = IF x.dialect = "epbs" THEN [outcomes EXCEPT ![q] = @ \cup {"accepted"}] ELSE outcomes
    /\ req' = [req EXCEPT ![q] = Done]
    /\ UNCHANGED <<envVars, lastBids, attempts, orphans, broadcast, bids, artifactVars>>

\* The reveal is the reveal service's from here on (RequestReveal); then the outcome
\* is recorded.
Accept(q) ==
    LET x == req[q] IN
    /\ x.pc = "accept"
    /\ revealing' = IF x.dialect = "epbs" THEN revealing \cup {x.slot} ELSE revealing
    /\ outcomes' = [outcomes EXCEPT ![q] = @ \cup {"accepted"}]
    /\ req' = [req EXCEPT ![q] = Done]
    /\ UNCHANGED <<envVars, lastBids, attempts, orphans, broadcast, bids, artifactVars>>

-----------------------------------------------------------------------------
(* registerValidators and submitBuilderPreferences.                        *)

\* A batch is stored one by one up to the first signature that does not hold.
RegisterValidators(q, batchOf, valid) ==
    /\ req[q] = Fresh
    /\ LET good == {i \in DOMAIN batchOf : \A j \in 1 .. i : batchOf[j] \in valid} IN
       registered' = registered \cup {batchOf[i] : i \in good}
    /\ req' = [req EXCEPT ![q] = Done]
    /\ UNCHANGED <<clock, cache, maxPayment, recordVars, blockVars, bids, artifactVars>>

\* Stored when enabled, for our URL, and with the validator's signature.
SubmitPreferences(q, v, amount, auth) ==
    /\ req[q] = Fresh
    /\ maxPayment' = IF auth THEN [maxPayment EXCEPT ![v] = amount] ELSE maxPayment
    /\ req' = [req EXCEPT ![q] = Done]
    /\ UNCHANGED <<clock, cache, registered, recordVars, blockVars, bids, artifactVars>>

-----------------------------------------------------------------------------
(* The rest of the program.                                                *)

rest == <<req, recordVars, blockVars, bids, artifactVars>>

Running(q) == req[q].pc \notin {"new", "done", "dead"}

\* A handler is through before its slot is HandlerSlots behind.
ClockTicks ==
    /\ clock < MaxSlot
    /\ \A q \in Requests : Running(q) => req[q].slot + HandlerSlots > clock + 1
    /\ clock' = clock + 1
    /\ UNCHANGED <<cache, registered, maxPayment, rest>>

\* PayloadCache.Store: once per slot (BuildOnce of PayloadBuilder); the oldest goes.
PayloadReady(s, p) ==
    /\ s \in clock .. clock + 1 /\ s \notin DOMAIN cache
    /\ LET all == Put(cache, s, p) IN
       cache' = IF Cardinality(DOMAIN all) > CacheSlots THEN Drop(all, {Min(DOMAIN all)}) ELSE all
    /\ UNCHANGED <<clock, registered, maxPayment, rest>>

\* The program stops and starts: the requests it served are cut off, the stores that
\* are persisted come back, payloads do not.  Records are persisted apart from the
\* artifacts: after a crash any of them may be left, with or without its artifact.
Restart(orderly) ==
    /\ Restarted(orderly)
    /\ req' = [q \in Requests |-> IF req[q] = Fresh THEN Fresh ELSE [pc |-> "dead"]]
    /\ cache' = Empty
    /\ lastBids' = [d \in Dialects |-> Empty]
    /\ attempts' \in IF orderly THEN {attempts} ELSE SUBSET attempts
    /\ orphans' = {a \in attempts' : a \in orphans \/ <<a.slot, "bid", a.idx>> \notin DOMAIN table'}
    /\ UNCHANGED <<clock, registered, maxPayment, outcomes, blockVars, bids>>

\* What the web UI serves under the index of a bid.
GetSlotBidArtifact(s, idx) == IF idx < 0 THEN {} ELSE Get(s, "bid", idx)

Arrives(q) ==
    \/ "bid" \in Calls[q] /\ \E d \in Dialects, lead \in Leads, p \in Parents, v \in Validators, known \in SUBSET {"active", "auth", "preferences"} :
         GetBid(q, d, [slot |-> clock + lead, parent |-> p, validator |-> v, known |-> known])
    \/ "block" \in Calls[q] /\ \E d \in Dialects, s \in ApiSlots, p \in Parents : SubmitBlock(q, d, s, p)
    \/ "register" \in Calls[q] /\ \E v, w \in Validators, valid \in SUBSET Validators : RegisterValidators(q, <<v, w>>, valid)
    \/ "preferences" \in Calls[q] /\ \E v \in Validators, amount \in Payments, a \in BOOLEAN : SubmitPreferences(q, v, amount, a)

Continues(q) ==
    \/ Respond(q) \/ RecordBid(q) \/ AppendBid(q)
    \/ Allocate(q) \/ StoreBid(q) \/ StoreBidFails(q)
    \/ Publish(q) \/ Accept(q)

Writer == (WriterTakes \/ WriterTicks) /\ UNCHANGED <<envVars, req, recordVars, blockVars, bids>>
Prune == (PruneTable \/ PruneBuffer(clock - Retention)) /\ UNCHANGED <<envVars, req, recordVars, blockVars, bids>>

ApiNext ==
    \/ \E q \in Requests : Arrives(q) \/ Continues(q)
    \/ Writer
    \/ Prune
    \/ \E orderly \in BOOLEAN : Restart(orderly)
    \/ ClockTicks
    \/ \E s \in ApiSlots, p \in Parents : PayloadReady(s, p)

\* A handler that runs goes on running: its calls have timeouts of their own.
ApiFairness == \A q \in Requests : WF_apiVars(Continues(q))

ApiSpec == ApiInit /\ [][ApiNext]_apiVars /\ ApiFairness

-----------------------------------------------------------------------------
(* What the Builder API promises.                                          *)

\* The payload of a block is never handed to the reveal service before the proposer's
\* block is with the beacon node, nor when it was refused.
RevealAfterBroadcast == revealing \subseteq broadcast

\* The records but for those whose artifact a restart found missing: their index is free
\* again, and another bid may be stored under it.
Backed == attempts \ orphans

\* The index recorded with a bid names that bid for as long as anything is stored under
\* it, with concurrent requests, failing writes, a full queue, slots leaving the buffer,
\* and over restarts, unless the artifact was lost in one.
IndexNamesBid ==
    \A a \in Backed : GetSlotBidArtifact(a.slot, a.idx) \subseteq {a.bid}

\* A bid in the table is not overwritten by another, also after a restart.
RowsKept ==
    [][\A k \in DOMAIN table : k[2] = "bid" /\ k \in DOMAIN table' => table'[k] = table[k]]_apiVars

\* A block that was received is accepted or failed in the end, and only one of them,
\* unless the program stops meanwhile.
SubmissionsSettle ==
    \A q \in Requests :
      "received" \in outcomes[q] ~>
        req[q].pc = "dead" \/ Cardinality(outcomes[q] \cap {"accepted", "failed"}) = 1
=============================================================================
