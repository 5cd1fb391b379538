--------------------------- MODULE RevealService ---------------------------
(***************************************************************************)
(* pkg/payload_bidder/reveal_service.go: publishing a won payload's        *)
(* envelope once the slot's time and vote gates open, with retries, and    *)
(* the payment that a publication settles.                                 *)
(*                                                                         *)
(* Threads: the run loop, which owns `pending`; the senders of requests    *)
(* (the inclusion tracker and the Builder API), which do not block; the    *)
(* head-vote tracker, external here.  Time is counted in ticks.            *)
(*                                                                         *)
(*   now        the wall clock                                             *)
(*   settings   frozen reveal settings of each slot (stable: see           *)
(*              SnapshotStable of PlanService)                             *)
(*   reached    slots and blocks whose participation has reached the       *)
(*              slot's threshold                                           *)
(*   requests   the request channel                                        *)
(*   pending    revealState of each slot, NoEntry where there is none      *)
(*   round      the processDue under way: its time and entries to visit    *)
(*   result     the last RevealResult of a slot                            *)
(*   published  history: successful publications of a slot                 *)
(***************************************************************************)
EXTENDS Payments, Sequences

CONSTANTS
    Roots,          \* beacon blocks that may commit to a slot's payload
    TicksPerSlot,
    MaxTime,        \* bound: the clock stops here, and later times are this one
    LastRequest,    \* bound: no request is sent after this tick
    MaxReveals,     \* bound: no request is sent after as many publications
    Settings,       \* the reveal settings each slot can be frozen with
    MaxAttempts,    \* publish attempts per reveal
    RetryTicks,     \* retry interval
    QueueSize,      \* capacity of the request channel (16)
    NoEntry         \* no revealState

Gates == {"time", "vote", "vote_or_time", "vote_and_time"}

\* at is the reveal time, in ticks after the start of the slot.
SettingsType == [mode : {"suppressed", "deadline", "bypass"}, gate : Gates, at : Nat]

Entry == [root : Roots, attempts : Nat, voteMet : BOOLEAN, next : Nat, done : BOOLEAN]

ASSUME RevealAssumption ==
    /\ {MaxTime, LastRequest, MaxReveals, RetryTicks, QueueSize} \subseteq Nat
    /\ {TicksPerSlot, MaxAttempts} \subseteq Nat \ {0}
    /\ Settings \in [Slots -> SUBSET SettingsType]
    /\ NoEntry \notin Entry

VARIABLES now, settings, reached, requests, pending, round, result, published

revealVars == <<now, settings, reached, requests, pending, round, result, published>>
vars == <<payVars, revealVars>>

Idle == [at |-> 0, left |-> {}]
Results == {"none", "suppressed", "late", "timeout", "retrying", "failed", "revealed"}

RevealTypeOK ==
    /\ PaymentsTypeOK
    /\ now \in Nat
    /\ settings \in [Slots -> SettingsType]
    /\ reached \subseteq Slots \X Roots
    /\ requests \in Seq([slot : Slots, root : Roots]) /\ Len(requests) <= QueueSize
    /\ pending \in [Slots -> Entry \cup {NoEntry}]
    /\ round \in [at : Nat, left : SUBSET Slots]
    /\ \A s \in round.left : pending[s] # NoEntry /\ ~pending[s].done
    /\ result \in [Slots -> Results]
    /\ published \in [Slots -> Nat]

Init ==
    /\ PaymentsInit
    /\ now = 0
    /\ settings \in {f \in [Slots -> UNION {Settings[s] : s \in Slots}] :
                      \A s \in Slots : f[s] \in Settings[s]}
    /\ reached = {}
    /\ requests = <<>>
    /\ pending = [s \in Slots |-> NoEntry]
    /\ round = Idle
    /\ result = [s \in Slots |-> "none"]
    /\ published = [s \in Slots |-> 0]

-----------------------------------------------------------------------------
(* Times of a slot.                                                        *)

SlotStart(s) == s * TicksPerSlot
Deadline(s) == SlotStart(s) + TicksPerSlot
TimeDue(s) == SlotStart(s) + settings[s].at
Expiry(s) ==
    IF settings[s].mode = "bypass" THEN Deadline(s) + TicksPerSlot ELSE Deadline(s)

Capped(t) == IF t > MaxTime THEN MaxTime ELSE t

VoteGated(s) == settings[s].gate # "time"

\* gateSatisfied, at time t and with the vote gate open or not.
GateSatisfied(s, voteMet, t) ==
    CASE settings[s].gate = "vote"          -> voteMet
      [] settings[s].gate = "vote_or_time"  -> voteMet \/ t >= TimeDue(s)
      [] settings[s].gate = "vote_and_time" -> voteMet /\ t >= TimeDue(s)
      [] OTHER                              -> t >= TimeDue(s)

\* Mutant of FirstAttempt: votes that are in open the vote_and_time gate at once.
FirstAttemptEager(s, voteMet) ==
    IF voteMet THEN now
    ELSE IF settings[s].gate \in {"vote", "vote_and_time"} THEN Expiry(s)
    ELSE IF TimeDue(s) < now THEN now ELSE TimeDue(s)

\* The first attempt per gate mode; a state that waits for votes parks on the
\* expiry.  Never in the past.
FirstAttempt(s, voteMet) ==
    LET t == CASE settings[s].gate = "vote"          -> IF voteMet THEN now ELSE Expiry(s)
               [] settings[s].gate = "vote_or_time"  -> IF voteMet THEN now ELSE TimeDue(s)
               [] settings[s].gate = "vote_and_time" -> IF voteMet THEN TimeDue(s) ELSE Expiry(s)
               [] OTHER                              -> TimeDue(s)
    IN  IF t < now THEN now ELSE t

-----------------------------------------------------------------------------
(* Requests.                                                               *)

\* RequestReveal: a full queue drops the request.
RequestReveal(s, r) ==
    requests' = IF Len(requests) < QueueSize
                THEN Append(requests, [slot |-> s, root |-> r]) ELSE requests

\* Requests come from the start of the slot on.
MayRequest(s) == SlotStart(s) <= now /\ now <= LastRequest /\ published[s] < MaxReveals

\* The inclusion tracker sees, perhaps again after a reorg, a head whose block r
\* commits to our payload of slot s: checkForOurPayload.
HeadIncludes(s, r) ==
    /\ MayRequest(s)
    /\ RecordWonBid(s)
    /\ RequestReveal(s, r)
    /\ UNCHANGED <<now, settings, reached, pending, round, result, published>>

\* The Builder API broadcasts the proposer's block: submitBeaconBlock.
ApiSubmits(s, r) ==
    /\ MayRequest(s)
    /\ RequestReveal(s, r)
    /\ UNCHANGED <<payVars, now, settings, reached, pending, round, result, published>>

-----------------------------------------------------------------------------
(* The run loop.                                                           *)

LoopIdle == round.left = {}

\* The dedup marker of a request that is not scheduled.
Finished(r) == [root |-> r, attempts |-> 0, voteMet |-> FALSE, next |-> 0, done |-> TRUE]

\* schedule.
Schedule ==
    /\ LoopIdle /\ requests # <<>>
    /\ requests' = Tail(requests)
    /\ LET s == Head(requests).slot
           r == Head(requests).root
           met == VoteGated(s) /\ <<s, r>> \in reached
           e == [root |-> r, attempts |-> 0, voteMet |-> met,
                 next |-> FirstAttempt(s, met), done |-> FALSE]
           finish(why) == /\ pending' = [pending EXCEPT ![s] = Finished(r)]
                          /\ result' = [result EXCEPT ![s] = why]
       IN  IF pending[s] # NoEntry THEN UNCHANGED <<pending, result>>
           ELSE IF settings[s].mode = "suppressed" THEN finish("suppressed")
           ELSE IF settings[s].mode = "deadline" /\ now > Deadline(s) THEN finish("late")
           ELSE pending' = [pending EXCEPT ![s] = e] /\ UNCHANGED result
    /\ UNCHANGED <<payVars, now, settings, reached, round, published>>

\* Mutant of HandleVoteUpdate: the update's block root is not compared.
HandleVoteUpdateAnyRoot(s, r, met) ==
    /\ LoopIdle
    /\ met /\ <<s, r>> \in reached
    /\ pending[s] # NoEntry
    /\ ~pending[s].done /\ ~pending[s].voteMet /\ VoteGated(s)
    /\ pending' = [pending EXCEPT ![s] = [@ EXCEPT !.voteMet = TRUE, !.next = now]]
    /\ UNCHANGED <<payVars, now, settings, reached, requests, round, result, published>>

\* handleVoteUpdate for block r of slot s.  The update was sent earlier: met says
\* whether it carries the threshold, which the tracker has reached since.
HandleVoteUpdate(s, r, met) ==
    /\ LoopIdle
    /\ met => <<s, r>> \in reached
    /\ pending[s] # NoEntry
    /\ ~pending[s].done /\ ~pending[s].voteMet /\ VoteGated(s)
    /\ pending[s].attempts > 0 \/ (met /\ r = pending[s].root)
    /\ pending' = [pending EXCEPT ![s] =
         IF @.attempts > 0 THEN [@ EXCEPT !.voteMet = TRUE]
         ELSE [@ EXCEPT !.voteMet = TRUE,
                        !.next = IF settings[s].gate = "vote_and_time" /\ TimeDue(s) > now
                                 THEN TimeDue(s) ELSE now]]
    /\ UNCHANGED <<payVars, now, settings, reached, requests, round, result, published>>

Due(t) == {s \in Slots : pending[s] # NoEntry /\ ~pending[s].done /\ pending[s].next <= t}

\* pruneDone: the dedup marker of a slot goes two slots after it.
Prunable(s, t) ==
    pending[s] # NoEntry /\ pending[s].done /\ t > SlotStart(s) + 2 * TicksPerSlot

\* Mutant of PruneDone: markers go at the deadline, where requests still pass.
PruneDoneAtDeadline(p, t) ==
    [s \in Slots |->
        IF p[s] # NoEntry /\ p[s].done /\ t >= Deadline(s) THEN NoEntry ELSE p[s]]

PruneDone(p, t) ==
    [s \in Slots |->
        IF p[s] # NoEntry /\ p[s].done /\ t > SlotStart(s) + 2 * TicksPerSlot
        THEN NoEntry ELSE p[s]]

\* The timer: processDue starts with the time it fires at; with nothing due
\* (the idle timer) it only prunes.
TimerFires ==
    /\ LoopIdle
    /\ IF Due(now) # {}
       THEN round' = [at |-> now, left |-> Due(now)] /\ UNCHANGED pending
       ELSE /\ \E s \in Slots : Prunable(s, now)
            /\ pending' = PruneDone(pending, now) /\ UNCHANGED round
    /\ UNCHANGED <<payVars, now, settings, reached, requests, result, published>>

\* Entry s of the round is visited and becomes e; the last visit is followed by
\* pruneDone.
Visit(s, e) ==
    LET p == [pending EXCEPT ![s] = e]
        left == round.left \ {s}
    IN  /\ s \in round.left
        /\ pending' = IF left = {} THEN PruneDone(p, round.at) ELSE p
        /\ round' = IF left = {} THEN Idle ELSE [at |-> round.at, left |-> left]
        /\ UNCHANGED <<now, settings, reached, requests>>

Open(s) == GateSatisfied(s, pending[s].voteMet, round.at)

\* Mutant of GateClosed: the entry is parked again at its expiry.
GateClosedParks(s) ==
    /\ s \in round.left /\ ~Open(s)
    /\ Visit(s, [pending[s] EXCEPT !.next = Expiry(s)])
    /\ UNCHANGED <<payVars, published, result>>

\* The gate is closed: wait for the expiry, or give up.
GateClosed(s) ==
    /\ s \in round.left /\ ~Open(s)
    /\ IF round.at < Expiry(s)
       THEN Visit(s, [pending[s] EXCEPT !.next = Expiry(s)]) /\ UNCHANGED result
       ELSE /\ Visit(s, [pending[s] EXCEPT !.done = TRUE])
            /\ result' = [result EXCEPT ![s] = "timeout"]
    /\ UNCHANGED <<payVars, published>>

\* The envelope is built and published.
PublishSucceeds(s) ==
    /\ s \in round.left /\ Open(s)
    /\ Visit(s, [pending[s] EXCEPT !.attempts = @ + 1, !.done = TRUE])
    /\ published' = [published EXCEPT ![s] = @ + 1]
    /\ MarkRevealed(s)
    /\ result' = [result EXCEPT ![s] = "revealed"]

\* Building or publishing fails: handlePublishFailure.
PublishFails(s) ==
    /\ s \in round.left /\ Open(s)
    /\ IF pending[s].attempts + 1 >= MaxAttempts
       THEN /\ Visit(s, [pending[s] EXCEPT !.attempts = @ + 1, !.done = TRUE])
            /\ result' = [result EXCEPT ![s] = "failed"]
       ELSE /\ Visit(s, [pending[s] EXCEPT !.attempts = @ + 1, !.next = Capped(round.at + RetryTicks)])
            /\ result' = [result EXCEPT ![s] = "retrying"]
    /\ UNCHANGED <<payVars, published>>

-----------------------------------------------------------------------------
(* Surroundings.                                                           *)

Tick ==
    /\ now < MaxTime
    /\ now' = now + 1
    /\ UNCHANGED <<payVars, settings, reached, requests, pending, round, result, published>>

\* Attestations for block r of slot s reach the threshold, which only a slot with
\* a vote gate has.
VotesArrive(s, r) ==
    /\ VoteGated(s)
    /\ SlotStart(s) <= now /\ <<s, r>> \notin reached
    /\ reached' = reached \cup {<<s, r>>}
    /\ UNCHANGED <<payVars, now, settings, requests, pending, round, result, published>>

\* The tracker's loop handles the epoch event of epoch e, which has begun.
EpochEvent(e) ==
    /\ e * SlotsPerEpoch * TicksPerSlot <= now
    /\ NewEpoch(e)
    /\ UNCHANGED revealVars

LoopStep ==
    \/ Schedule
    \/ TimerFires
    \/ \E s \in Slots : GateClosed(s) \/ PublishSucceeds(s) \/ PublishFails(s)

Environment ==
    \/ Tick
    \/ \E s \in Slots, r \in Roots :
         \/ ApiSubmits(s, r)
         \/ VotesArrive(s, r)
         \/ \E met \in BOOLEAN : HandleVoteUpdate(s, r, met)
    \/ \E e \in 1 .. MaxTime : EpochEvent(e)

Next ==
    \/ LoopStep
    \/ Environment
    \/ \E s \in Slots, r \in Roots : HeadIncludes(s, r)

Spec == Init /\ [][Next]_vars

\* Time passes and the run loop runs: its timer is armed to the earliest pending
\* attempt, and building and publishing have deadlines.
Fairness == WF_vars(Tick) /\ WF_vars(LoopStep)

FairSpec == Spec /\ Fairness

-----------------------------------------------------------------------------
(* Properties.                                                             *)

\* The gate of slot s as the chain has it, for the block its entry is about.
TrulyOpen(s) == GateSatisfied(s, <<s, pending[s].root>> \in reached, now)

\* An envelope leaves only through an open gate: votes for another block, stale
\* updates and the shortcut for states that already published open none.
GateHonest ==
    [][\A s \in Slots : published'[s] > published[s] => TrulyOpen(s)]_vars

\* A slot is revealed at most once, and never when suppressed, however often and
\* through whichever flow it is requested, and although dedup markers are pruned:
\* by then the deadline keeps a new request out.
RevealedOnce ==
    \A s \in Slots :
        /\ settings[s].mode = "suppressed" => published[s] = 0
        /\ settings[s].mode = "deadline" => published[s] <= 1

\* A payload is withheld at the expiry only while its gate needs votes and this
\* service has seen none: no entry is parked past a gate that opened.
TimeoutJustified ==
    \A s \in Slots :
        pending[s] # NoEntry /\ pending[s].done /\ result[s] = "timeout" =>
            settings[s].gate \in {"vote", "vote_and_time"} /\ ~pending[s].voteMet

\* Every scheduled reveal ends: revealed, failed for good, or given up.
EveryRevealEnds ==
    \A s \in Slots :
        pending[s] # NoEntry ~> (pending[s] = NoEntry \/ pending[s].done)

-----------------------------------------------------------------------------
(* The inductive invariant behind GateHonest and RevealedOnce.             *)

\* A marker outlives every moment at which a request could still be scheduled.
MarkerHolds(s) ==
    /\ settings[s].mode = "suppressed" =>
           published[s] = 0 /\ (pending[s] # NoEntry => pending[s].done)
    /\ settings[s].mode = "deadline" =>
           /\ published[s] <= 1
           /\ published[s] = 1 =>
                  IF pending[s] # NoEntry THEN pending[s].done ELSE now > Deadline(s)

\* A vote gate that counts as open is open, or the time gate beside it is; and
\* an entry that has been tried without votes was let through by time.
VotesHonest(s) ==
    pending[s] # NoEntry /\ ~pending[s].done =>
        /\ pending[s].voteMet =>
               \/ <<s, pending[s].root>> \in reached
               \/ settings[s].gate = "vote_or_time" /\ now >= TimeDue(s)
        /\ pending[s].attempts > 0 /\ ~pending[s].voteMet =>
               settings[s].gate \in {"time", "vote_or_time"} /\ now >= TimeDue(s)

RevealInv ==
    /\ round.at <= now
    /\ \A s \in Slots : MarkerHolds(s) /\ VotesHonest(s)

=============================================================================
