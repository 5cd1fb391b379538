---------------------------- MODULE RevealProofs ----------------------------
(***************************************************************************)
(* For every set of slots, blocks and settings, and every clock: the types *)
(* of the reveal service, that an envelope leaves only through an open     *)
(* gate, and that a slot under a deadline is revealed at most once.        *)
(*                                                                         *)
(* For every number of requests and every plan, the Builder API that feeds *)
(* it: a reveal is requested only of a block that was broadcast, and the   *)
(* index recorded with a bid names that bid and no other.  The argument is *)
(* of names: whatever the buffer, the writer, the table, the handlers and  *)
(* the records hold under a key is the same bid, and the next index of a   *)
(* slot is past every index that is still held.                            *)
(***************************************************************************)
EXTENDS RevealService, BuilderApi, FiniteSetTheorems, SequenceTheorems, WellFoundedInduction, TLAPS

\* The times of a slot are natural numbers.
LEMMA TimesType ==
  ASSUME RevealTypeOK, NEW s \in Slots
  PROVE  /\ SlotStart(s) \in Nat
         /\ Deadline(s) = SlotStart(s) + TicksPerSlot
         /\ TicksPerSlot \in Nat \ {0}
         /\ TimeDue(s) \in Nat
         /\ Expiry(s) \in Nat
<1>1. s \in Nat /\ TicksPerSlot \in Nat \ {0}
  BY PaymentAssumption, RevealAssumption
<1>2. SlotStart(s) \in Nat
  BY <1>1 DEF SlotStart
<1>3. settings[s].at \in Nat
  BY DEF RevealTypeOK, SettingsType
<1> QED
  BY <1>1, <1>2, <1>3 DEF Deadline, TimeDue, Expiry

\* The first attempt is a time.
LEMMA FirstAttemptType ==
  ASSUME RevealTypeOK, NEW s \in Slots, NEW v \in BOOLEAN
  PROVE  FirstAttempt(s, v) \in Nat
<1>1. now \in Nat
  BY DEF RevealTypeOK
<1> QED
  BY <1>1, TimesType DEF FirstAttempt

\* Pruning keeps entries or removes them.
LEMMA PruneType ==
  ASSUME NEW p \in [Slots -> Entry \cup {NoEntry}], NEW t
  PROVE  /\ PruneDone(p, t) \in [Slots -> Entry \cup {NoEntry}]
         /\ \A s \in Slots : PruneDone(p, t)[s] \in {p[s], NoEntry}
         /\ \A s \in Slots : p[s] # NoEntry /\ ~p[s].done => PruneDone(p, t)[s] = p[s]
  BY DEF PruneDone

\* What an attempt makes of an entry is an entry.
LEMMA AttemptType ==
  ASSUME NEW e \in Entry, NEW n \in Nat
  PROVE  /\ e.attempts + 1 \in Nat
         /\ [e EXCEPT !.attempts = @ + 1, !.done = TRUE] \in Entry
         /\ [e EXCEPT !.attempts = @ + 1, !.next = n] \in Entry
<1>1. e.attempts + 1 \in Nat
  BY DEF Entry
<1>2. \A k \in Nat : [e EXCEPT !.attempts = k, !.done = TRUE] \in Entry
  BY DEF Entry
<1>3. \A k \in Nat : [e EXCEPT !.attempts = k, !.next = n] \in Entry
  BY DEF Entry
<1> QED
  BY <1>1, <1>2, <1>3

\* What RequestReveal and RecordWonBid leave behind has its type.
LEMMA RequestType ==
  ASSUME RevealTypeOK, NEW s \in Slots, NEW r \in Roots, RequestReveal(s, r)
  PROVE  /\ requests' \in Seq([slot : Slots, root : Roots])
         /\ Len(requests') <= QueueSize
<1>1. requests \in Seq([slot : Slots, root : Roots]) /\ Len(requests) <= QueueSize
  BY DEF RevealTypeOK
<1>2. QueueSize \in Nat
  BY RevealAssumption
<1>3. CASE Len(requests) < QueueSize
  <2>1. requests' = Append(requests, [slot |-> s, root |-> r])
    BY <1>3 DEF RequestReveal
  <2>2. [slot |-> s, root |-> r] \in [slot : Slots, root : Roots]
    OBVIOUS
  <2>3. Len(requests') = Len(requests) + 1 /\ requests' \in Seq([slot : Slots, root : Roots])
    BY <1>1, <2>1, <2>2
  <2> QED
    BY <1>1, <1>2, <1>3, <2>3
<1>4. CASE ~(Len(requests) < QueueSize)
  BY <1>1, <1>4 DEF RequestReveal
<1> QED
  BY <1>3, <1>4

\* A visit of an entry of the round keeps the types, if the entry does.
LEMMA VisitType ==
  ASSUME RevealTypeOK, NEW s \in Slots, NEW e \in Entry, Visit(s, e)
  PROVE  /\ pending' \in [Slots -> Entry \cup {NoEntry}]
         /\ round' \in [at : Nat, left : SUBSET Slots]
         /\ \A x \in round'.left : pending'[x] # NoEntry /\ ~pending'[x].done
<1> DEFINE p == [pending EXCEPT ![s] = e]
           left == round.left \ {s}
<1>1. p \in [Slots -> Entry \cup {NoEntry}]
  BY DEF RevealTypeOK
<1>2. round.left \subseteq Slots /\ round.at \in Nat
  BY DEF RevealTypeOK
<1>3. CASE left = {}
  <2>1. pending' = PruneDone(p, round.at) /\ round' = Idle
    BY <1>3 DEF Visit
  <2> QED
    BY <1>1, <2>1, PruneType DEF Idle
<1>4. CASE left # {}
  <2>1. pending' = p /\ round' = [at |-> round.at, left |-> left]
    BY <1>4 DEF Visit
  <2>3. \A x \in left : p[x] = pending[x]
    BY <1>2 DEF RevealTypeOK
  <2>4. \A x \in left : pending[x] # NoEntry /\ ~pending[x].done
    BY DEF RevealTypeOK
  <2> HIDE DEF p, left
  <2>5. left \subseteq Slots
    BY <1>2 DEF left
  <2> QED
    BY <1>1, <1>2, <2>1, <2>3, <2>4, <2>5
<1> QED
  BY <1>3, <1>4

\* The types are inductive.
LEMMA RevealTypeStep == RevealTypeOK /\ [Next]_vars => RevealTypeOK'
<1> SUFFICES ASSUME RevealTypeOK, [Next]_vars PROVE RevealTypeOK'
  OBVIOUS
<1>1. CASE UNCHANGED vars
  BY <1>1 DEF RevealTypeOK, PaymentsTypeOK, vars, payVars, revealVars
<1>2. ASSUME NEW s \in Slots, NEW r \in Roots, HeadIncludes(s, r)
      PROVE  RevealTypeOK'
  <2>1. RequestReveal(s, r) /\ RecordWonBid(s)
    BY <1>2 DEF HeadIncludes
  <2>2. PaymentsTypeOK'
    BY <2>1 DEF RecordWonBid, PaymentsTypeOK, RevealTypeOK
  <2> QED
    BY <1>2, <2>1, <2>2, RequestType DEF HeadIncludes, RevealTypeOK
<1>3. ASSUME NEW s \in Slots, NEW r \in Roots, ApiSubmits(s, r)
      PROVE  RevealTypeOK'
  <2>1. RequestReveal(s, r)
    BY <1>3 DEF ApiSubmits
  <2>2. PaymentsTypeOK'
    BY <1>3 DEF ApiSubmits, payVars, PaymentsTypeOK, RevealTypeOK
  <2> QED
    BY <1>3, <2>1, <2>2, RequestType DEF ApiSubmits, RevealTypeOK
<1>4. CASE Schedule
  <2> DEFINE s == Head(requests).slot
             r == Head(requests).root
             met == VoteGated(s) /\ <<s, r>> \in reached
             e == [root |-> r, attempts |-> 0, voteMet |-> met,
                   next |-> FirstAttempt(s, met), done |-> FALSE]
             d == Finished(r)
  <2>1. requests \in Seq([slot : Slots, root : Roots]) /\ requests # <<>>
    BY <1>4 DEF Schedule, RevealTypeOK
  <2>2. Head(requests) \in [slot : Slots, root : Roots]
    BY <2>1, HeadTailProperties
  <2>3. s \in Slots /\ r \in Roots /\ met \in BOOLEAN
    BY <2>2
  <2>4. e \in Entry /\ d \in Entry
    BY <2>3, FirstAttemptType DEF Entry, Finished
  <2>5. /\ requests' = Tail(requests)
        /\ \/ UNCHANGED <<pending, result>>
           \/ pending' = [pending EXCEPT ![s] = d] /\ result' = [result EXCEPT ![s] = "suppressed"]
           \/ pending' = [pending EXCEPT ![s] = d] /\ result' = [result EXCEPT ![s] = "late"]
           \/ pending' = [pending EXCEPT ![s] = e] /\ UNCHANGED result
        /\ round.left = {}
        /\ UNCHANGED <<payVars, now, settings, reached, round, published>>
    BY <1>4 DEF Schedule, LoopIdle
  <2> HIDE DEF s, r, met, e, d
  <2>6. requests' \in Seq([slot : Slots, root : Roots]) /\ Len(requests') <= QueueSize
    <3>1. Len(requests) \in Nat /\ Len(requests) <= QueueSize /\ QueueSize \in Nat
      BY <2>1, RevealAssumption DEF RevealTypeOK
    <3>2. Len(Tail(requests)) = Len(requests) - 1 /\ Tail(requests) \in Seq([slot : Slots, root : Roots])
      BY <2>1
    <3> QED
      BY <2>5, <3>1, <3>2
  <2>7. pending' \in [Slots -> Entry \cup {NoEntry}] /\ result' \in [Slots -> Results]
    <3>1. pending \in [Slots -> Entry \cup {NoEntry}] /\ result \in [Slots -> Results]
      BY DEF RevealTypeOK
    <3>2. "suppressed" \in Results /\ "late" \in Results
      BY DEF Results
    <3>3. pending' \in [Slots -> Entry \cup {NoEntry}]
      BY <2>3, <2>4, <2>5, <3>1
    <3>4. result' \in [Slots -> Results]
      BY <2>3, <2>5, <3>1, <3>2
    <3> QED
      BY <3>3, <3>4
  <2>8. PaymentsTypeOK'
    BY <2>5 DEF payVars, PaymentsTypeOK, RevealTypeOK
  <2> QED
    BY <2>5, <2>6, <2>7, <2>8 DEF RevealTypeOK
<1>5. ASSUME NEW s \in Slots, NEW r \in Roots, NEW met \in BOOLEAN, HandleVoteUpdate(s, r, met)
      PROVE  RevealTypeOK'
  <2>1. pending[s] \in Entry /\ round.left = {}
    BY <1>5 DEF HandleVoteUpdate, RevealTypeOK, LoopIdle
  <2>2. now \in Nat /\ TimeDue(s) \in Nat
    BY TimesType DEF RevealTypeOK
  <2>3. PICK e \in Entry : pending' = [pending EXCEPT ![s] = e]
    <3>1. \A n \in Nat : [pending[s] EXCEPT !.voteMet = TRUE, !.next = n] \in Entry
      BY <2>1 DEF Entry
    <3>2. [pending[s] EXCEPT !.voteMet = TRUE] \in Entry
      BY <2>1 DEF Entry
    <3>3. CASE pending[s].attempts > 0
      BY <1>5, <3>2, <3>3 DEF HandleVoteUpdate, RevealTypeOK
    <3>4. CASE ~(pending[s].attempts > 0)
      BY <1>5, <2>2, <3>1, <3>4 DEF HandleVoteUpdate, RevealTypeOK
    <3> QED
      BY <3>3, <3>4
  <2>4. PaymentsTypeOK'
    BY <1>5 DEF HandleVoteUpdate, payVars, PaymentsTypeOK, RevealTypeOK
  <2> QED
    BY <1>5, <2>1, <2>3, <2>4 DEF HandleVoteUpdate, RevealTypeOK
<1>6. CASE TimerFires
  <2>1. PaymentsTypeOK'
    BY <1>6 DEF TimerFires, payVars, PaymentsTypeOK, RevealTypeOK
  <2>2. CASE Due(now) # {}
    <3>1. Due(now) \subseteq Slots /\ \A s \in Due(now) : pending[s] # NoEntry /\ ~pending[s].done
      BY DEF Due
    <3>2. round' = [at |-> now, left |-> Due(now)] /\ UNCHANGED pending
      BY <1>6, <2>2 DEF TimerFires
    <3> QED
      BY <1>6, <2>1, <3>1, <3>2 DEF TimerFires, RevealTypeOK
  <2>3. CASE Due(now) = {}
    <3>1. pending' = PruneDone(pending, now) /\ UNCHANGED round /\ round.left = {}
      BY <1>6, <2>3 DEF TimerFires, LoopIdle
    <3>2. pending' \in [Slots -> Entry \cup {NoEntry}]
      BY <3>1, PruneType DEF RevealTypeOK
    <3> QED
      BY <1>6, <2>1, <3>1, <3>2 DEF TimerFires, RevealTypeOK
  <2> QED
    BY <2>2, <2>3
<1>7. ASSUME NEW s \in Slots, GateClosed(s)
      PROVE  RevealTypeOK'
  <2>1. pending[s] \in Entry /\ Expiry(s) \in Nat
    BY <1>7, TimesType DEF GateClosed, RevealTypeOK
  <2>2. PICK e \in Entry : Visit(s, e)
    BY <1>7, <2>1 DEF GateClosed, Entry
  <2>3. result' \in [Slots -> Results]
    BY <1>7 DEF GateClosed, RevealTypeOK, Results
  <2>4. PaymentsTypeOK'
    BY <1>7 DEF GateClosed, payVars, PaymentsTypeOK, RevealTypeOK
  <2> QED
    BY <1>7, <2>2, <2>3, <2>4, VisitType DEF GateClosed, Visit, RevealTypeOK
<1>8. ASSUME NEW s \in Slots, PublishSucceeds(s)
      PROVE  RevealTypeOK'
  <2>1. pending[s] \in Entry
    BY <1>8 DEF PublishSucceeds, RevealTypeOK
  <2>2. PICK e \in Entry : Visit(s, e)
    <3>1. [pending[s] EXCEPT !.attempts = @ + 1, !.done = TRUE] \in Entry
      BY <2>1, AttemptType
    <3> QED
      BY <1>8, <3>1 DEF PublishSucceeds
  <2>3. result' \in [Slots -> Results] /\ published' \in [Slots -> Nat]
    BY <1>8 DEF PublishSucceeds, RevealTypeOK, Results
  <2>4. PaymentsTypeOK'
    <3>1. BidValue[s] \in Nat /\ EpochOf(s) \in Nat
      BY PaymentAssumption DEF EpochOf
    <3> QED
      BY <1>8, <3>1 DEF PublishSucceeds, MarkRevealed, Anchored, payVars, PaymentsTypeOK, RevealTypeOK
  <2> QED
    BY <1>8, <2>2, <2>3, <2>4, VisitType DEF Visit, RevealTypeOK
<1>9. ASSUME NEW s \in Slots, PublishFails(s)
      PROVE  RevealTypeOK'
  <2>1. pending[s] \in Entry
    BY <1>9 DEF PublishFails, RevealTypeOK
  <2>2. Capped(round.at + RetryTicks) \in Nat
    BY RevealAssumption DEF Capped, RevealTypeOK
  <2>3. PICK e \in Entry : Visit(s, e)
    <3>1. /\ [pending[s] EXCEPT !.attempts = @ + 1, !.done = TRUE] \in Entry
          /\ [pending[s] EXCEPT !.attempts = @ + 1,
                                !.next = Capped(round.at + RetryTicks)] \in Entry
      BY <2>1, <2>2, AttemptType
    <3> QED
      BY <1>9, <3>1 DEF PublishFails
  <2>4. result' \in [Slots -> Results]
    BY <1>9 DEF PublishFails, RevealTypeOK, Results
  <2>5. PaymentsTypeOK'
    BY <1>9 DEF PublishFails, payVars, PaymentsTypeOK, RevealTypeOK
  <2> QED
    BY <1>9, <2>3, <2>4, <2>5, VisitType DEF PublishFails, Visit, RevealTypeOK
<1>10. CASE Tick
  BY <1>10 DEF Tick, RevealTypeOK, PaymentsTypeOK, payVars
<1>11. ASSUME NEW s \in Slots, NEW r \in Roots, VotesArrive(s, r)
       PROVE  RevealTypeOK'
  BY <1>11 DEF VotesArrive, RevealTypeOK, PaymentsTypeOK, payVars
<1>12. ASSUME NEW e \in 1 .. MaxTime, EpochEvent(e)
       PROVE  RevealTypeOK'
  <2>1. e \in Nat
    BY RevealAssumption
  <2>2. PaymentsTypeOK'
    BY <1>12, <2>1 DEF EpochEvent, NewEpoch, Anchored, PaymentsTypeOK, RevealTypeOK
  <2> QED
    BY <1>12, <2>2 DEF EpochEvent, RevealTypeOK, revealVars
<1> QED
  BY <1>1, <1>2, <1>3, <1>4, <1>5, <1>6, <1>7, <1>8, <1>9, <1>10, <1>11, <1>12
     DEF Next, LoopStep, Environment

\* The types hold in every reachable state.
THEOREM RevealTypeCorrect == Spec => []RevealTypeOK
<1>1. Init => RevealTypeOK
  <2> SUFFICES ASSUME Init PROVE RevealTypeOK
    OBVIOUS
  <2>1. requests \in Seq([slot : Slots, root : Roots]) /\ Len(requests) <= QueueSize
    BY RevealAssumption DEF Init
  <2>2. settings \in [Slots -> SettingsType]
    <3>1. \A s \in Slots : Settings[s] \subseteq SettingsType
      BY RevealAssumption
    <3>2. settings \in [Slots -> UNION {Settings[s] : s \in Slots}]
      BY DEF Init
    <3>3. \A s \in Slots : settings[s] \in Settings[s]
      BY DEF Init
    <3> QED
      BY <3>1, <3>2, <3>3
  <2>3. PaymentsTypeOK
    BY DEF Init, PaymentsInit, PaymentsTypeOK
  <2> QED
    BY <2>1, <2>2, <2>3 DEF Init, RevealTypeOK, Idle, Results
<1> QED
  BY <1>1, RevealTypeStep, PTL DEF Spec

-----------------------------------------------------------------------------
\* What is known of a slot survives a step that leaves its entry alone or prunes
\* it, that publishes nothing for it, and that only adds votes and time.
LEMMA SlotKept ==
  ASSUME RevealTypeOK, RevealTypeOK', NEW s \in Slots,
         MarkerHolds(s), VotesHonest(s),
         UNCHANGED settings, published'[s] = published[s],
         reached \subseteq reached', now <= now',
         \/ pending'[s] = pending[s]
         \/ pending'[s] = NoEntry /\ pending[s] # NoEntry /\ pending[s].done /\ now > Deadline(s)
  PROVE  MarkerHolds(s)' /\ VotesHonest(s)'
<1>1. Deadline(s)' = Deadline(s) /\ TimeDue(s)' = TimeDue(s)
  BY DEF Deadline, TimeDue, SlotStart
<1>2. Deadline(s) \in Nat /\ TimeDue(s) \in Nat /\ now \in Nat /\ now' \in Nat
  BY TimesType DEF RevealTypeOK
<1>3. MarkerHolds(s)'
  BY <1>1, <1>2 DEF MarkerHolds
<1>4. VotesHonest(s)'
  BY <1>1, <1>2 DEF VotesHonest
<1> QED
  BY <1>3, <1>4

\* A slot whose marker is pruned is past its deadline.
LEMMA PrunedIsLate ==
  ASSUME RevealTypeOK, NEW s \in Slots, NEW t \in Nat, t <= now,
         NEW p \in [Slots -> Entry \cup {NoEntry}]
  PROVE  \/ PruneDone(p, t)[s] = p[s]
         \/ PruneDone(p, t)[s] = NoEntry /\ p[s] # NoEntry /\ p[s].done /\ now > Deadline(s)
<1>1. /\ SlotStart(s) \in Nat /\ TicksPerSlot \in Nat \ {0} /\ now \in Nat
      /\ Deadline(s) = SlotStart(s) + TicksPerSlot
  BY TimesType DEF RevealTypeOK
<1>2. t > SlotStart(s) + 2 * TicksPerSlot => now > Deadline(s)
  BY <1>1
<1> QED
  BY <1>2 DEF PruneDone

\* A visit touches its own slot and prunes others.
LEMMA VisitKeeps ==
  ASSUME RevealTypeOK, RevealInv, NEW s \in Slots, NEW e \in Entry, Visit(s, e),
         NEW x \in Slots
  PROVE  /\ x # s => \/ pending'[x] = pending[x]
                     \/ /\ pending'[x] = NoEntry /\ pending[x] # NoEntry
                        /\ pending[x].done /\ now > Deadline(x)
         /\ x = s => \/ pending'[x] = e
                     \/ pending'[x] = NoEntry /\ e.done /\ now > Deadline(x)
<1> DEFINE p == [pending EXCEPT ![s] = e]
<1>1. p \in [Slots -> Entry \cup {NoEntry}]
  BY DEF RevealTypeOK
<1>2. p[s] = e /\ (x # s => p[x] = pending[x])
  BY DEF RevealTypeOK
<1>3. round.at \in Nat /\ round.at <= now
  BY DEF RevealTypeOK, RevealInv
<1>4. \/ pending' = p
      \/ pending' = PruneDone(p, round.at)
  BY DEF Visit
<1> HIDE DEF p
<1> QED
  BY <1>1, <1>2, <1>3, <1>4, PrunedIsLate

\* Nothing but a visit of its own slot changes what is known of a slot, and a
\* visit leaves the time of the round at most now.
LEMMA VisitKeepsInv ==
  ASSUME RevealTypeOK, RevealTypeOK', RevealInv, NEW s \in Slots, NEW e \in Entry,
         Visit(s, e), \A x \in Slots \ {s} : published'[x] = published[x],
         MarkerHolds(s)' /\ VotesHonest(s)'
  PROVE  RevealInv'
<1>1. round'.at <= now' /\ UNCHANGED <<now, settings, reached>>
  BY DEF Visit, Idle, RevealInv, RevealTypeOK
<1>2. ASSUME NEW x \in Slots, x # s
      PROVE  MarkerHolds(x)' /\ VotesHonest(x)'
  <2>1. \/ pending'[x] = pending[x]
        \/ pending'[x] = NoEntry /\ pending[x] # NoEntry /\ pending[x].done /\ now > Deadline(x)
    BY <1>2, VisitKeeps
  <2>2. MarkerHolds(x) /\ VotesHonest(x) /\ now <= now'
    BY <1>1 DEF RevealInv, RevealTypeOK
  <2> QED
    BY <1>1, <1>2, <2>1, <2>2, SlotKept
<1> QED
  BY <1>1, <1>2 DEF RevealInv

\* A step that touches no entry and publishes nothing.
LEMMA QuietKeepsInv ==
  ASSUME RevealTypeOK, RevealTypeOK', RevealInv,
         UNCHANGED <<settings, pending, round, published>>,
         reached \subseteq reached', now <= now'
  PROVE  RevealInv'
<1>1. round'.at <= now'
  BY DEF RevealInv, RevealTypeOK
<1>2. ASSUME NEW s \in Slots PROVE MarkerHolds(s)' /\ VotesHonest(s)'
  <2>1. MarkerHolds(s) /\ VotesHonest(s)
    BY DEF RevealInv
  <2> QED
    BY <2>1, SlotKept
<1> QED
  BY <1>1, <1>2 DEF RevealInv

\* A new entry, or one whose vote gate opens: one slot changes, nothing is
\* published.
LEMMA EntryKeepsInv ==
  ASSUME RevealTypeOK, RevealTypeOK', RevealInv, NEW s \in Slots, NEW e \in Entry,
         pending' = [pending EXCEPT ![s] = e],
         UNCHANGED <<now, settings, reached, round, published>>,
         MarkerHolds(s)' /\ VotesHonest(s)'
  PROVE  RevealInv'
<1>1. ASSUME NEW x \in Slots, x # s PROVE MarkerHolds(x)' /\ VotesHonest(x)'
  <2>1. pending'[x] = pending[x]
    BY <1>1 DEF RevealTypeOK
  <2>2. MarkerHolds(x) /\ VotesHonest(x) /\ now <= now'
    BY DEF RevealInv, RevealTypeOK
  <2> QED
    BY <2>1, <2>2, SlotKept
<1> QED
  BY <1>1 DEF RevealInv

\* schedule keeps the invariant: a slot that was revealed under a deadline is
\* marked, or too late to be scheduled.
LEMMA ScheduleKeepsInv ==
  ASSUME RevealTypeOK, RevealTypeOK', RevealInv, Schedule
  PROVE  RevealInv'
<1>1. requests \in Seq([slot : Slots, root : Roots]) /\ requests # <<>>
  BY DEF Schedule, RevealTypeOK
<1>2. Head(requests) \in [slot : Slots, root : Roots]
  BY <1>1, HeadTailProperties
<1>3. PICK s \in Slots, r \in Roots : s = Head(requests).slot /\ r = Head(requests).root
  BY <1>2
<1>4. PICK met \in BOOLEAN : met = (VoteGated(s) /\ <<s, r>> \in reached)
  OBVIOUS
<1>5. PICK n \in Nat : n = FirstAttempt(s, met)
  BY FirstAttemptType
<1> DEFINE e == [root |-> r, attempts |-> 0, voteMet |-> met, next |-> n, done |-> FALSE]
<1>6. e \in Entry /\ Finished(r) \in Entry /\ Finished(r).done
  BY DEF Entry, Finished
<1>7. e.root = r /\ e.attempts = 0 /\ e.voteMet = met /\ e.done = FALSE
  OBVIOUS
<1>8. UNCHANGED <<now, settings, reached, round, published>>
  BY DEF Schedule
<1>9. \/ UNCHANGED pending
      \/ /\ pending' = [pending EXCEPT ![s] = Finished(r)]
         /\ pending[s] = NoEntry
         /\ settings[s].mode = "deadline" => now > Deadline(s)
      \/ /\ pending' = [pending EXCEPT ![s] = e]
         /\ pending[s] = NoEntry
         /\ settings[s].mode # "suppressed"
         /\ settings[s].mode = "deadline" => ~(now > Deadline(s))
  <2>1. CASE pending[s] # NoEntry
    BY <1>3, <2>1 DEF Schedule
  <2>2. CASE pending[s] = NoEntry /\ settings[s].mode = "suppressed"
    BY <1>3, <2>2 DEF Schedule
  <2>3. CASE pending[s] = NoEntry /\ settings[s].mode = "deadline" /\ now > Deadline(s)
    BY <1>3, <2>3 DEF Schedule
  <2>4. CASE /\ pending[s] = NoEntry /\ settings[s].mode # "suppressed"
             /\ ~(settings[s].mode = "deadline" /\ now > Deadline(s))
    BY <1>3, <1>4, <1>5, <2>4 DEF Schedule
  <2> QED
    BY <2>1, <2>2, <2>3, <2>4
<1>10. MarkerHolds(s) /\ Deadline(s)' = Deadline(s) /\ TimeDue(s)' = TimeDue(s)
  BY <1>8 DEF RevealInv, Deadline, TimeDue, SlotStart
<1>11. now \in Nat /\ published[s] \in Nat /\ NoEntry \notin Entry
  BY RevealAssumption DEF RevealTypeOK
<1>12. met => <<s, r>> \in reached
  BY <1>4
<1> HIDE DEF e
<1>13. CASE UNCHANGED pending
  BY <1>8, <1>11, <1>13, QuietKeepsInv
<1>14. CASE /\ pending' = [pending EXCEPT ![s] = Finished(r)]
            /\ pending[s] = NoEntry
            /\ settings[s].mode = "deadline" => now > Deadline(s)
  <2>1. pending'[s] = Finished(r)
    BY <1>14 DEF RevealTypeOK
  <2>2. MarkerHolds(s)'
    BY <1>6, <1>8, <1>10, <1>14, <2>1 DEF MarkerHolds
  <2>3. VotesHonest(s)'
    BY <1>6, <2>1 DEF VotesHonest
  <2> QED
    BY <1>6, <1>8, <1>14, <2>2, <2>3, EntryKeepsInv
<1>15. CASE /\ pending' = [pending EXCEPT ![s] = e]
            /\ pending[s] = NoEntry
            /\ settings[s].mode # "suppressed"
            /\ settings[s].mode = "deadline" => ~(now > Deadline(s))
  <2>1. pending'[s] = e
    BY <1>15 DEF RevealTypeOK
  <2>2. settings[s].mode = "deadline" => published[s] = 0
    BY <1>10, <1>11, <1>15 DEF MarkerHolds
  <2>3. MarkerHolds(s)'
    BY <1>8, <1>11, <1>15, <2>2 DEF MarkerHolds
  <2>4. VotesHonest(s)'
    BY <1>7, <1>8, <1>12, <2>1 DEF VotesHonest
  <2> QED
    BY <1>6, <1>8, <1>15, <2>3, <2>4, EntryKeepsInv
<1> QED
  BY <1>9, <1>13, <1>14, <1>15

\* handleVoteUpdate keeps the invariant: the shortcut for entries that were tried
\* before opens no gate that time has not opened.
LEMMA VoteKeepsInv ==
  ASSUME RevealTypeOK, RevealTypeOK', RevealInv, NEW s \in Slots, NEW r \in Roots,
         NEW met \in BOOLEAN, HandleVoteUpdate(s, r, met)
  PROVE  RevealInv'
<1>1. pending[s] \in Entry /\ ~pending[s].done /\ ~pending[s].voteMet /\ VoteGated(s)
  BY DEF HandleVoteUpdate, RevealTypeOK
<1>2. PICK n \in Nat : pending' = [pending EXCEPT ![s] =
                                     [pending[s] EXCEPT !.voteMet = TRUE, !.next = n]]
  <2>1. [pending[s] EXCEPT !.voteMet = TRUE]
          = [pending[s] EXCEPT !.voteMet = TRUE, !.next = pending[s].next]
    BY <1>1 DEF Entry
  <2>2. pending[s].next \in Nat /\ now \in Nat /\ TimeDue(s) \in Nat
    BY <1>1, TimesType DEF Entry, RevealTypeOK
  <2>3. CASE pending[s].attempts > 0
    BY <2>1, <2>2, <2>3 DEF HandleVoteUpdate
  <2>4. CASE ~(pending[s].attempts > 0)
    BY <2>2, <2>4 DEF HandleVoteUpdate
  <2> QED
    BY <2>3, <2>4
<1> DEFINE e == [pending[s] EXCEPT !.voteMet = TRUE, !.next = n]
<1>3. /\ e \in Entry /\ e.root = pending[s].root /\ e.attempts = pending[s].attempts
      /\ e.voteMet /\ ~e.done
  BY <1>1, <1>2 DEF Entry
<1>4. UNCHANGED <<now, settings, reached, round, published>>
  BY DEF HandleVoteUpdate
<1>5. pending'[s] = e
  BY <1>2 DEF RevealTypeOK
<1>6. \/ <<s, pending[s].root>> \in reached
      \/ settings[s].gate = "vote_or_time" /\ now >= TimeDue(s)
  <2>1. CASE pending[s].attempts > 0
    <3>1. VotesHonest(s)
      BY DEF RevealInv
    <3>2. NoEntry # pending[s]
      BY DEF HandleVoteUpdate
    <3> QED
      BY <1>1, <2>1, <3>1, <3>2 DEF VotesHonest, VoteGated
  <2>2. CASE ~(pending[s].attempts > 0)
    BY <2>2 DEF HandleVoteUpdate
  <2> QED
    BY <2>1, <2>2
<1>7. MarkerHolds(s) /\ Deadline(s)' = Deadline(s) /\ TimeDue(s)' = TimeDue(s) /\ pending[s] # NoEntry
  BY <1>4 DEF RevealInv, Deadline, TimeDue, SlotStart, HandleVoteUpdate
<1> HIDE DEF e
<1>9. published[s] \in Nat
  BY DEF RevealTypeOK
<1>10. /\ settings[s].mode = "suppressed" => FALSE
       /\ settings[s].mode = "deadline" => published[s] = 0
  BY <1>1, <1>7, <1>9 DEF MarkerHolds
<1>11. MarkerHolds(s)'
  BY <1>4, <1>9, <1>10 DEF MarkerHolds
<1>12. VotesHonest(s)'
  BY <1>3, <1>4, <1>5, <1>6, <1>7 DEF VotesHonest
<1> QED
  BY <1>2, <1>3, <1>4, <1>11, <1>12, EntryKeepsInv DEF e

\* An entry of the round is neither done nor suppressed, and its slot, under a
\* deadline, is not revealed yet.
LEMMA RoundEntry ==
  ASSUME RevealTypeOK, RevealInv, NEW s \in Slots, s \in round.left
  PROVE  /\ pending[s] \in Entry /\ pending[s] # NoEntry /\ ~pending[s].done
         /\ settings[s].mode # "suppressed"
         /\ settings[s].mode = "deadline" => published[s] = 0
<1>1. pending[s] \in Entry /\ pending[s] # NoEntry /\ ~pending[s].done /\ published[s] \in Nat
  BY DEF RevealTypeOK
<1>2. MarkerHolds(s)
  BY DEF RevealInv
<1> QED
  BY <1>1, <1>2 DEF MarkerHolds

\* A visit that publishes nothing keeps what is known of its slot, when an entry
\* that stays alive after an attempt without votes was let through by time.
LEMMA UnpublishedVisit ==
  ASSUME RevealTypeOK, RevealTypeOK', RevealInv, NEW s \in Slots, NEW e \in Entry,
         s \in round.left, Visit(s, e), UNCHANGED published,
         e.root = pending[s].root, e.voteMet = pending[s].voteMet,
         ~e.done /\ e.attempts > 0 /\ ~e.voteMet =>
             settings[s].gate \in {"time", "vote_or_time"} /\ now >= TimeDue(s)
  PROVE  RevealInv'
<1>1. UNCHANGED <<now, settings, reached>>
  BY DEF Visit
<1>2. Deadline(s)' = Deadline(s) /\ TimeDue(s)' = TimeDue(s)
  BY <1>1 DEF Deadline, TimeDue, SlotStart
<1>3. \/ pending'[s] = e
      \/ pending'[s] = NoEntry /\ e.done /\ now > Deadline(s)
  BY VisitKeeps
<1>4. /\ ~pending[s].done /\ pending[s] # NoEntry /\ settings[s].mode # "suppressed"
      /\ settings[s].mode = "deadline" => published[s] = 0
  BY RoundEntry
<1>5. MarkerHolds(s)'
  BY <1>1, <1>4 DEF MarkerHolds
<1>6. VotesHonest(s)
  BY DEF RevealInv
<1>7. VotesHonest(s)'
  BY <1>1, <1>2, <1>3, <1>4, <1>6 DEF VotesHonest
<1> QED
  BY <1>5, <1>7, VisitKeepsInv

\* An open gate whose votes are not in was opened by time.
LEMMA OpenByTime ==
  ASSUME RevealTypeOK, RevealInv, NEW s \in Slots, s \in round.left, Open(s),
         ~pending[s].voteMet
  PROVE  settings[s].gate \in {"time", "vote_or_time"} /\ now >= TimeDue(s)
<1>1. round.at \in Nat /\ now \in Nat /\ round.at <= now /\ TimeDue(s) \in Nat
  BY TimesType DEF RevealTypeOK, RevealInv
<1>2. settings[s].gate \in Gates
  BY DEF RevealTypeOK, SettingsType
<1> QED
  BY <1>1, <1>2 DEF Open, GateSatisfied, Gates

\* Every step keeps the invariant.
LEMMA RevealInvStep ==
  ASSUME RevealTypeOK, RevealTypeOK', RevealInv, [Next]_vars
  PROVE  RevealInv'
<1>1. CASE UNCHANGED vars
  BY <1>1, QuietKeepsInv DEF vars, revealVars, RevealTypeOK
<1>2. CASE Schedule
  BY <1>2, ScheduleKeepsInv
<1>3. CASE TimerFires
  <2>1. UNCHANGED <<now, settings, reached, published>> /\ now \in Nat /\ now <= now
    BY <1>3 DEF TimerFires, RevealTypeOK
  <2>2. CASE Due(now) # {}
    <3>1. round'.at = now /\ UNCHANGED pending
      BY <1>3, <2>2 DEF TimerFires
    <3>2. ASSUME NEW x \in Slots PROVE MarkerHolds(x)' /\ VotesHonest(x)'
      <4>1. MarkerHolds(x) /\ VotesHonest(x)
        BY DEF RevealInv
      <4> QED
        BY <2>1, <3>1, <4>1, SlotKept
    <3> QED
      BY <2>1, <3>1, <3>2 DEF RevealInv
  <2>3. CASE Due(now) = {}
    <3>1. UNCHANGED round /\ pending' = PruneDone(pending, now)
      BY <1>3, <2>3 DEF TimerFires
    <3>2. ASSUME NEW x \in Slots PROVE MarkerHolds(x)' /\ VotesHonest(x)'
      <4>1. MarkerHolds(x) /\ VotesHonest(x)
        BY DEF RevealInv
      <4>2. pending \in [Slots -> Entry \cup {NoEntry}]
        BY DEF RevealTypeOK
      <4>3. \/ pending'[x] = pending[x]
            \/ pending'[x] = NoEntry /\ pending[x] # NoEntry /\ pending[x].done /\ now > Deadline(x)
        BY <2>1, <3>1, <4>2, PrunedIsLate
      <4> QED
        BY <2>1, <4>1, <4>3, SlotKept
    <3> QED
      BY <2>1, <3>1, <3>2 DEF RevealInv
  <2> QED
    BY <2>2, <2>3
<1>4. ASSUME NEW s \in Slots, GateClosed(s) PROVE RevealInv'
  <2>1. s \in round.left /\ UNCHANGED published
    BY <1>4 DEF GateClosed
  <2>2. pending[s] \in Entry /\ Expiry(s) \in Nat
    BY <2>1, RoundEntry, TimesType
  <2>3. PICK e \in Entry : /\ Visit(s, e)
                           /\ e.root = pending[s].root /\ e.voteMet = pending[s].voteMet
                           /\ e.attempts = pending[s].attempts
    <3>1. CASE round.at < Expiry(s)
      <4>1. Visit(s, [pending[s] EXCEPT !.next = Expiry(s)])
        BY <1>4, <3>1 DEF GateClosed
      <4> QED
        BY <2>2, <4>1 DEF Entry
    <3>2. CASE ~(round.at < Expiry(s))
      <4>1. Visit(s, [pending[s] EXCEPT !.done = TRUE])
        BY <1>4, <3>2 DEF GateClosed
      <4>2. [pending[s] EXCEPT !.done = TRUE] \in Entry
        BY <2>2 DEF Entry
      <4>3. /\ [pending[s] EXCEPT !.done = TRUE].root = pending[s].root
            /\ [pending[s] EXCEPT !.done = TRUE].voteMet = pending[s].voteMet
            /\ [pending[s] EXCEPT !.done = TRUE].attempts = pending[s].attempts
        BY <2>2 DEF Entry
      <4> QED
        BY <4>1, <4>2, <4>3
    <3> QED
      BY <3>1, <3>2
  <2>4. VotesHonest(s) /\ ~pending[s].done /\ pending[s] # NoEntry
    BY <2>1, RoundEntry DEF RevealInv
  <2>5. e.attempts > 0 /\ ~e.voteMet =>
          settings[s].gate \in {"time", "vote_or_time"} /\ now >= TimeDue(s)
    BY <2>3, <2>4 DEF VotesHonest
  <2> QED
    BY <2>1, <2>3, <2>5, UnpublishedVisit
<1>5. ASSUME NEW s \in Slots, PublishFails(s) PROVE RevealInv'
  <2>1. s \in round.left /\ UNCHANGED published /\ Open(s)
    BY <1>5 DEF PublishFails
  <2>2. pending[s] \in Entry
    BY <2>1, RoundEntry
  <2>3. Capped(round.at + RetryTicks) \in Nat
    BY RevealAssumption DEF Capped, RevealTypeOK
  <2>4. /\ [pending[s] EXCEPT !.attempts = @ + 1, !.done = TRUE] \in Entry
        /\ [pending[s] EXCEPT !.attempts = @ + 1,
                              !.next = Capped(round.at + RetryTicks)] \in Entry
    BY <2>2, <2>3, AttemptType
  <2>5. PICK e \in Entry : /\ Visit(s, e)
                           /\ e.root = pending[s].root /\ e.voteMet = pending[s].voteMet
    BY <1>5, <2>2, <2>4 DEF PublishFails, Entry
  <2>6. ~e.voteMet => settings[s].gate \in {"time", "vote_or_time"} /\ now >= TimeDue(s)
    BY <2>1, <2>5, OpenByTime
  <2> QED
    BY <2>1, <2>5, <2>6, UnpublishedVisit
<1>6. ASSUME NEW s \in Slots, PublishSucceeds(s) PROVE RevealInv'
  <2>1. s \in round.left
    BY <1>6 DEF PublishSucceeds
  <2>2. pending[s] \in Entry /\ settings[s].mode # "suppressed"
        /\ (settings[s].mode = "deadline" => published[s] = 0)
    BY <2>1, RoundEntry
  <2>3. PICK e \in Entry : Visit(s, e) /\ e.done
    <3>1. [pending[s] EXCEPT !.attempts = @ + 1, !.done = TRUE] \in Entry
      BY <2>2, AttemptType
    <3> QED
      BY <1>6, <2>2, <3>1 DEF PublishSucceeds, Entry
  <2>4. /\ published'[s] = published[s] + 1
        /\ \A x \in Slots \ {s} : published'[x] = published[x]
    BY <1>6 DEF PublishSucceeds, RevealTypeOK
  <2>5. UNCHANGED <<now, settings, reached>>
    BY <2>3 DEF Visit
  <2>6. Deadline(s)' = Deadline(s)
    BY <2>5 DEF Deadline, SlotStart
  <2>7. \/ pending'[s] = e
        \/ pending'[s] = NoEntry /\ now > Deadline(s)
    BY <2>3, VisitKeeps
  <2>8. MarkerHolds(s)'
    <3>1. settings[s].mode = "deadline" => published'[s] = 1
      BY <2>2, <2>4
    <3>2. IF pending'[s] # NoEntry THEN pending'[s].done ELSE now > Deadline(s)
      BY <2>3, <2>7, RevealAssumption
    <3> QED
      BY <2>2, <2>5, <2>6, <3>1, <3>2 DEF MarkerHolds
  <2>9. VotesHonest(s)'
    BY <2>3, <2>7 DEF VotesHonest
  <2> QED
    BY <2>3, <2>4, <2>8, <2>9, VisitKeepsInv
<1>7. ASSUME NEW s \in Slots, NEW r \in Roots, NEW met \in BOOLEAN, HandleVoteUpdate(s, r, met)
      PROVE  RevealInv'
  BY <1>7, VoteKeepsInv
<1>8. CASE Tick
  BY <1>8, QuietKeepsInv DEF Tick, RevealTypeOK
<1>9. ASSUME NEW s \in Slots, NEW r \in Roots,
             HeadIncludes(s, r) \/ ApiSubmits(s, r) \/ VotesArrive(s, r)
      PROVE  RevealInv'
  <2>1. UNCHANGED <<now, settings, pending, round, published>> /\ reached \subseteq reached'
    BY <1>9 DEF HeadIncludes, ApiSubmits, VotesArrive
  <2>2. now <= now'
    BY <2>1 DEF RevealTypeOK
  <2> QED
    BY <2>1, <2>2, QuietKeepsInv
<1>10. ASSUME NEW x \in 1 .. MaxTime, EpochEvent(x) PROVE RevealInv'
  BY <1>10, QuietKeepsInv DEF EpochEvent, revealVars, RevealTypeOK
<1> QED
  BY <1>1, <1>2, <1>3, <1>4, <1>5, <1>6, <1>7, <1>8, <1>9, <1>10 DEF Next, LoopStep, Environment

\* The invariant holds in every reachable state.
LEMMA RevealInvCorrect == Spec => [](RevealTypeOK /\ RevealInv)
<1>1. Init => RevealInv
  <2> SUFFICES ASSUME Init PROVE RevealInv
    OBVIOUS
  <2>1. round.at <= now
    BY DEF Init, Idle
  <2>2. ASSUME NEW s \in Slots PROVE MarkerHolds(s) /\ VotesHonest(s)
    BY DEF Init, MarkerHolds, VotesHonest
  <2> QED
    BY <2>1, <2>2 DEF RevealInv
<1> QED
  BY <1>1, RevealTypeCorrect, RevealInvStep, PTL DEF Spec

\* A slot under a deadline is revealed at most once and a suppressed one never,
\* whatever requests, votes, failures and prunings come, and in any order.
THEOREM RevealedOnceCorrect == Spec => []RevealedOnce
<1>1. RevealTypeOK /\ RevealInv => RevealedOnce
  BY DEF RevealInv, MarkerHolds, RevealedOnce
<1> QED
  BY <1>1, RevealInvCorrect, PTL

\* A step that publishes for a slot does so through a gate the chain has opened.
LEMMA PublishesThroughOpenGate ==
  ASSUME RevealTypeOK, RevealInv, [Next]_vars, NEW s \in Slots, published'[s] > published[s]
  PROVE  TrulyOpen(s)
<1>1. ~UNCHANGED published
  BY DEF RevealTypeOK
<1>2. PICK x \in Slots : PublishSucceeds(x)
  BY <1>1 DEF Next, LoopStep, Environment, Schedule, TimerFires, GateClosed, PublishFails,
             Tick, HeadIncludes, ApiSubmits, VotesArrive, HandleVoteUpdate, EpochEvent,
             vars, revealVars
<1>3. x = s
  BY <1>2 DEF PublishSucceeds, RevealTypeOK
<1>4. s \in round.left /\ Open(s)
  BY <1>2, <1>3 DEF PublishSucceeds
<1>5. ~pending[s].done /\ pending[s] # NoEntry /\ VotesHonest(s)
  BY <1>4, RoundEntry DEF RevealInv
<1>6. round.at \in Nat /\ now \in Nat /\ round.at <= now /\ TimeDue(s) \in Nat
  BY TimesType DEF RevealTypeOK, RevealInv
<1>7. settings[s].gate \in Gates
  BY DEF RevealTypeOK, SettingsType
<1> QED
  BY <1>4, <1>5, <1>6, <1>7 DEF Open, TrulyOpen, GateSatisfied, VotesHonest, Gates

\* An envelope is published only through a gate that is open on the chain: its
\* time has come, or the votes it waits for are in for this very block.
THEOREM GateHonestCorrect == Spec => GateHonest
<1>1. RevealTypeOK /\ RevealInv /\ [Next]_vars =>
        [\A s \in Slots : published'[s] > published[s] => TrulyOpen(s)]_vars
  BY PublishesThroughOpenGate
<1> QED
  BY <1>1, RevealInvCorrect, PTL DEF Spec, GateHonest

-----------------------------------------------------------------------------
(* Withheld payloads.                                                      *)

\* Nothing but the time is missing for entry e of slot s: its gate is a time gate, or
\* the votes beside it are not needed or are in.
TimeAlone(s, e) ==
    \/ settings[s].gate = "time"
    \/ settings[s].gate = "vote_or_time" /\ ~e.voteMet
    \/ settings[s].gate = "vote_and_time" /\ e.voteMet

\* Such an entry is not tried before its time, an entry of the round was due when the
\* round began, and a given-up one lacked votes.
NotEarly(s) == pending[s] # NoEntry /\ ~pending[s].done /\ TimeAlone(s, pending[s]) => pending[s].next >= TimeDue(s)
WasDue(s) == s \in round.left => pending[s].next <= round.at
LackedVotes(s) ==
    pending[s] # NoEntry /\ pending[s].done /\ result[s] = "timeout" =>
        settings[s].gate \in {"vote", "vote_and_time"} /\ ~pending[s].voteMet

ParkedInv == now <= MaxTime /\ \A s \in Slots : NotEarly(s) /\ WasDue(s) /\ LackedVotes(s)

\* A slot whose entry stays or is pruned.
LEMMA ParkedKept ==
  ASSUME NEW s \in Slots, NotEarly(s), WasDue(s), LackedVotes(s),
         settings' = settings, result'[s] = result[s],
         s \in round'.left => s \in round.left /\ round'.at = round.at /\ pending'[s] = pending[s],
         pending'[s] \in {pending[s], NoEntry}
  PROVE  NotEarly(s)' /\ WasDue(s)' /\ LackedVotes(s)'
<1>1. TimeDue(s)' = TimeDue(s)
  BY DEF TimeDue, SlotStart
<1>2. NotEarly(s)'
  BY <1>1 DEF NotEarly, TimeAlone
<1>3. WasDue(s)'
  BY DEF WasDue
<1>4. LackedVotes(s)'
  BY DEF LackedVotes
<1> QED
  BY <1>2, <1>3, <1>4

\* A visit: what it makes of its own entry decides.
LEMMA VisitParked ==
  ASSUME RevealTypeOK, RevealInv, ParkedInv, NEW s \in Slots, NEW e \in Entry, Visit(s, e),
         \A x \in Slots \ {s} : result'[x] = result[x],
         ~e.done /\ TimeAlone(s, e) => e.next >= TimeDue(s),
         e.done /\ result'[s] = "timeout" => settings[s].gate \in {"vote", "vote_and_time"} /\ ~e.voteMet
  PROVE  ParkedInv'
<1>1. now' = now /\ settings' = settings /\ s \notin round'.left
      /\ \A x \in Slots : x \in round'.left => x \in round.left /\ round'.at = round.at
  BY DEF Visit, Idle
<1>2. \A x \in Slots : x \in round'.left => pending'[x] # NoEntry
  BY VisitType
<1>3. ASSUME NEW x \in Slots, x # s PROVE NotEarly(x)' /\ WasDue(x)' /\ LackedVotes(x)'
  <2>1. pending'[x] \in {pending[x], NoEntry}
    BY <1>3, VisitKeeps
  <2>2. NotEarly(x) /\ WasDue(x) /\ LackedVotes(x)
    BY DEF ParkedInv
  <2> QED
    BY <1>1, <1>2, <1>3, <2>1, <2>2, ParkedKept
<1>4. NotEarly(s)' /\ WasDue(s)' /\ LackedVotes(s)'
  <2>1. pending'[s] \in {e, NoEntry}
    BY VisitKeeps
  <2>2. TimeDue(s)' = TimeDue(s)
    BY <1>1 DEF TimeDue, SlotStart
  <2> QED
    BY <1>1, <2>1, <2>2 DEF NotEarly, TimeAlone, WasDue, LackedVotes
<1> QED
  BY <1>1, <1>3, <1>4 DEF ParkedInv

\* An entry of the round that only waits for its time finds it has come.
LEMMA DueIsOpen ==
  ASSUME RevealTypeOK, RevealInv, ParkedInv, NEW s \in Slots, s \in round.left
  PROVE  /\ TimeAlone(s, pending[s]) => round.at >= TimeDue(s) /\ Open(s)
         /\ ~Open(s) => settings[s].gate \in {"vote", "vote_and_time"} /\ ~pending[s].voteMet
<1>1. pending[s] \in Entry /\ pending[s] # NoEntry /\ ~pending[s].done
  BY RoundEntry
<1>2. round.at \in Nat /\ TimeDue(s) \in Nat /\ pending[s].next \in Nat /\ pending[s].voteMet \in BOOLEAN
  BY <1>1, TimesType DEF RevealTypeOK, Entry
<1>3. pending[s].next <= round.at /\ (TimeAlone(s, pending[s]) => pending[s].next >= TimeDue(s))
  BY <1>1 DEF ParkedInv, NotEarly, WasDue
<1>4. TimeAlone(s, pending[s]) => round.at >= TimeDue(s)
  BY <1>2, <1>3
<1>5. settings[s].gate \in Gates
  BY DEF RevealTypeOK, SettingsType
<1> QED
  BY <1>4, <1>5 DEF Open, GateSatisfied, TimeAlone, Gates

\* One entry is written outside of a round.
LEMMA EntryParked ==
  ASSUME RevealTypeOK, ParkedInv, NEW s \in Slots, NEW e \in Entry, LoopIdle,
         pending' = [pending EXCEPT ![s] = e], now' = now, settings' = settings, round' = round,
         \A x \in Slots \ {s} : result'[x] = result[x],
         ~e.done /\ TimeAlone(s, e) => e.next >= TimeDue(s),
         e.done => result'[s] # "timeout"
  PROVE  ParkedInv'
<1>1. pending'[s] = e /\ \A x \in Slots \ {s} : pending'[x] = pending[x]
  BY DEF RevealTypeOK
<1>2. ASSUME NEW x \in Slots, x # s PROVE NotEarly(x)' /\ WasDue(x)' /\ LackedVotes(x)'
  <2>1. NotEarly(x) /\ WasDue(x) /\ LackedVotes(x)
    BY DEF ParkedInv
  <2> QED
    BY <1>1, <1>2, <2>1, ParkedKept
<1>3. TimeDue(s)' = TimeDue(s)
  BY DEF TimeDue, SlotStart
<1>4. NotEarly(s)' /\ WasDue(s)' /\ LackedVotes(s)'
  BY <1>1, <1>3 DEF NotEarly, TimeAlone, WasDue, LackedVotes, LoopIdle
<1> QED
  BY <1>2, <1>4 DEF ParkedInv

\* schedule parks an entry on its time, on its expiry, or on now.
LEMMA ScheduleParked ==
  ASSUME RevealTypeOK, RevealInv, ParkedInv, Schedule
  PROVE  ParkedInv'
<1>1. requests \in Seq([slot : Slots, root : Roots]) /\ requests # <<>>
  BY DEF Schedule, RevealTypeOK
<1>2. Head(requests) \in [slot : Slots, root : Roots]
  BY <1>1, HeadTailProperties
<1>3. PICK s \in Slots, r \in Roots : s = Head(requests).slot /\ r = Head(requests).root
  BY <1>2
<1>4. /\ now' = now /\ settings' = settings /\ round' = round /\ LoopIdle
      /\ result \in [Slots -> Results]
  BY DEF Schedule, RevealTypeOK
<1>5. PICK met \in BOOLEAN : met = (VoteGated(s) /\ <<s, r>> \in reached)
  BY DEF VoteGated
<1> DEFINE e == [root |-> r, attempts |-> 0, voteMet |-> met, next |-> FirstAttempt(s, met), done |-> FALSE]
<1>6. CASE UNCHANGED <<pending, result>>
  BY <1>4, <1>6, ParkedKept DEF ParkedInv
<1>7. ASSUME NEW why \in {"suppressed", "late"}, pending' = [pending EXCEPT ![s] = Finished(r)],
             result' = [result EXCEPT ![s] = why]
      PROVE  ParkedInv'
  <2>1. Finished(r) \in Entry /\ Finished(r).done
    BY DEF Finished, Entry
  <2> QED
    BY <1>4, <1>7, <2>1, EntryParked
<1>8. CASE pending' = [pending EXCEPT ![s] = e] /\ UNCHANGED result
  <2>1. FirstAttempt(s, met) \in Nat /\ now \in Nat /\ TimeDue(s) \in Nat /\ Expiry(s) \in Nat
    BY FirstAttemptType, TimesType DEF RevealTypeOK
  <2>2. TimeAlone(s, e) => FirstAttempt(s, met) >= TimeDue(s)
    BY <2>1 DEF TimeAlone, FirstAttempt
  <2>3. e \in Entry /\ ~e.done /\ e.next = FirstAttempt(s, met)
    BY <2>1 DEF Entry
  <2> HIDE DEF e
  <2> QED
    BY <1>4, <1>8, <2>2, <2>3, EntryParked
<1> QED
  BY <1>3, <1>5, <1>6, <1>7, <1>8 DEF Schedule

\* handleVoteUpdate moves an entry that votes complete to its time, or to now.
LEMMA VoteParked ==
  ASSUME RevealTypeOK, RevealInv, ParkedInv, NEW s \in Slots, NEW r \in Roots, NEW met \in BOOLEAN,
         HandleVoteUpdate(s, r, met)
  PROVE  ParkedInv'
<1>1. /\ pending[s] \in Entry /\ pending[s] # NoEntry /\ ~pending[s].done /\ ~pending[s].voteMet
      /\ VoteGated(s) /\ LoopIdle
      /\ now' = now /\ settings' = settings /\ round' = round /\ result' = result
  BY DEF HandleVoteUpdate, RevealTypeOK
<1>2. now \in Nat /\ TimeDue(s) \in Nat /\ pending[s].next \in Nat
  BY <1>1, TimesType DEF RevealTypeOK, Entry
<1>3. PICK n \in Nat : /\ pending' = [pending EXCEPT ![s] = [pending[s] EXCEPT !.voteMet = TRUE, !.next = n]]
                       /\ settings[s].gate = "vote_and_time" => n >= TimeDue(s)
  <2>1. CASE pending[s].attempts > 0
    <3>1. settings[s].gate # "vote_and_time"
      BY <1>1, <2>1 DEF RevealInv, VotesHonest
    <3>2. [pending[s] EXCEPT !.voteMet = TRUE] = [pending[s] EXCEPT !.voteMet = TRUE, !.next = pending[s].next]
      BY <1>1 DEF Entry
    <3> QED
      BY <1>2, <2>1, <3>1, <3>2 DEF HandleVoteUpdate
  <2>2. CASE ~(pending[s].attempts > 0)
    <3>1. PICK n \in Nat : n = IF settings[s].gate = "vote_and_time" /\ TimeDue(s) > now
                              THEN TimeDue(s) ELSE now
      BY <1>2
    <3>2. settings[s].gate = "vote_and_time" => n >= TimeDue(s)
      BY <1>2, <3>1
    <3>3. pending' = [pending EXCEPT ![s] = [pending[s] EXCEPT !.voteMet = TRUE, !.next = n]]
      BY <2>2, <3>1 DEF HandleVoteUpdate
    <3> QED
      BY <3>2, <3>3
  <2> QED
    BY <2>1, <2>2
<1> DEFINE e == [pending[s] EXCEPT !.voteMet = TRUE, !.next = n]
<1>4. e \in Entry /\ e.voteMet /\ e.next = n /\ ~e.done
  BY <1>1 DEF Entry
<1>5. TimeAlone(s, e) => n >= TimeDue(s)
  BY <1>1, <1>3, <1>4 DEF TimeAlone, VoteGated
<1> HIDE DEF e
<1> QED
  BY <1>1, <1>3, <1>4, <1>5, EntryParked DEF e

\* The visits of a round.
LEMMA RoundParked ==
  ASSUME RevealTypeOK, RevealInv, ParkedInv, NEW s \in Slots,
         GateClosed(s) \/ PublishSucceeds(s) \/ PublishFails(s)
  PROVE  ParkedInv'
<1>1. s \in round.left /\ result \in [Slots -> Results]
  BY DEF GateClosed, PublishSucceeds, PublishFails, RevealTypeOK
<1>2. pending[s] \in Entry /\ Expiry(s) \in Nat /\ TimeDue(s) \in Nat /\ round.at \in Nat
  BY <1>1, RoundEntry, TimesType DEF RevealTypeOK
<1>3. CASE GateClosed(s)
  <2>1. ~Open(s) /\ ~TimeAlone(s, pending[s])
        /\ settings[s].gate \in {"vote", "vote_and_time"} /\ ~pending[s].voteMet
    BY <1>1, <1>3, DueIsOpen DEF GateClosed
  <2>2. CASE round.at < Expiry(s)
    <3> DEFINE e == [pending[s] EXCEPT !.next = Expiry(s)]
    <3>1. e \in Entry /\ e.voteMet = pending[s].voteMet /\ e.done = pending[s].done
      BY <1>2 DEF Entry
    <3>2. Visit(s, e) /\ result' = result
      BY <1>3, <2>2 DEF GateClosed
    <3>3. ~TimeAlone(s, e) /\ ~e.done
      BY <1>1, <2>1, <3>1, RoundEntry DEF TimeAlone
    <3> HIDE DEF e
    <3> QED
      BY <3>1, <3>2, <3>3, VisitParked
  <2>3. CASE ~(round.at < Expiry(s))
    <3> DEFINE e == [pending[s] EXCEPT !.done = TRUE]
    <3>1. e \in Entry /\ e.voteMet = pending[s].voteMet /\ e.done
      BY <1>2 DEF Entry
    <3>2. Visit(s, e) /\ result' = [result EXCEPT ![s] = "timeout"]
      BY <1>3, <2>3 DEF GateClosed
    <3> HIDE DEF e
    <3> QED
      BY <1>1, <2>1, <3>1, <3>2, VisitParked
  <2> QED
    BY <2>2, <2>3
<1>4. ASSUME NEW o \in {"revealed", "failed"}, result' = [result EXCEPT ![s] = o],
             Visit(s, [pending[s] EXCEPT !.attempts = @ + 1, !.done = TRUE])
      PROVE  ParkedInv'
  <2> DEFINE e == [pending[s] EXCEPT !.attempts = @ + 1, !.done = TRUE]
  <2>1. e \in Entry
    BY <1>2, AttemptType
  <2>2. e.done
    BY <1>2 DEF Entry
  <2>3. result'[s] # "timeout" /\ \A x \in Slots \ {s} : result'[x] = result[x]
    BY <1>1, <1>4
  <2> HIDE DEF e
  <2> QED
    BY <1>4, <2>1, <2>2, <2>3, VisitParked DEF e
<1>5. ASSUME Open(s), result' = [result EXCEPT ![s] = "retrying"],
             Visit(s, [pending[s] EXCEPT !.attempts = @ + 1, !.next = Capped(round.at + RetryTicks)])
      PROVE  ParkedInv'
  <2>1. Capped(round.at + RetryTicks) \in Nat /\ Capped(round.at + RetryTicks) >= round.at
    BY <1>2, RevealAssumption DEF Capped, RevealInv, ParkedInv, RevealTypeOK
  <2>2. PICK n \in Nat : n = Capped(round.at + RetryTicks) /\ n >= round.at
    BY <2>1
  <2> DEFINE e == [pending[s] EXCEPT !.attempts = @ + 1, !.next = n]
  <2>3. e \in Entry
    BY <1>2, AttemptType
  <2>4. e.voteMet = pending[s].voteMet /\ e.next = n /\ e.done = pending[s].done
    BY <1>2 DEF Entry
  <2>5. TimeAlone(s, e) => TimeAlone(s, pending[s])
    BY <2>4 DEF TimeAlone
  <2>6. TimeAlone(s, pending[s]) => n >= TimeDue(s)
    BY <1>1, <1>2, <2>2, DueIsOpen
  <2>7. Visit(s, e) /\ ~e.done /\ \A x \in Slots \ {s} : result'[x] = result[x]
    BY <1>1, <1>5, <2>2, <2>4, RoundEntry
  <2> HIDE DEF e
  <2> QED
    BY <2>3, <2>4, <2>5, <2>6, <2>7, VisitParked
<1> QED
  BY <1>3, <1>4, <1>5 DEF PublishSucceeds, PublishFails

\* Every step keeps the invariant.
LEMMA ParkedStep ==
  ASSUME RevealTypeOK, RevealInv, ParkedInv, [Next]_vars
  PROVE  ParkedInv'
<1>1. ASSUME UNCHANGED <<settings, pending, round, result>>, now' <= MaxTime PROVE ParkedInv'
  BY <1>1, ParkedKept DEF ParkedInv
<1>2. CASE UNCHANGED vars
  BY <1>1, <1>2 DEF vars, revealVars, ParkedInv
<1>3. CASE Schedule
  BY <1>3, ScheduleParked
<1>4. CASE TimerFires
  <2>1. now' = now /\ settings' = settings /\ result' = result
    BY <1>4 DEF TimerFires
  <2>2. CASE Due(now) # {}
    <3>1. round' = [at |-> now, left |-> Due(now)] /\ pending' = pending
      BY <1>4, <2>2 DEF TimerFires
    <3>2. ASSUME NEW x \in Slots PROVE NotEarly(x)' /\ WasDue(x)' /\ LackedVotes(x)'
      <4>1. NotEarly(x) /\ LackedVotes(x)
        BY DEF ParkedInv
      <4>2. x \in Due(now) => pending[x].next <= now
        BY DEF Due
      <4> QED
        BY <2>1, <3>1, <4>1, <4>2 DEF NotEarly, TimeAlone, TimeDue, SlotStart, WasDue, LackedVotes
    <3> QED
      BY <2>1, <3>2 DEF ParkedInv
  <2>3. CASE Due(now) = {}
    <3>1. round' = round /\ pending' = PruneDone(pending, now) /\ round.left = {}
      BY <1>4, <2>3 DEF TimerFires, LoopIdle
    <3>2. \A x \in Slots : pending'[x] \in {pending[x], NoEntry}
      BY <3>1, PruneType DEF RevealTypeOK
    <3> QED
      BY <2>1, <3>1, <3>2, ParkedKept DEF ParkedInv
  <2> QED
    BY <2>2, <2>3
<1>5. ASSUME NEW s \in Slots, GateClosed(s) \/ PublishSucceeds(s) \/ PublishFails(s) PROVE ParkedInv'
  BY <1>5, RoundParked
<1>6. ASSUME NEW s \in Slots, NEW r \in Roots, NEW met \in BOOLEAN, HandleVoteUpdate(s, r, met)
      PROVE  ParkedInv'
  BY <1>6, VoteParked
<1>7. CASE Tick
  <2>1. now' <= MaxTime
    BY <1>7, RevealAssumption DEF Tick, RevealTypeOK
  <2> QED
    BY <1>1, <1>7, <2>1 DEF Tick
<1>8. ASSUME NEW s \in Slots, NEW r \in Roots,
             HeadIncludes(s, r) \/ ApiSubmits(s, r) \/ VotesArrive(s, r)
      PROVE  ParkedInv'
  BY <1>1, <1>8 DEF HeadIncludes, ApiSubmits, VotesArrive, ParkedInv
<1>9. ASSUME NEW x \in 1 .. MaxTime, EpochEvent(x) PROVE ParkedInv'
  BY <1>1, <1>9 DEF EpochEvent, revealVars, ParkedInv
<1> QED
  BY <1>2, <1>3, <1>4, <1>5, <1>6, <1>7, <1>8, <1>9 DEF Next, LoopStep, Environment

\* A payload is withheld at its expiry only for lack of votes that its gate needs: no
\* entry is parked past a gate that has opened, whatever the settings and the order of
\* votes, requests, failures and rounds.
THEOREM TimeoutJustifiedCorrect == Spec => []TimeoutJustified
<1>1. Init => ParkedInv
  BY RevealAssumption DEF Init, Idle, ParkedInv, NotEarly, WasDue, LackedVotes
<1>2. RevealTypeOK /\ RevealInv /\ ParkedInv /\ [Next]_vars => ParkedInv'
  BY ParkedStep
<1>3. ParkedInv => TimeoutJustified
  BY DEF ParkedInv, LackedVotes, TimeoutJustified
<1> QED
  BY <1>1, <1>2, <1>3, RevealInvCorrect, PTL DEF Spec

-----------------------------------------------------------------------------
(* The Builder API: indices and the names they give.                       *)

\* A non-empty set of naturals has a least element.
LEMMA LeastNatural ==
    ASSUME NEW T \in SUBSET Nat, T # {}
    PROVE  \E x \in T : \A y \in T : x <= y
<1> DEFINE R == OpToRel(<, Nat)
<1>1. IsWellFoundedOn(R, Nat)
  BY NatLessThanWellFounded
<1>2. \A x, y \in Nat : x < y => <<x, y>> \in R
  BY DEF OpToRel
<1> HIDE DEF R
<1>3. PICK x \in T : \A y \in T : ~(<<y, x>> \in R)
  BY <1>1, WFMin
<1>4. \A y \in T : x <= y
  <2> TAKE y \in T
  <2>1. x \in Nat /\ y \in Nat
    OBVIOUS
  <2>2. ~(y < x)
    BY <1>2, <1>3, <2>1
  <2> QED BY <2>1, <2>2
<1> QED BY <1>4


\* A bounded set of naturals has a largest element, and Max is it.
LEMMA MaxOfBounded ==
    ASSUME NEW S \in SUBSET Nat, S # {}, NEW n \in Nat, \A y \in S : y <= n
    PROVE  Max(S) \in S /\ \A y \in S : y <= Max(S)
<1> DEFINE U == {u \in Nat : \A y \in S : y <= u}
<1>1. U \in SUBSET Nat /\ U # {}
  OBVIOUS
<1>2. PICK m \in U : \A u \in U : m <= u
  BY <1>1, LeastNatural
<1>3. m \in S
  <2> SUFFICES ASSUME m \notin S PROVE FALSE
    OBVIOUS
  <2>1. m # 0
    <3>1. ASSUME m = 0, NEW y \in S PROVE FALSE
      <4>1. y \in Nat /\ y <= 0
        BY <1>2, <3>1
      <4>2. y = 0
        BY <4>1
      <4> QED BY <3>1, <4>2
    <3> QED BY <3>1
  <2>2. m - 1 \in Nat /\ ~(m <= m - 1)
    BY <1>2, <2>1
  <2>3. \A y \in S : y <= m - 1
    BY <1>2, <2>2
  <2> QED BY <1>2, <2>2, <2>3
<1>4. \E x \in S : \A y \in S : x >= y
  BY <1>2, <1>3
<1>5. Max(S) \in S /\ \A y \in S : Max(S) >= y
  BY <1>4 DEF Max
<1> QED BY <1>5

\* The artifacts a slot, kind and index can name, and the rows of the writer.
Key == Int \X {"bid"} \X Nat
Row == [key : Key, data : Nat]

\* Something of the program holds artifact x under key k: the buffer, the writer, the
\* table, a handler between its index and its store, or a record whose artifact no restart
\* has found missing.
Named(k, x) ==
    \/ \E s \in DOMAIN buffer : \E j \in DOMAIN buffer[s] : k = <<s, j[1], j[2]>> /\ x = buffer[s][j]
    \/ \E i \in DOMAIN writeQueue : k = writeQueue[i].key /\ x = writeQueue[i].data
    \/ \E i \in DOMAIN batch : k = batch[i].key /\ x = batch[i].data
    \/ k \in DOMAIN table /\ x = table[k]
    \/ \E q \in Requests : req[q].pc = "store" /\ k = <<req[q].slot, "bid", req[q].idx>> /\ x = req[q].bid.id
    \/ \E a \in Backed : a.idx >= 0 /\ k = <<a.slot, "bid", a.idx>> /\ x = a.bid

\* The step names nothing new.
NamesShrink == \A k, x : Named(k, x)' => Named(k, x)

\* Names are of bids, have indices below some bound, and a key names one bid.
NamesOK ==
    /\ \A k, x : Named(k, x) => k \in Key
    /\ \E n \in Nat : \A k, x : Named(k, x) => k[3] <= n
    /\ \A k, x, y : Named(k, x) /\ Named(k, y) => x = y

\* Slot s can still be given indices: its counter is past all of its names, or all of
\* them are in the table, from which the counter starts.
CounterOK(s) ==
    IF s \in DOMAIN bidIdx
    THEN bidIdx[s] \in Nat /\ \A k, x : Named(k, x) /\ k[1] = s => k[3] < bidIdx[s]
    ELSE \A k, x : Named(k, x) /\ k[1] = s => k \in DOMAIN table

CountersOK == \A s \in Int : s + HandlerSlots > clock => CounterOK(s)

StoreOK ==
    /\ buffer = [s \in DOMAIN buffer |-> buffer[s]] /\ IsFiniteSet(DOMAIN buffer)
    /\ \A s \in DOMAIN buffer : s \in Int /\ s <= clock + Ahead
    /\ writeQueue \in Seq(Row) /\ batch \in Seq(Row)
    /\ pruning \in Int /\ (pruning # 0 => pruning + HandlerSlots <= clock + 1)

Bidding == {"respond", "record", "allocate", "append", "store"}

\* A request, with the clock at current and the blocks of slots out broadcast: a handler of
\* a bid is within HandlerSlots of its slot; a reveal follows its block.
RequestOK(x, current, out) ==
    /\ x.pc = "respond" => x = [pc |-> x.pc, dialect |-> x.dialect, slot |-> x.slot, bid |-> x.bid]
    /\ x.pc = "record" => x = [pc |-> x.pc, dialect |-> x.dialect, slot |-> x.slot, bid |-> x.bid,
                               status |-> x.status, error |-> x.error]
    /\ x.pc \in Bidding => /\ x.slot \in Int /\ x.bid.id \in Nat
                           /\ x.slot + HandlerSlots > current /\ x.slot <= current + Ahead
    /\ x.pc = "store" => x.idx \in Nat
    /\ x.pc = "publish" => x = [pc |-> x.pc, dialect |-> x.dialect, slot |-> x.slot]
    /\ x.pc = "accept" => x.slot \in out

RequestsOK ==
    /\ DOMAIN req = Requests /\ req = [q \in Requests |-> req[q]]
    /\ \A q \in Requests : RequestOK(req[q], clock, broadcast)

ApiInv ==
    /\ clock \in Nat /\ bids \in Nat /\ RequestsOK /\ RevealAfterBroadcast
    /\ StoreOK /\ NamesOK /\ CountersOK

\* What the assumption says.
LEMMA ApiConstants ==
    /\ HandlerSlots \in Nat /\ Ahead \in {0, 1} /\ BufferSlots \in Nat /\ QueueCap \in Nat /\ Retention \in Nat
    /\ HandlerSlots + Ahead <= BufferSlots /\ HandlerSlots <= Retention + 1
    /\ \A l \in Leads : l \in Int /\ l + HandlerSlots > 0
BY ApiAssumption, ArtifactsAssumption DEF Ahead

\* The next index of a slot names nothing, and is past all that the slot's indices name.
LEMMA NextIndexIsFree ==
    ASSUME NamesOK, NEW s \in Int, CounterOK(s)
    PROVE  NextIndex(s) \in Nat /\ \A k, x : Named(k, x) /\ k[1] = s => k[3] < NextIndex(s)
<1>1. CASE s \in DOMAIN bidIdx
  BY <1>1 DEF CounterOK, NextIndex
<1>2. CASE s \notin DOMAIN bidIdx
  <2> DEFINE used == {k[3] : k \in {k \in DOMAIN table : k[1] = s /\ k[2] = "bid"}}
  <2>1. NextIndex(s) = IF used = {} THEN 0 ELSE 1 + Max(used)
    BY <1>2 DEF NextIndex, FirstFree
  <2>2. \A k, x : Named(k, x) /\ k[1] = s => k \in DOMAIN table
    BY <1>2 DEF CounterOK
  <2>3. \A k, x : Named(k, x) => k[2] = "bid" /\ k[3] \in Nat
    BY DEF NamesOK, Key
  <2>4. PICK n \in Nat : \A k, x : Named(k, x) => k[3] <= n
    BY DEF NamesOK
  <2>5. \A k \in DOMAIN table : Named(k, table[k])
    BY DEF Named
  <2>6. used \in SUBSET Nat /\ \A y \in used : y <= n
    BY <2>3, <2>4, <2>5
  <2>7. ASSUME NEW k, NEW x, Named(k, x), k[1] = s PROVE k[3] \in used
    BY <2>2, <2>3, <2>7
  <2> HIDE DEF used
  <2>8. CASE used = {}
    BY <2>1, <2>7, <2>8
  <2>9. CASE used # {}
    <3>1. Max(used) \in used /\ \A y \in used : y <= Max(used)
      BY <2>6, <2>9, MaxOfBounded
    <3>2. Max(used) \in Nat /\ NextIndex(s) = 1 + Max(used)
      BY <2>1, <2>6, <2>9, <3>1
    <3>3. ASSUME NEW k, NEW x, Named(k, x), k[1] = s PROVE k[3] < NextIndex(s)
      <4>1. k[3] \in used
        BY <2>7, <3>3
      <4>2. k[3] \in Nat /\ k[3] <= Max(used)
        BY <2>6, <3>1, <4>1
      <4> QED BY <3>2, <4>2
    <3> QED BY <3>2, <3>3
  <2> QED BY <2>8, <2>9
<1> QED BY <1>1, <1>2

\* insertBuffer pushes out only slots that BufferSlots newer ones follow.
LEMMA OldestAreOld ==
    ASSUME StoreOK, clock \in Nat, NEW s \in Int, s <= clock + Ahead, NEW t \in Oldest(s)
    PROVE  t \in Int /\ t + HandlerSlots <= clock
<1> DEFINE slots == DOMAIN buffer \cup {s}
           older == {u \in slots : u < t}
           newer == {u \in slots : u > t}
           top == clock + Ahead
<1>1. t \in slots /\ Cardinality(older) < Cardinality(slots) - BufferSlots
  BY DEF Oldest
<1>2. IsFiniteSet(slots)
  BY FS_AddElement DEF StoreOK
<1>3. \A u \in slots : u \in Int /\ u <= top
  BY DEF StoreOK
<1> HIDE DEF slots
<1>4. older \in SUBSET slots /\ newer \in SUBSET slots
  OBVIOUS
<1>5. IsFiniteSet(older) /\ IsFiniteSet(newer)
  BY <1>2, <1>4, FS_Subset
<1>6. older \cap newer = {} /\ t \notin older /\ t \notin newer /\ slots = (older \cup newer) \cup {t}
  BY <1>1, <1>3
<1>7. /\ Cardinality(older) \in Nat /\ Cardinality(newer) \in Nat
      /\ Cardinality(older \cup newer) = Cardinality(older) + Cardinality(newer)
      /\ IsFiniteSet(older \cup newer)
  <2>1. Cardinality(older) \in Nat /\ Cardinality(newer) \in Nat
    BY <1>5, FS_CardinalityType
  <2>2. /\ IsFiniteSet(older \cup newer)
        /\ Cardinality(older \cup newer) = Cardinality(older) + Cardinality(newer) - Cardinality(older \cap newer)
    BY <1>5, FS_Union
  <2>3. Cardinality(older \cap newer) = 0
    BY <1>6, FS_EmptySet
  <2> QED BY <2>1, <2>2, <2>3
<1>8. Cardinality(slots) = Cardinality(older \cup newer) + 1
  <2>1. t \notin older \cup newer
    BY <1>6
  <2>2. Cardinality((older \cup newer) \cup {t}) = Cardinality(older \cup newer) + 1
    BY <1>7, <2>1, FS_AddElement
  <2> QED BY <1>6, <2>2
<1>9. t \in Int /\ top \in Int /\ BufferSlots \in Nat /\ t <= top
  BY <1>1, <1>3, ApiConstants
<1>10. Cardinality(newer) >= BufferSlots
  BY <1>1, <1>7, <1>8, <1>9
<1>11. newer \subseteq t + 1 .. top
  <2> SUFFICES ASSUME NEW u \in newer PROVE u \in t + 1 .. top
    OBVIOUS
  <2>1. u \in Int /\ u <= top /\ u > t
    BY <1>3
  <2> HIDE DEF newer, top
  <2> QED BY <1>9, <2>1
<1>12. IsFiniteSet(t + 1 .. top) /\ Cardinality(t + 1 .. top) = IF t + 1 > top THEN 0 ELSE top - (t + 1) + 1
  <2> HIDE DEF top
  <2>1. t + 1 \in Int
    BY <1>9
  <2> QED BY <1>9, <2>1, FS_Interval
<1>13. Cardinality(newer) <= Cardinality(t + 1 .. top)
  BY <1>11, <1>12, FS_Subset
<1> HIDE DEF older, newer, top
<1>14. BufferSlots <= top - t
  BY <1>7, <1>9, <1>10, <1>12, <1>13
<1>15. t + HandlerSlots <= clock
  BY <1>9, <1>14, ApiConstants DEF top
<1> QED BY <1>9, <1>15

-----------------------------------------------------------------------------
(* The steps of the Builder API and of the writer.                         *)

\* What RowsKept says of one step.
RowsStay == \A k \in DOMAIN table : k[2] = "bid" /\ k \in DOMAIN table' => table'[k] = table[k]

LEMMA NamesKeep ==
    ASSUME NamesOK, NamesShrink
    PROVE  NamesOK' /\ RowsStay
<1>1. \A k, x : Named(k, x)' => Named(k, x)
  BY DEF NamesShrink
<1>2. NamesOK'
  <2>1. \A k, x : Named(k, x)' => k \in Key
    BY <1>1 DEF NamesOK
  <2>2. \E n \in Nat : \A k, x : Named(k, x)' => k[3] <= n
    BY <1>1 DEF NamesOK
  <2>3. \A k, x, y : Named(k, x)' /\ Named(k, y)' => x = y
    BY <1>1 DEF NamesOK
  <2> QED BY <2>1, <2>2, <2>3 DEF NamesOK, Key
<1>3. ASSUME NEW k \in DOMAIN table, k \in DOMAIN table' PROVE table'[k] = table[k]
  <2>1. Named(k, table[k])
    BY DEF Named
  <2>2. ASSUME NEW y, y = table'[k] PROVE Named(k, y)
    <3>1. Named(k, y)'
      BY <1>3, <2>2 DEF Named
    <3> QED BY <1>1, <3>1
  <2>3. \A y : y = table'[k] => y = table[k]
    BY <2>1, <2>2 DEF NamesOK
  <2> QED BY <2>3
<1> QED BY <1>2, <1>3 DEF RowsStay

\* The counters of the slots that can still be given indices stay as they are.
LEMMA CountersKeep ==
    ASSUME CountersOK, NamesShrink, clock \in Nat, clock' \in Nat, clock' >= clock,
           \A s \in Int : s + HandlerSlots > clock' =>
             /\ s \in DOMAIN bidIdx' <=> s \in DOMAIN bidIdx
             /\ s \in DOMAIN bidIdx => bidIdx'[s] = bidIdx[s]
             /\ \A k \in DOMAIN table : k[1] = s => k \in DOMAIN table'
    PROVE  CountersOK'
<1> SUFFICES ASSUME NEW s \in Int, s + HandlerSlots > clock' PROVE CounterOK(s)'
  BY DEF CountersOK
<1>1. s + HandlerSlots > clock
  BY ApiConstants
<1>2. CounterOK(s)
  BY <1>1 DEF CountersOK
<1>3. \A k, x : Named(k, x)' => Named(k, x)
  BY DEF NamesShrink
<1>4. CASE s \in DOMAIN bidIdx
  <2>1. s \in DOMAIN bidIdx' /\ bidIdx'[s] = bidIdx[s]
    BY <1>4
  <2>2. bidIdx[s] \in Nat /\ \A k, x : Named(k, x) /\ k[1] = s => k[3] < bidIdx[s]
    BY <1>2, <1>4 DEF CounterOK
  <2>3. \A k, x : Named(k, x)' /\ k[1] = s => k[3] < bidIdx'[s]
    BY <1>3, <2>1, <2>2
  <2> QED BY <2>1, <2>2, <2>3 DEF CounterOK
<1>5. CASE s \notin DOMAIN bidIdx
  <2>1. s \notin DOMAIN bidIdx'
    BY <1>5
  <2>2. \A k, x : Named(k, x) /\ k[1] = s => k \in DOMAIN table
    BY <1>2, <1>5 DEF CounterOK
  <2>3. \A k, x : Named(k, x)' /\ k[1] = s => k \in DOMAIN table'
    BY <1>3, <2>2
  <2> QED BY <2>1, <2>3 DEF CounterOK
<1> QED BY <1>4, <1>5

\* A request moves on.
LEMMA RequestMoves ==
    ASSUME RequestsOK, NEW q \in Requests, NEW y, req' = [req EXCEPT ![q] = y],
           RequestOK(y, clock, broadcast'), broadcast \subseteq broadcast', clock' = clock
    PROVE  RequestsOK' /\ \A p \in Requests : req'[p] = IF p = q THEN y ELSE req[p]
<1>1. /\ DOMAIN req' = Requests /\ req' = [p \in Requests |-> req'[p]]
      /\ \A p \in Requests : req'[p] = IF p = q THEN y ELSE req[p]
  BY DEF RequestsOK
<1>2. ASSUME NEW p \in Requests PROVE RequestOK(req'[p], clock', broadcast')
  <2>1. CASE p = q
    BY <1>1, <2>1
  <2>2. CASE p # q
    <3>1. RequestOK(req[p], clock, broadcast)
      BY DEF RequestsOK
    <3>2. RequestOK(req[p], clock, broadcast')
      BY <3>1 DEF RequestOK
    <3> QED BY <1>1, <2>2, <3>2
  <2> QED BY <2>1, <2>2
<1> QED BY <1>1, <1>2 DEF RequestsOK

\* A step of a handler that neither takes an index nor stores.
LEMMA HandlerStep ==
    ASSUME ApiInv, NEW q \in Requests, NEW y, req' = [req EXCEPT ![q] = y], y.pc # "store",
           RequestOK(y, clock, broadcast'), broadcast \subseteq broadcast', revealing' \subseteq broadcast',
           clock' = clock, bids' \in Nat, UNCHANGED artifactVars,
           \A a \in Backed' : a \in Backed \/ a.idx = -1
    PROVE  ApiInv' /\ RowsStay
<1>1. RequestsOK' /\ \A p \in Requests : req'[p] = IF p = q THEN y ELSE req[p]
  BY RequestMoves DEF ApiInv
<1>2. /\ buffer' = buffer /\ bidIdx' = bidIdx /\ writeQueue' = writeQueue /\ batch' = batch
      /\ table' = table /\ pruning' = pruning
  BY DEF artifactVars
<1>3. NamesShrink
  <2> SUFFICES ASSUME NEW k, NEW x, Named(k, x)' PROVE Named(k, x)
    BY DEF NamesShrink
  <2>1. CASE \E p \in Requests : req'[p].pc = "store" /\ k = <<req'[p].slot, "bid", req'[p].idx>> /\ x = req'[p].bid.id
    <3>1. PICK p \in Requests : req'[p].pc = "store" /\ k = <<req'[p].slot, "bid", req'[p].idx>> /\ x = req'[p].bid.id
      BY <2>1
    <3>2. req'[p] = req[p]
      BY <1>1, <3>1
    <3> QED BY <3>1, <3>2 DEF Named
  <2>2. CASE \E a \in Backed' : a.idx >= 0 /\ k = <<a.slot, "bid", a.idx>> /\ x = a.bid
    <3>1. PICK a \in Backed' : a.idx >= 0 /\ k = <<a.slot, "bid", a.idx>> /\ x = a.bid
      BY <2>2
    <3>2. a \in Backed
      BY <3>1
    <3> QED BY <3>1, <3>2 DEF Named
  <2> QED BY <1>2, <2>1, <2>2 DEF Named
<1>4. NamesOK' /\ RowsStay
  BY <1>3, NamesKeep DEF ApiInv
<1>5. CountersOK'
  BY <1>2, <1>3, CountersKeep DEF ApiInv
<1>6. StoreOK'
  BY <1>2 DEF ApiInv, StoreOK, Row, Key
<1> QED BY <1>1, <1>4, <1>5, <1>6 DEF ApiInv, RevealAfterBroadcast

LEMMA GetBidKeeps ==
    ASSUME ApiInv, NEW q \in Requests, NEW d, NEW lead \in Leads, NEW r, r.slot = clock + lead,
           GetBid(q, d, r)
    PROVE  ApiInv' /\ RowsStay
<1>1. clock' = clock /\ broadcast' = broadcast /\ revealing' = revealing /\ Backed' = Backed
      /\ UNCHANGED artifactVars
  BY DEF GetBid, envVars, recordVars, blockVars, Backed
<1>2. clock \in Nat /\ bids \in Nat /\ lead \in Int /\ r.slot \in Int /\ lead + HandlerSlots > 0
  BY ApiConstants DEF ApiInv
<1>3. broadcast \subseteq broadcast' /\ revealing' \subseteq broadcast'
  BY <1>1 DEF ApiInv, RevealAfterBroadcast
<1>4. Outcome(d, r) # "none" => r.slot <= clock + Ahead /\ r.slot + HandlerSlots > clock
  <2>1. Outcome(d, r) # "none" => ~(r.slot > clock + 1)
    BY DEF Outcome, LegacyOutcome, EpbsOutcome
  <2>2. lead <= 1 => lead <= Ahead
    BY <1>2 DEF Ahead
  <2> QED BY <1>2, <2>1, <2>2, ApiConstants
<1>5. CASE Outcome(d, r) = "none" /\ req' = [req EXCEPT ![q] = Done] /\ bids' = bids
  <2>1. Done.pc = "done"
    BY DEF Done
  <2>2. RequestOK(Done, clock, broadcast')
    BY <2>1 DEF RequestOK, Bidding
  <2> QED BY <1>1, <1>2, <1>3, <1>5, <2>1, <2>2, HandlerStep
<1>6. CASE /\ Outcome(d, r) # "none" /\ bids' = bids
           /\ req' = [req EXCEPT ![q] = [pc |-> "record", dialect |-> d, slot |-> r.slot, bid |-> NoBid,
                                         status |-> IF Outcome(d, r) = "suppressed" THEN Outcome(d, r) ELSE "failed",
                                         error |-> Outcome(d, r)]]
  <2> DEFINE y == [pc |-> "record", dialect |-> d, slot |-> r.slot, bid |-> NoBid,
                   status |-> IF Outcome(d, r) = "suppressed" THEN Outcome(d, r) ELSE "failed",
                   error |-> Outcome(d, r)]
  <2>1. /\ y.pc = "record" /\ y.slot = r.slot /\ y.bid.id = 0
        /\ y = [pc |-> y.pc, dialect |-> y.dialect, slot |-> y.slot, bid |-> y.bid,
                status |-> y.status, error |-> y.error]
    BY DEF NoBid
  <2>2. req' = [req EXCEPT ![q] = y]
    BY <1>6
  <2> HIDE DEF y
  <2>3. RequestOK(y, clock, broadcast')
    BY <1>2, <1>4, <1>6, <2>1 DEF RequestOK, Bidding
  <2>4. y.pc # "store" /\ bids' \in Nat
    BY <1>2, <1>6, <2>1
  <2> QED BY <1>1, <1>3, <2>2, <2>3, <2>4, HandlerStep
<1>7. CASE /\ Outcome(d, r) = "bid" /\ bids' = bids + 1
           /\ req' = [req EXCEPT ![q] = [pc |-> "respond", dialect |-> d, slot |-> r.slot, bid |-> SignedBid(d, r)]]
  <2> DEFINE y == [pc |-> "respond", dialect |-> d, slot |-> r.slot, bid |-> SignedBid(d, r)]
  <2>1. /\ y.pc = "respond" /\ y.slot = r.slot /\ y.bid = SignedBid(d, r)
        /\ y = [pc |-> y.pc, dialect |-> y.dialect, slot |-> y.slot, bid |-> y.bid]
    OBVIOUS
  <2>2. req' = [req EXCEPT ![q] = y]
    BY <1>7
  <2> HIDE DEF y
  <2>3. y.bid.id = bids + 1
    BY <2>1 DEF SignedBid
  <2>4. RequestOK(y, clock, broadcast')
    BY <1>2, <1>4, <1>7, <2>1, <2>3 DEF RequestOK, Bidding
  <2>5. y.pc # "store" /\ bids' \in Nat
    BY <1>2, <1>7, <2>1
  <2> QED BY <1>1, <1>3, <2>2, <2>4, <2>5, HandlerStep
<1> QED BY <1>5, <1>6, <1>7 DEF GetBid

LEMMA DoneIsOK ==
    ASSUME NEW out
    PROVE  Done.pc # "store" /\ RequestOK(Done, clock, out)
<1>1. Done.pc = "done"
  BY DEF Done
<1> QED BY <1>1 DEF RequestOK, Bidding

LEMMA RespondKeeps ==
    ASSUME ApiInv, NEW q \in Requests, Respond(q)
    PROVE  ApiInv' /\ RowsStay
<1>1. clock' = clock /\ broadcast' = broadcast /\ revealing' = revealing /\ Backed' = Backed
      /\ bids' = bids /\ UNCHANGED artifactVars
  BY DEF Respond, envVars, recordVars, blockVars, Backed
<1>2. broadcast \subseteq broadcast' /\ revealing' \subseteq broadcast' /\ bids' \in Nat
  BY <1>1 DEF ApiInv, RevealAfterBroadcast
<1> DEFINE x == req[q]
<1>3. PICK status : req' = [req EXCEPT ![q] = [pc |-> "record", dialect |-> x.dialect, slot |-> x.slot, bid |-> x.bid,
                                               status |-> status, error |-> IF status = "served" THEN "" ELSE status]]
  BY DEF Respond
<1>4. x.pc = "respond" /\ RequestOK(x, clock, broadcast)
  BY DEF Respond, ApiInv, RequestsOK
<1> DEFINE y == [pc |-> "record", dialect |-> x.dialect, slot |-> x.slot, bid |-> x.bid,
                 status |-> status, error |-> IF status = "served" THEN "" ELSE status]
<1>5. req' = [req EXCEPT ![q] = y]
  BY <1>3
<1> HIDE DEF x
<1>6. /\ y.pc = "record" /\ y.slot = x.slot /\ y.bid = x.bid
      /\ y = [pc |-> y.pc, dialect |-> y.dialect, slot |-> y.slot, bid |-> y.bid,
              status |-> y.status, error |-> y.error]
  OBVIOUS
<1> HIDE DEF y
<1>7. RequestOK(y, clock, broadcast')
  BY <1>4, <1>6 DEF RequestOK, Bidding
<1>8. y.pc # "store"
  BY <1>6
<1> QED BY <1>1, <1>2, <1>5, <1>7, <1>8, HandlerStep

LEMMA RecordBidKeeps ==
    ASSUME ApiInv, NEW q \in Requests, RecordBid(q)
    PROVE  ApiInv' /\ RowsStay
<1>1. clock' = clock /\ broadcast' = broadcast /\ revealing' = revealing /\ Backed' = Backed
      /\ bids' = bids /\ UNCHANGED artifactVars
  BY DEF RecordBid, envVars, blockVars, recordVars, Backed
<1>2. broadcast \subseteq broadcast' /\ revealing' \subseteq broadcast' /\ bids' \in Nat
  BY <1>1 DEF ApiInv, RevealAfterBroadcast
<1> DEFINE x == req[q]
<1>3. x.pc = "record" /\ RequestOK(x, clock, broadcast)
  BY DEF RecordBid, ApiInv, RequestsOK
<1>4. CASE req' = [req EXCEPT ![q] = Done]
  BY <1>1, <1>2, <1>4, DoneIsOK, HandlerStep
<1>5. CASE \E v \in {"append", "allocate"} : req' = [req EXCEPT ![q].pc = v]
  <2>1. PICK v \in {"append", "allocate"} : req' = [req EXCEPT ![q].pc = v]
    BY <1>5
  <2> DEFINE y == [x EXCEPT !.pc = v]
  <2>2. req' = [req EXCEPT ![q] = y]
    BY <2>1
  <2> HIDE DEF x
  <2>3. x = [pc |-> x.pc, dialect |-> x.dialect, slot |-> x.slot, bid |-> x.bid,
             status |-> x.status, error |-> x.error]
    BY <1>3 DEF RequestOK
  <2>4. y.pc = v /\ y.slot = x.slot /\ y.bid = x.bid
    BY <2>3
  <2> HIDE DEF y
  <2>5. RequestOK(y, clock, broadcast')
    BY <1>3, <2>4 DEF RequestOK, Bidding
  <2>6. y.pc # "store"
    BY <2>1, <2>4
  <2> QED BY <1>1, <1>2, <2>2, <2>5, <2>6, HandlerStep
<1>6. \/ req' = [req EXCEPT ![q] = Done]
      \/ \E v \in {"append", "allocate"} : req' = [req EXCEPT ![q].pc = v]
  <2>1. req' = [req EXCEPT ![q].pc = IF x.bid = NoBid THEN "append" ELSE "allocate"] =>
          \E v \in {"append", "allocate"} : req' = [req EXCEPT ![q].pc = v]
    <3>1. CASE x.bid = NoBid
      BY <3>1
    <3>2. CASE x.bid # NoBid
      BY <3>2
    <3> QED BY <3>1, <3>2
  <2> QED BY <2>1 DEF RecordBid
<1> QED BY <1>4, <1>5, <1>6

LEMMA AppendBidKeeps ==
    ASSUME ApiInv, NEW q \in Requests, AppendBid(q)
    PROVE  ApiInv' /\ RowsStay
<1>1. clock' = clock /\ broadcast' = broadcast /\ revealing' = revealing
      /\ bids' = bids /\ UNCHANGED artifactVars /\ req' = [req EXCEPT ![q] = Done]
  BY DEF AppendBid, envVars, blockVars
<1>2. broadcast \subseteq broadcast' /\ revealing' \subseteq broadcast' /\ bids' \in Nat
  BY <1>1 DEF ApiInv, RevealAfterBroadcast
<1>3. \A a \in Backed' : a \in Backed \/ a.idx = -1
  BY DEF AppendBid, Backed
<1> QED BY <1>1, <1>2, <1>3, DoneIsOK, HandlerStep

LEMMA StoreBidFailsKeeps ==
    ASSUME ApiInv, NEW q \in Requests, StoreBidFails(q)
    PROVE  ApiInv' /\ RowsStay
<1> DEFINE y == [pc |-> "append", slot |-> req[q].slot, bid |-> req[q].bid]
<1>1. clock' = clock /\ broadcast' = broadcast /\ revealing' = revealing /\ Backed' = Backed
      /\ bids' = bids /\ UNCHANGED artifactVars /\ req' = [req EXCEPT ![q] = y]
  BY DEF StoreBidFails, envVars, blockVars, recordVars, Backed
<1>2. broadcast \subseteq broadcast' /\ revealing' \subseteq broadcast' /\ bids' \in Nat
  BY <1>1 DEF ApiInv, RevealAfterBroadcast
<1>3. req[q].pc \in Bidding /\ RequestOK(req[q], clock, broadcast)
  BY DEF StoreBidFails, Bidding, ApiInv, RequestsOK
<1>4. y.pc = "append" /\ RequestOK(y, clock, broadcast')
  BY <1>1, <1>3 DEF RequestOK, Bidding
<1> HIDE DEF y
<1> QED BY <1>1, <1>2, <1>4, HandlerStep

LEMMA SubmitBlockKeeps ==
    ASSUME ApiInv, NEW q \in Requests, NEW d, NEW s, NEW p, SubmitBlock(q, d, s, p)
    PROVE  ApiInv' /\ RowsStay
<1>1. clock' = clock /\ broadcast' = broadcast /\ revealing' = revealing /\ Backed' = Backed
      /\ bids' = bids /\ UNCHANGED artifactVars
  BY DEF SubmitBlock, envVars, blockVars, recordVars, Backed
<1>2. broadcast \subseteq broadcast' /\ revealing' \subseteq broadcast' /\ bids' \in Nat
  BY <1>1 DEF ApiInv, RevealAfterBroadcast
<1>3. CASE req' = [req EXCEPT ![q] = Done]
  BY <1>1, <1>2, <1>3, DoneIsOK, HandlerStep
<1>4. CASE req' = [req EXCEPT ![q] = [pc |-> "publish", dialect |-> d, slot |-> s]]
  <2> DEFINE y == [pc |-> "publish", dialect |-> d, slot |-> s]
  <2>1. y.pc = "publish" /\ y = [pc |-> y.pc, dialect |-> y.dialect, slot |-> y.slot]
    OBVIOUS
  <2>2. req' = [req EXCEPT ![q] = y]
    BY <1>4
  <2> HIDE DEF y
  <2>3. RequestOK(y, clock, broadcast') /\ y.pc # "store"
    BY <2>1 DEF RequestOK, Bidding
  <2> QED BY <1>1, <1>2, <2>2, <2>3, HandlerStep
<1> QED BY <1>3, <1>4 DEF SubmitBlock

LEMMA PublishKeeps ==
    ASSUME ApiInv, NEW q \in Requests, Publish(q)
    PROVE  ApiInv' /\ RowsStay
<1> DEFINE x == req[q]
<1>1. clock' = clock /\ revealing' = revealing /\ Backed' = Backed
      /\ bids' = bids /\ UNCHANGED artifactVars
  BY DEF Publish, envVars, recordVars, Backed
<1>2. broadcast \subseteq broadcast'
  BY DEF Publish
<1>3. revealing' \subseteq broadcast' /\ bids' \in Nat
  BY <1>1, <1>2 DEF ApiInv, RevealAfterBroadcast
<1>4. CASE req' = [req EXCEPT ![q] = Done]
  BY <1>1, <1>2, <1>3, <1>4, DoneIsOK, HandlerStep
<1>5. CASE broadcast' = broadcast \cup {x.slot} /\ req' = [req EXCEPT ![q].pc = "accept"]
  <2> DEFINE y == [x EXCEPT !.pc = "accept"]
  <2>1. req' = [req EXCEPT ![q] = y]
    BY <1>5
  <2>2. x.pc = "publish" /\ RequestOK(x, clock, broadcast)
    BY DEF Publish, ApiInv, RequestsOK
  <2>3. x.slot \in broadcast'
    BY <1>5
  <2> HIDE DEF x
  <2>4. x = [pc |-> x.pc, dialect |-> x.dialect, slot |-> x.slot]
    BY <2>2 DEF RequestOK
  <2>5. y.pc = "accept" /\ y.slot = x.slot
    BY <2>4
  <2> HIDE DEF y
  <2>6. RequestOK(y, clock, broadcast') /\ y.pc # "store"
    BY <2>3, <2>5 DEF RequestOK, Bidding
  <2> QED BY <1>1, <1>2, <1>3, <2>1, <2>6, HandlerStep
<1> QED BY <1>4, <1>5 DEF Publish

LEMMA AcceptKeeps ==
    ASSUME ApiInv, NEW q \in Requests, Accept(q)
    PROVE  ApiInv' /\ RowsStay
<1>1. clock' = clock /\ broadcast' = broadcast /\ Backed' = Backed
      /\ bids' = bids /\ UNCHANGED artifactVars /\ req' = [req EXCEPT ![q] = Done]
  BY DEF Accept, envVars, recordVars, Backed
<1>2. req[q].slot \in broadcast
  BY DEF Accept, ApiInv, RequestsOK, RequestOK
<1>3. revealing' \subseteq broadcast'
  BY <1>1, <1>2 DEF Accept, ApiInv, RevealAfterBroadcast
<1>4. broadcast \subseteq broadcast' /\ bids' \in Nat
  BY <1>1 DEF ApiInv
<1> QED BY <1>1, <1>3, <1>4, DoneIsOK, HandlerStep

LEMMA StoresKeep ==
    ASSUME ApiInv, NEW q \in Requests,
           \/ \E b, valid : RegisterValidators(q, b, valid)
           \/ \E v, amount, auth : SubmitPreferences(q, v, amount, auth)
    PROVE  ApiInv' /\ RowsStay
<1>1. clock' = clock /\ broadcast' = broadcast /\ revealing' = revealing /\ Backed' = Backed
      /\ bids' = bids /\ UNCHANGED artifactVars /\ req' = [req EXCEPT ![q] = Done]
  BY DEF RegisterValidators, SubmitPreferences, blockVars, recordVars, Backed
<1>2. broadcast \subseteq broadcast' /\ revealing' \subseteq broadcast' /\ bids' \in Nat
  BY <1>1 DEF ApiInv, RevealAfterBroadcast
<1> QED BY <1>1, <1>2, DoneIsOK, HandlerStep

\* A handler takes an index: the only step that adds a name.
LEMMA AllocateKeeps ==
    ASSUME ApiInv, NEW q \in Requests, Allocate(q)
    PROVE  ApiInv' /\ RowsStay
<1> DEFINE x == req[q]
           s == x.slot
           n == NextIndex(s)
           y == [pc |-> "store", slot |-> s, bid |-> x.bid, idx |-> n]
           K == <<s, "bid", n>>
<1>1. /\ clock' = clock /\ broadcast' = broadcast /\ revealing' = revealing /\ Backed' = Backed
      /\ bids' = bids /\ buffer' = buffer /\ writeQueue' = writeQueue /\ batch' = batch
      /\ table' = table /\ pruning' = pruning
      /\ req' = [req EXCEPT ![q] = y] /\ bidIdx' = Put(bidIdx, s, n + 1)
  BY DEF Allocate, AllocateIndex, envVars, recordVars, blockVars, Backed
<1>2. x.pc = "allocate" /\ RequestOK(x, clock, broadcast)
  BY DEF Allocate, ApiInv, RequestsOK
<1> HIDE DEF x
<1>3. s \in Int /\ x.bid.id \in Nat /\ s + HandlerSlots > clock /\ s <= clock + Ahead
  BY <1>2 DEF RequestOK, Bidding
<1>4. CounterOK(s) /\ NamesOK
  BY <1>3 DEF ApiInv, CountersOK
<1>5. n \in Nat /\ \A k, z : Named(k, z) /\ k[1] = s => k[3] < n
  BY <1>3, <1>4, NextIndexIsFree
<1>6. y.pc = "store" /\ y.slot = s /\ y.bid = x.bid /\ y.idx = n
  OBVIOUS
<1> HIDE DEF n, s, y
<1>7. RequestOK(y, clock, broadcast')
  BY <1>3, <1>5, <1>6 DEF RequestOK, Bidding
<1>8. RequestsOK' /\ \A p \in Requests : req'[p] = IF p = q THEN y ELSE req[p]
  BY <1>1, <1>7, RequestMoves DEF ApiInv
\* The new name, and only it.
<1>9. ASSUME NEW k, NEW z, Named(k, z)' PROVE Named(k, z) \/ (k = K /\ z = x.bid.id)
  <2>1. CASE \E p \in Requests : req'[p].pc = "store" /\ k = <<req'[p].slot, "bid", req'[p].idx>> /\ z = req'[p].bid.id
    <3>1. PICK p \in Requests : req'[p].pc = "store" /\ k = <<req'[p].slot, "bid", req'[p].idx>> /\ z = req'[p].bid.id
      BY <2>1
    <3>2. CASE p = q
      BY <1>6, <1>8, <3>1, <3>2
    <3>3. CASE p # q
      <4>1. req'[p] = req[p]
        BY <1>8, <3>3
      <4> QED BY <3>1, <4>1 DEF Named
    <3> QED BY <3>2, <3>3
  <2>2. CASE ~\E p \in Requests : req'[p].pc = "store" /\ k = <<req'[p].slot, "bid", req'[p].idx>> /\ z = req'[p].bid.id
    BY <1>1, <1>9, <2>2 DEF Named
  <2> QED BY <2>1, <2>2
<1>10. K \in Key /\ K[1] = s /\ K[3] = n
  BY <1>3, <1>5 DEF Key
<1> HIDE DEF K
<1>11. \A z : ~Named(K, z)
  <2> SUFFICES ASSUME NEW z, Named(K, z) PROVE FALSE
    OBVIOUS
  <2>1. n < n
    BY <1>5, <1>10
  <2> QED BY <1>5, <2>1
<1>12. NamesOK'
  <2>1. \A k, z : Named(k, z)' => k \in Key
    BY <1>4, <1>9, <1>10 DEF NamesOK
  <2>2. \E m \in Nat : \A k, z : Named(k, z)' => k[3] <= m
    <3>1. PICK m \in Nat : \A k, z : Named(k, z) => k[3] <= m
      BY <1>4 DEF NamesOK
    <3>2. m + n \in Nat
      BY <1>5
    <3>3. ASSUME NEW k, NEW z, Named(k, z)' PROVE k[3] <= m + n
      <4>1. CASE Named(k, z)
        <5>1. k[3] \in Nat
          BY <1>4, <4>1 DEF NamesOK, Key
        <5>2. k[3] <= m
          BY <3>1, <4>1
        <5> QED BY <1>5, <5>1, <5>2
      <4>2. CASE k = K
        BY <1>5, <1>10, <4>2
      <4> QED BY <1>9, <3>3, <4>1, <4>2
    <3> QED BY <3>2, <3>3
  <2>3. ASSUME NEW k, NEW z, NEW w, Named(k, z)', Named(k, w)' PROVE z = w
    <3>1. CASE k = K
      BY <1>9, <1>11, <2>3, <3>1
    <3>2. CASE k # K
      <4>1. Named(k, z) /\ Named(k, w)
        BY <1>9, <2>3, <3>2
      <4> QED BY <1>4, <4>1 DEF NamesOK
    <3> QED BY <3>1, <3>2
  <2> QED BY <2>1, <2>2, <2>3 DEF NamesOK, Key
<1>13. CountersOK'
  <2> SUFFICES ASSUME NEW t \in Int, t + HandlerSlots > clock PROVE CounterOK(t)'
    BY <1>1 DEF CountersOK
  <2>1. /\ DOMAIN bidIdx' = DOMAIN bidIdx \cup {s} /\ bidIdx'[s] = n + 1
        /\ \A u \in DOMAIN bidIdx : u # s => bidIdx'[u] = bidIdx[u]
    BY <1>1 DEF Put
  <2>2. CASE t = s
    <3>1. ASSUME NEW k, NEW z, Named(k, z)', k[1] = s PROVE k[3] < n + 1
      <4>1. CASE Named(k, z)
        <5>1. k[3] \in Nat /\ k[3] < n
          BY <1>4, <1>5, <3>1, <4>1 DEF NamesOK, Key
        <5> QED BY <1>5, <5>1
      <4>2. CASE k = K
        BY <1>5, <1>10, <4>2
      <4> QED BY <1>9, <3>1, <4>1, <4>2
    <3>2. n + 1 \in Nat
      BY <1>5
    <3> QED BY <2>1, <2>2, <3>1, <3>2 DEF CounterOK
  <2>3. CASE t # s
    <3>1. \A k, z : Named(k, z)' /\ k[1] = t => Named(k, z)
      BY <1>9, <1>10, <2>3
    <3>2. CounterOK(t)
      BY DEF ApiInv, CountersOK
    <3>3. CASE t \in DOMAIN bidIdx
      <4>1. bidIdx[t] \in Nat /\ \A k, z : Named(k, z) /\ k[1] = t => k[3] < bidIdx[t]
        BY <3>2, <3>3 DEF CounterOK
      <4>2. t \in DOMAIN bidIdx' /\ bidIdx'[t] = bidIdx[t]
        BY <2>1, <2>3, <3>3
      <4>3. \A k, z : Named(k, z)' /\ k[1] = t => k[3] < bidIdx'[t]
        BY <3>1, <4>1, <4>2
      <4> QED BY <4>1, <4>2, <4>3 DEF CounterOK
    <3>4. CASE t \notin DOMAIN bidIdx
      <4>1. \A k, z : Named(k, z) /\ k[1] = t => k \in DOMAIN table
        BY <3>2, <3>4 DEF CounterOK
      <4>2. t \notin DOMAIN bidIdx'
        BY <2>1, <2>3, <3>4
      <4>3. \A k, z : Named(k, z)' /\ k[1] = t => k \in DOMAIN table'
        BY <1>1, <3>1, <4>1
      <4> QED BY <4>2, <4>3 DEF CounterOK
    <3> QED BY <3>3, <3>4
  <2> QED BY <2>2, <2>3
<1>14. StoreOK'
  BY <1>1 DEF ApiInv, StoreOK, Row, Key
<1>15. RowsStay
  BY <1>1 DEF RowsStay
<1>16. clock' \in Nat /\ bids' \in Nat /\ RevealAfterBroadcast'
  BY <1>1 DEF ApiInv, RevealAfterBroadcast
<1> QED BY <1>8, <1>12, <1>13, <1>14, <1>15, <1>16 DEF ApiInv

\* ... and stores the bid under it.
LEMMA StoreBidKeeps ==
    ASSUME ApiInv, NEW q \in Requests, StoreBid(q)
    PROVE  ApiInv' /\ RowsStay
<1> DEFINE x == req[q]
           s == x.slot
           id == x.bid.id
           J == <<"bid", x.idx>>
           kinds == IF s \in DOMAIN buffer THEN buffer[s] ELSE Empty
           old == Oldest(s)
           D == (DOMAIN buffer \cup {s}) \ old
           row == [key |-> <<s, "bid", x.idx>>, data |-> id]
<1>1. /\ clock' = clock /\ broadcast' = broadcast /\ revealing' = revealing /\ bids' = bids
      /\ batch' = batch /\ table' = table /\ pruning' = pruning
      /\ req' = [req EXCEPT ![q] = Done]
      /\ \A a \in Backed' : a \in Backed \/ a = [slot |-> s, bid |-> id, idx |-> IF Queued THEN x.idx ELSE -1]
  BY DEF StoreBid, Capture, envVars, blockVars, Backed
<1>2. /\ buffer' = Drop(Put(buffer, s, Put(kinds, J, id)), old) /\ bidIdx' = Drop(bidIdx, old)
      /\ writeQueue' = IF Len(writeQueue) < QueueCap THEN Append(writeQueue, row) ELSE writeQueue
  BY DEF StoreBid, Capture
<1>3. x.pc = "store" /\ RequestOK(x, clock, broadcast)
  BY DEF StoreBid, ApiInv, RequestsOK
<1>4. Named(<<s, "bid", x.idx>>, id)
  BY <1>3 DEF Named
<1> HIDE DEF x
<1>5. s \in Int /\ id \in Nat /\ s + HandlerSlots > clock /\ s <= clock + Ahead /\ x.idx \in Nat
  BY <1>3 DEF RequestOK, Bidding
<1>6. clock \in Nat /\ StoreOK
  BY DEF ApiInv
<1>7. \A t \in old : t \in Int /\ t + HandlerSlots <= clock
  BY <1>5, <1>6, OldestAreOld
<1>8. RequestsOK' /\ \A p \in Requests : req'[p] = IF p = q THEN Done ELSE req[p]
  BY <1>1, DoneIsOK, RequestMoves DEF ApiInv
<1>9. Done.pc # "store"
  BY DoneIsOK
<1>10. /\ DOMAIN buffer' = D /\ buffer' = [t \in DOMAIN buffer' |-> buffer'[t]]
       /\ \A t \in D : buffer'[t] = IF t = s THEN Put(kinds, J, id) ELSE buffer[t]
  BY <1>2 DEF Drop, Restrict, Put
<1>11. row \in Row /\ row.key = <<s, "bid", x.idx>> /\ row.data = id
  BY <1>5 DEF Row, Key
<1>12. writeQueue \in Seq(Row)
  BY <1>6 DEF StoreOK
<1> HIDE DEF row, old, D
<1>13. /\ writeQueue' \in Seq(Row)
       /\ \A i \in DOMAIN writeQueue' : writeQueue'[i] = row \/ (i \in DOMAIN writeQueue /\ writeQueue'[i] = writeQueue[i])
  <2>1. CASE Len(writeQueue) < QueueCap
    <3>1. writeQueue' = Append(writeQueue, row)
      BY <1>2, <2>1
    <3>2. writeQueue' \in Seq(Row)
      BY <1>11, <1>12, <3>1
    <3>3. ASSUME NEW i \in DOMAIN writeQueue'
          PROVE  writeQueue'[i] = row \/ (i \in DOMAIN writeQueue /\ writeQueue'[i] = writeQueue[i])
      BY <1>11, <1>12, <3>1
    <3> QED BY <3>2, <3>3
  <2>2. CASE ~(Len(writeQueue) < QueueCap)
    BY <1>2, <1>12, <2>2
  <2> QED BY <2>1, <2>2
<1>14. ASSUME NEW t \in D, NEW j \in DOMAIN buffer'[t]
       PROVE  Named(<<t, j[1], j[2]>>, buffer'[t][j])
  <2>1. CASE t # s
    <3>1. t \in DOMAIN buffer /\ buffer'[t] = buffer[t]
      BY <1>10, <2>1 DEF D
    <3> QED BY <1>14, <3>1 DEF Named
  <2>2. CASE t = s /\ j = J
    <3>1. buffer'[t][j] = id
      BY <1>10, <2>2 DEF Put
    <3>2. j[1] = "bid" /\ j[2] = x.idx
      BY <2>2
    <3> QED BY <1>4, <2>2, <3>1, <3>2
  <2>3. CASE t = s /\ j # J
    <3>1. j \in DOMAIN kinds /\ buffer'[t][j] = kinds[j]
      BY <1>10, <1>14, <2>3 DEF Put
    <3>2. s \in DOMAIN buffer
      BY <3>1 DEF Empty
    <3>3. kinds = buffer[s]
      BY <3>2
    <3> QED BY <2>3, <3>1, <3>2, <3>3 DEF Named
  <2> QED BY <2>1, <2>2, <2>3
<1>15. NamesShrink
  <2> SUFFICES ASSUME NEW k, NEW z, Named(k, z)' PROVE Named(k, z)
    BY DEF NamesShrink
  <2>1. CASE \E t \in DOMAIN buffer' : \E j \in DOMAIN buffer'[t] : k = <<t, j[1], j[2]>> /\ z = buffer'[t][j]
    BY <1>10, <1>14, <2>1
  <2>2. CASE \E i \in DOMAIN writeQueue' : k = writeQueue'[i].key /\ z = writeQueue'[i].data
    <3>1. PICK i \in DOMAIN writeQueue' : k = writeQueue'[i].key /\ z = writeQueue'[i].data
      BY <2>2
    <3>2. CASE writeQueue'[i] = row
      BY <1>4, <1>11, <3>1, <3>2
    <3>3. CASE i \in DOMAIN writeQueue /\ writeQueue'[i] = writeQueue[i]
      BY <3>1, <3>3 DEF Named
    <3> QED BY <1>13, <3>2, <3>3
  <2>3. CASE \E p \in Requests : req'[p].pc = "store" /\ k = <<req'[p].slot, "bid", req'[p].idx>> /\ z = req'[p].bid.id
    <3>1. PICK p \in Requests : req'[p].pc = "store" /\ k = <<req'[p].slot, "bid", req'[p].idx>> /\ z = req'[p].bid.id
      BY <2>3
    <3>2. req'[p] = req[p]
      BY <1>8, <1>9, <3>1
    <3> QED BY <3>1, <3>2 DEF Named
  <2>4. CASE \E a \in Backed' : a.idx >= 0 /\ k = <<a.slot, "bid", a.idx>> /\ z = a.bid
    <3>1. PICK a \in Backed' : a.idx >= 0 /\ k = <<a.slot, "bid", a.idx>> /\ z = a.bid
      BY <2>4
    <3>2. CASE a \in Backed
      BY <3>1, <3>2 DEF Named
    <3>3. CASE a = [slot |-> s, bid |-> id, idx |-> IF Queued THEN x.idx ELSE -1]
      <4>1. a.slot = s /\ a.bid = id /\ a.idx = IF Queued THEN x.idx ELSE -1
        BY <3>3
      <4>2. a.idx = x.idx
        BY <3>1, <4>1
      <4> QED BY <1>4, <3>1, <4>1, <4>2
    <3> QED BY <1>1, <3>1, <3>2, <3>3
  <2>5. CASE (\E i \in DOMAIN batch' : k = batch'[i].key /\ z = batch'[i].data) \/ (k \in DOMAIN table' /\ z = table'[k])
    BY <1>1, <2>5 DEF Named
  <2> QED BY <2>1, <2>2, <2>3, <2>4, <2>5 DEF Named
<1>16. NamesOK' /\ RowsStay
  BY <1>15, NamesKeep DEF ApiInv
<1>17. CountersOK'
  <2>1. ASSUME NEW t \in Int, t + HandlerSlots > clock'
        PROVE  /\ t \in DOMAIN bidIdx' <=> t \in DOMAIN bidIdx
               /\ t \in DOMAIN bidIdx => bidIdx'[t] = bidIdx[t]
               /\ \A k \in DOMAIN table : k[1] = t => k \in DOMAIN table'
    <3>1. t \notin old
      BY <1>1, <1>6, <1>7, <2>1, ApiConstants
    <3> QED BY <1>1, <1>2, <3>1 DEF Drop, Restrict
  <2> QED BY <1>1, <1>6, <1>15, <2>1, CountersKeep DEF ApiInv
<1>18. StoreOK'
  <2>1. IsFiniteSet(D)
    <3>1. IsFiniteSet(DOMAIN buffer \cup {s})
      BY <1>6, FS_AddElement DEF StoreOK
    <3> QED BY <3>1, FS_Subset DEF D
  <2>2. \A t \in D : t \in Int /\ t <= clock' + Ahead
    BY <1>1, <1>5, <1>6 DEF D, StoreOK
  <2>3. batch' \in Seq(Row) /\ pruning' \in Int /\ (pruning' # 0 => pruning' + HandlerSlots <= clock' + 1)
    BY <1>1, <1>6 DEF StoreOK
  <2> QED BY <1>10, <1>13, <2>1, <2>2, <2>3 DEF StoreOK, Row, Key
<1> QED BY <1>1, <1>8, <1>16, <1>17, <1>18 DEF ApiInv, RevealAfterBroadcast

-----------------------------------------------------------------------------
(* The writer, pruning and restarts.                                       *)

\* A row of the table after a batch is one of the table before or one of the batch.
LEMMA InsertedFacts ==
    ASSUME NEW rows \in Seq(Row)
    PROVE  /\ DOMAIN table \subseteq DOMAIN Inserted(rows)
           /\ \A i \in DOMAIN rows : rows[i].key \in DOMAIN Inserted(rows)
           /\ \A k \in DOMAIN Inserted(rows) :
                \/ k \in DOMAIN table /\ Inserted(rows)[k] = table[k]
                \/ \E i \in DOMAIN rows : rows[i].key = k /\ Inserted(rows)[k] = rows[i].data
<1> DEFINE E == DOMAIN table \cup {rows[i].key : i \in DOMAIN rows}
           T == Inserted(rows)
<1>1. T = [k \in E |-> IF RowsOf(rows, k) = {} THEN table[k] ELSE rows[Max(RowsOf(rows, k))].data]
  BY DEF Inserted
<1>2. DOMAIN T = E /\ \A k \in E : T[k] = IF RowsOf(rows, k) = {} THEN table[k] ELSE rows[Max(RowsOf(rows, k))].data
  BY <1>1
<1> HIDE DEF T
<1>3. DOMAIN table \subseteq E /\ \A i \in DOMAIN rows : rows[i].key \in E
  OBVIOUS
<1>4. ASSUME NEW k \in E
      PROVE  \/ k \in DOMAIN table /\ T[k] = table[k]
             \/ \E i \in DOMAIN rows : rows[i].key = k /\ T[k] = rows[i].data
  <2>1. CASE RowsOf(rows, k) = {}
    <3>1. k \in DOMAIN table
      BY <2>1 DEF RowsOf
    <3> QED BY <1>2, <2>1, <3>1
  <2>2. CASE RowsOf(rows, k) # {}
    <3>1. Len(rows) \in Nat /\ DOMAIN rows = 1 .. Len(rows)
      OBVIOUS
    <3>2. RowsOf(rows, k) \in SUBSET Nat /\ \A i \in RowsOf(rows, k) : i <= Len(rows)
      BY <3>1 DEF RowsOf
    <3>3. Max(RowsOf(rows, k)) \in RowsOf(rows, k)
      BY <2>2, <3>1, <3>2, MaxOfBounded
    <3>4. Max(RowsOf(rows, k)) \in DOMAIN rows /\ rows[Max(RowsOf(rows, k))].key = k
      BY <3>3 DEF RowsOf
    <3> QED BY <1>2, <2>2, <3>4
  <2> QED BY <2>1, <2>2
<1> QED BY <1>2, <1>3, <1>4 DEF T

\* The writer has a batch of named rows written, or not; nothing else but its queue
\* changes.
LEMMA WriterStep ==
    ASSUME ApiInv, NEW rows \in Seq(Row), \A i \in DOMAIN rows : Named(rows[i].key, rows[i].data),
           table' \in {Inserted(rows), table},
           batch' \in Seq(Row), \A i \in DOMAIN batch' : Named(batch'[i].key, batch'[i].data),
           writeQueue' \in Seq(Row), \A i \in DOMAIN writeQueue' : Named(writeQueue'[i].key, writeQueue'[i].data),
           UNCHANGED <<buffer, bidIdx, pruning, clock, broadcast, revealing, bids, req>>, Backed' = Backed
    PROVE  ApiInv' /\ RowsStay
<1>1. /\ DOMAIN table \subseteq DOMAIN table'
      /\ \A k \in DOMAIN table' : Named(k, table'[k])
  <2>1. CASE table' = table
    BY <2>1 DEF Named
  <2>2. CASE table' = Inserted(rows)
    <3>1. DOMAIN table \subseteq DOMAIN table'
      BY <2>2, InsertedFacts
    <3>2. ASSUME NEW k \in DOMAIN table' PROVE Named(k, table'[k])
      <4>1. CASE k \in DOMAIN table /\ table'[k] = table[k]
        BY <4>1 DEF Named
      <4>2. CASE \E i \in DOMAIN rows : rows[i].key = k /\ table'[k] = rows[i].data
        BY <4>2
      <4> QED BY <2>2, <3>2, <4>1, <4>2, InsertedFacts
    <3> QED BY <3>1, <3>2
  <2> QED BY <2>1, <2>2
<1>2. NamesShrink
  <2> SUFFICES ASSUME NEW k, NEW z, Named(k, z)' PROVE Named(k, z)
    BY DEF NamesShrink
  <2>1. CASE k \in DOMAIN table' /\ z = table'[k]
    BY <1>1, <2>1
  <2>2. CASE \E i \in DOMAIN batch' : k = batch'[i].key /\ z = batch'[i].data
    BY <2>2
  <2>3. CASE \E i \in DOMAIN writeQueue' : k = writeQueue'[i].key /\ z = writeQueue'[i].data
    BY <2>3
  <2>4. CASE \/ \E s \in DOMAIN buffer' : \E j \in DOMAIN buffer'[s] : k = <<s, j[1], j[2]>> /\ z = buffer'[s][j]
             \/ \E q \in Requests : req'[q].pc = "store" /\ k = <<req'[q].slot, "bid", req'[q].idx>> /\ z = req'[q].bid.id
             \/ \E a \in Backed' : a.idx >= 0 /\ k = <<a.slot, "bid", a.idx>> /\ z = a.bid
    BY <2>4 DEF Named
  <2> QED BY <2>1, <2>2, <2>3, <2>4 DEF Named
<1>3. NamesOK' /\ RowsStay
  BY <1>2, NamesKeep DEF ApiInv
<1>4. CountersOK'
  BY <1>1, <1>2, CountersKeep DEF ApiInv
<1>5. StoreOK'
  BY DEF ApiInv, StoreOK, Row, Key
<1>6. RequestsOK'
  BY DEF ApiInv, RequestsOK
<1> QED BY <1>3, <1>4, <1>5, <1>6 DEF ApiInv, RevealAfterBroadcast

LEMMA WriterKeeps ==
    ASSUME ApiInv, Writer
    PROVE  ApiInv' /\ RowsStay
<1>1. UNCHANGED <<clock, broadcast, revealing, bids, req>> /\ Backed' = Backed
  BY DEF Writer, envVars, blockVars, recordVars, Backed
<1>2. writeQueue \in Seq(Row) /\ batch \in Seq(Row)
  BY DEF ApiInv, StoreOK
<1>3. /\ \A i \in DOMAIN writeQueue : Named(writeQueue[i].key, writeQueue[i].data)
      /\ \A i \in DOMAIN batch : Named(batch[i].key, batch[i].data)
  BY DEF Named
<1>4. <<>> \in Seq(Row) /\ \A i \in DOMAIN <<>> : Named(<<>>[i].key, <<>>[i].data)
  OBVIOUS
<1>5. CASE WriterTakes
  <2> DEFINE h == Head(writeQueue)
             rows == Append(batch, h)
  <2>1. writeQueue # <<>> /\ writeQueue' = Tail(writeQueue) /\ UNCHANGED <<buffer, bidIdx, pruning>>
    BY <1>5 DEF WriterTakes
  <2>2. h \in Row /\ Named(h.key, h.data)
    <3>1. h = writeQueue[1] /\ 1 \in DOMAIN writeQueue
      BY <1>2, <2>1
    <3> QED BY <1>2, <1>3, <3>1
  <2> HIDE DEF h
  <2>3. rows \in Seq(Row) /\ \A i \in DOMAIN rows : Named(rows[i].key, rows[i].data)
    <3>1. rows \in Seq(Row)
      BY <1>2, <2>2
    <3>2. ASSUME NEW i \in DOMAIN rows PROVE rows[i] = h \/ (i \in DOMAIN batch /\ rows[i] = batch[i])
      BY <1>2, <2>2
    <3> HIDE DEF rows
    <3> QED BY <1>3, <2>2, <3>1, <3>2
  <2>4. writeQueue' \in Seq(Row) /\ \A i \in DOMAIN writeQueue' : Named(writeQueue'[i].key, writeQueue'[i].data)
    <3>1. writeQueue' \in Seq(Row)
      BY <1>2, <2>1
    <3>2. ASSUME NEW i \in DOMAIN writeQueue' PROVE i + 1 \in DOMAIN writeQueue /\ writeQueue'[i] = writeQueue[i + 1]
      BY <1>2, <2>1
    <3> QED BY <1>3, <3>1, <3>2
  <2>5. \/ batch' = <<>> /\ table' \in {Inserted(rows), table}
        \/ batch' = rows /\ table' = table
    BY <1>5 DEF WriterTakes, Flush, h
  <2> HIDE DEF rows
  <2>6. batch' \in Seq(Row) /\ \A i \in DOMAIN batch' : Named(batch'[i].key, batch'[i].data)
    BY <1>4, <2>3, <2>5
  <2>7. table' \in {Inserted(rows), table}
    BY <2>5
  <2> QED BY <1>1, <2>1, <2>3, <2>4, <2>6, <2>7, WriterStep
<1>6. CASE WriterTicks
  <2>1. batch' = <<>> /\ table' \in {Inserted(batch), table} /\ writeQueue' = writeQueue
        /\ UNCHANGED <<buffer, bidIdx, pruning>>
    BY <1>6 DEF WriterTicks, Flush
  <2>2. batch' \in Seq(Row) /\ \A i \in DOMAIN batch' : Named(batch'[i].key, batch'[i].data)
    BY <1>4, <2>1
  <2>3. writeQueue' \in Seq(Row) /\ \A i \in DOMAIN writeQueue' : Named(writeQueue'[i].key, writeQueue'[i].data)
    BY <1>2, <1>3, <2>1
  <2> QED BY <1>1, <1>2, <1>3, <2>1, <2>2, <2>3, WriterStep
<1> QED BY <1>5, <1>6 DEF Writer

\* PruneBefore takes slots only that no handler works on any more.
LEMMA PruneKeeps ==
    ASSUME ApiInv, Prune
    PROVE  ApiInv' /\ RowsStay
<1>1. UNCHANGED <<clock, broadcast, revealing, bids, req, writeQueue, batch>> /\ Backed' = Backed
  BY DEF Prune, envVars, blockVars, recordVars, PruneTable, PruneBuffer, Backed
<1>2. clock \in Nat /\ HandlerSlots \in Nat /\ Retention \in Nat /\ HandlerSlots <= Retention + 1
  BY ApiConstants DEF ApiInv
<1>3. RequestsOK'
  BY <1>1 DEF ApiInv, RequestsOK
<1>4. CASE PruneBuffer(clock - Retention)
  <2> DEFINE cutoff == clock - Retention
             gone == {s \in DOMAIN buffer : s < cutoff}
  <2>1. buffer' = Drop(buffer, gone) /\ bidIdx' = Drop(bidIdx, gone) /\ table' = table /\ pruning' = cutoff
    BY <1>4 DEF PruneBuffer
  <2>2. /\ DOMAIN buffer' = DOMAIN buffer \ gone /\ buffer' = [s \in DOMAIN buffer' |-> buffer'[s]]
        /\ \A s \in DOMAIN buffer' : buffer'[s] = buffer[s]
        /\ DOMAIN bidIdx' = DOMAIN bidIdx \ gone
        /\ \A s \in DOMAIN bidIdx' : bidIdx'[s] = bidIdx[s]
    <3> HIDE DEF gone
    <3> QED BY <2>1 DEF Drop, Restrict
  <2>3. NamesShrink
    <3> SUFFICES ASSUME NEW k, NEW z, Named(k, z)' PROVE Named(k, z)
      BY DEF NamesShrink
    <3>1. CASE \E s \in DOMAIN buffer' : \E j \in DOMAIN buffer'[s] : k = <<s, j[1], j[2]>> /\ z = buffer'[s][j]
      <4>1. PICK s \in DOMAIN buffer' : \E j \in DOMAIN buffer'[s] : k = <<s, j[1], j[2]>> /\ z = buffer'[s][j]
        BY <3>1
      <4>2. s \in DOMAIN buffer /\ buffer'[s] = buffer[s]
        BY <2>2
      <4> QED BY <4>1, <4>2 DEF Named
    <3> QED BY <1>1, <2>1, <3>1 DEF Named
  <2>4. NamesOK' /\ RowsStay
    BY <2>3, NamesKeep DEF ApiInv
  <2>5. CountersOK'
    <3>1. ASSUME NEW s \in Int, s + HandlerSlots > clock'
          PROVE  /\ s \in DOMAIN bidIdx' <=> s \in DOMAIN bidIdx
                 /\ s \in DOMAIN bidIdx => bidIdx'[s] = bidIdx[s]
                 /\ \A k \in DOMAIN table : k[1] = s => k \in DOMAIN table'
      <4>1. ~(s < cutoff)
        BY <1>1, <1>2, <3>1
      <4> QED BY <2>1, <2>2, <4>1
    <3> QED BY <1>1, <1>2, <2>3, <3>1, CountersKeep DEF ApiInv
  <2>6. StoreOK'
    <3>1. IsFiniteSet(DOMAIN buffer')
      BY <2>2, FS_Subset DEF ApiInv, StoreOK
    <3>2. \A s \in DOMAIN buffer' : s \in Int /\ s <= clock' + Ahead
      BY <1>1, <2>2 DEF ApiInv, StoreOK
    <3>3. pruning' \in Int /\ pruning' + HandlerSlots <= clock' + 1
      BY <1>1, <1>2, <2>1
    <3>4. writeQueue' \in Seq(Row) /\ batch' \in Seq(Row)
      BY <1>1 DEF ApiInv, StoreOK
    <3> QED BY <2>2, <3>1, <3>2, <3>3, <3>4 DEF StoreOK, Row, Key
  <2> QED BY <1>1, <1>3, <2>4, <2>5, <2>6 DEF ApiInv, RevealAfterBroadcast
<1>5. CASE PruneTable
  <2> DEFINE gone == {k \in DOMAIN table : k[1] < pruning}
  <2>1. buffer' = buffer /\ bidIdx' = bidIdx /\ table' \in {Drop(table, gone), table} /\ pruning' = 0 /\ pruning # 0
    BY <1>5 DEF PruneTable
  <2>2. /\ DOMAIN table \ gone \subseteq DOMAIN table' /\ DOMAIN table' \subseteq DOMAIN table
        /\ \A k \in DOMAIN table' : table'[k] = table[k]
    <3> HIDE DEF gone
    <3> QED BY <2>1 DEF Drop, Restrict
  <2>3. NamesShrink
    <3> SUFFICES ASSUME NEW k, NEW z, Named(k, z)' PROVE Named(k, z)
      BY DEF NamesShrink
    <3>1. CASE k \in DOMAIN table' /\ z = table'[k]
      BY <2>2, <3>1 DEF Named
    <3> QED BY <1>1, <2>1, <3>1 DEF Named
  <2>4. NamesOK' /\ RowsStay
    BY <2>3, NamesKeep DEF ApiInv
  <2>5. CountersOK'
    <3>1. ASSUME NEW s \in Int, s + HandlerSlots > clock'
          PROVE  \A k \in DOMAIN table : k[1] = s => k \in DOMAIN table'
      <4>1. pruning \in Int /\ pruning + HandlerSlots <= clock + 1
        BY <2>1 DEF ApiInv, StoreOK
      <4>2. ~(s < pruning)
        BY <1>1, <1>2, <3>1, <4>1
      <4> QED BY <2>2, <4>2
    <3> QED BY <1>1, <1>2, <2>1, <2>3, <3>1, CountersKeep DEF ApiInv
  <2>6. StoreOK'
    <3>1. \A s \in DOMAIN buffer' : s \in Int /\ s <= clock' + Ahead
      BY <1>1, <2>1 DEF ApiInv, StoreOK
    <3>2. writeQueue' \in Seq(Row) /\ batch' \in Seq(Row)
      BY <1>1 DEF ApiInv, StoreOK
    <3>3. buffer' = [s \in DOMAIN buffer' |-> buffer'[s]] /\ IsFiniteSet(DOMAIN buffer')
      BY <2>1 DEF ApiInv, StoreOK
    <3> QED BY <2>1, <3>1, <3>2, <3>3 DEF StoreOK, Row, Key
  <2> QED BY <1>1, <1>3, <2>4, <2>5, <2>6 DEF ApiInv, RevealAfterBroadcast
<1> QED BY <1>4, <1>5 DEF Prune

\* Stop and start: the table is all there is, and the records it does not back are orphans.
LEMMA RestartKeeps ==
    ASSUME ApiInv, NEW orderly, Restart(orderly)
    PROVE  ApiInv' /\ RowsStay
<1> DEFINE rows == batch \o writeQueue
<1>1. /\ buffer' = Empty /\ bidIdx' = Empty /\ writeQueue' = <<>> /\ batch' = <<>> /\ pruning' = 0
      /\ table' \in {Inserted(rows), table}
      /\ req' = [q \in Requests |-> IF req[q] = Fresh THEN Fresh ELSE [pc |-> "dead"]]
      /\ \A a \in Backed' : a \in Backed /\ <<a.slot, "bid", a.idx>> \in DOMAIN table'
      /\ UNCHANGED <<clock, broadcast, revealing, bids>>
  BY DEF Restart, Restarted, blockVars, Backed
<1>2. DOMAIN Empty = {} /\ Empty = [s \in {} |-> Empty[s]]
  BY DEF Empty
<1>3. rows \in Seq(Row) /\ \A i \in DOMAIN rows : Named(rows[i].key, rows[i].data)
  <2>1. batch \in Seq(Row) /\ writeQueue \in Seq(Row)
    BY DEF ApiInv, StoreOK
  <2>2. rows \in Seq(Row)
    BY <2>1
  <2>3. ASSUME NEW i \in DOMAIN rows
        PROVE  \/ i \in DOMAIN batch /\ rows[i] = batch[i]
               \/ \E j \in DOMAIN writeQueue : rows[i] = writeQueue[j]
    <3>1. Len(batch) \in Nat /\ Len(writeQueue) \in Nat /\ DOMAIN batch = 1 .. Len(batch)
          /\ DOMAIN writeQueue = 1 .. Len(writeQueue) /\ i \in 1 .. Len(batch) + Len(writeQueue)
      BY <2>1
    <3>2. CASE i <= Len(batch)
      BY <2>1, <3>1, <3>2
    <3>3. CASE i > Len(batch)
      <4>1. i - Len(batch) \in DOMAIN writeQueue /\ rows[i] = writeQueue[i - Len(batch)]
        BY <2>1, <3>1, <3>3
      <4> QED BY <4>1
    <3> QED BY <3>1, <3>2, <3>3
  <2> HIDE DEF rows
  <2> QED BY <2>2, <2>3 DEF Named
<1> HIDE DEF rows
<1>4. \A k \in DOMAIN table' : Named(k, table'[k])
  <2> TAKE k \in DOMAIN table'
  <2>1. CASE k \in DOMAIN table /\ table'[k] = table[k]
    BY <2>1 DEF Named
  <2>2. CASE \E i \in DOMAIN rows : rows[i].key = k /\ table'[k] = rows[i].data
    BY <1>3, <2>2
  <2> QED BY <1>1, <1>3, <2>1, <2>2, InsertedFacts
<1>5. \A q \in Requests : req'[q].pc \in {"new", "dead"}
  BY <1>1 DEF Fresh
<1>6. ASSUME NEW k, NEW z, Named(k, z)' PROVE Named(k, z) /\ k \in DOMAIN table'
  <2>1. \/ k \in DOMAIN table' /\ z = table'[k]
        \/ \E a \in Backed' : a.idx >= 0 /\ k = <<a.slot, "bid", a.idx>> /\ z = a.bid
    BY <1>1, <1>2, <1>5, <1>6 DEF Named
  <2>2. CASE k \in DOMAIN table' /\ z = table'[k]
    BY <1>4, <2>2
  <2>3. CASE \E a \in Backed' : a.idx >= 0 /\ k = <<a.slot, "bid", a.idx>> /\ z = a.bid
    <3>1. PICK a \in Backed' : a.idx >= 0 /\ k = <<a.slot, "bid", a.idx>> /\ z = a.bid
      BY <2>3
    <3>2. a \in Backed /\ k \in DOMAIN table'
      BY <1>1, <3>1
    <3> QED BY <3>1, <3>2 DEF Named
  <2> QED BY <2>1, <2>2, <2>3
<1>7. NamesOK' /\ RowsStay
  BY <1>6, NamesKeep DEF ApiInv, NamesShrink
<1>8. CountersOK'
  BY <1>1, <1>2, <1>6 DEF CountersOK, CounterOK
<1>9. StoreOK'
  BY <1>1, <1>2, FS_EmptySet DEF StoreOK
<1>10. RequestsOK'
  <2>1. DOMAIN req' = Requests /\ req' = [q \in Requests |-> req'[q]]
    BY <1>1
  <2> QED BY <1>5, <2>1 DEF RequestsOK, RequestOK, Bidding
<1> QED BY <1>1, <1>7, <1>8, <1>9, <1>10 DEF ApiInv, RevealAfterBroadcast

\* The next slot: the handlers that still run are within reach of theirs.
LEMMA ClockTicksKeeps ==
    ASSUME ApiInv, ClockTicks
    PROVE  ApiInv' /\ RowsStay
<1>1. /\ clock' = clock + 1 /\ UNCHANGED <<broadcast, revealing, bids, req, bidIdx, table>> /\ Backed' = Backed
      /\ UNCHANGED <<buffer, writeQueue, batch, pruning>>
      /\ \A q \in Requests : Running(q) => req[q].slot + HandlerSlots > clock + 1
  BY DEF ClockTicks, rest, blockVars, recordVars, artifactVars, Backed
<1>2. clock \in Nat /\ clock' \in Nat /\ clock' >= clock /\ HandlerSlots \in Nat /\ Ahead \in Int
  BY <1>1, ApiConstants DEF ApiInv
<1>3. NamesShrink
  BY <1>1 DEF NamesShrink, Named
<1>4. NamesOK' /\ RowsStay
  BY <1>3, NamesKeep DEF ApiInv
<1>5. CountersOK'
  BY <1>1, <1>2, <1>3, CountersKeep DEF ApiInv
<1>6. StoreOK'
  <2>1. \A s \in DOMAIN buffer' : s \in Int /\ s <= clock' + Ahead
    BY <1>1, <1>2 DEF ApiInv, StoreOK
  <2>2. pruning' \in Int /\ (pruning' # 0 => pruning' + HandlerSlots <= clock' + 1)
    BY <1>1, <1>2 DEF ApiInv, StoreOK
  <2> QED BY <1>1, <2>1, <2>2 DEF ApiInv, StoreOK, Row, Key
<1>7. ASSUME NEW q \in Requests PROVE RequestOK(req[q], clock', broadcast)
  <2>1. RequestOK(req[q], clock, broadcast)
    BY DEF ApiInv, RequestsOK
  <2>2. req[q].pc \in Bidding => req[q].slot + HandlerSlots > clock'
    BY <1>1 DEF Running, Bidding
  <2>3. req[q].pc \in Bidding => req[q].slot <= clock' + Ahead
    BY <1>1, <1>2, <2>1 DEF RequestOK
  <2> QED BY <2>1, <2>2, <2>3 DEF RequestOK
<1>8. RequestsOK'
  BY <1>1, <1>7 DEF ApiInv, RequestsOK
<1> QED BY <1>1, <1>2, <1>4, <1>5, <1>6, <1>8 DEF ApiInv, RevealAfterBroadcast

\* Steps that leave all of it alone.
LEMMA ApiRests ==
    ASSUME ApiInv, UNCHANGED <<clock, req, broadcast, revealing, bids, artifactVars>>, Backed' = Backed
    PROVE  ApiInv' /\ RowsStay
<1>1. UNCHANGED <<buffer, bidIdx, writeQueue, batch, table, pruning>>
  BY DEF artifactVars
<1>2. NamesShrink
  BY <1>1 DEF NamesShrink, Named
<1>3. NamesOK' /\ RowsStay
  BY <1>2, NamesKeep DEF ApiInv
<1>4. CountersOK'
  BY <1>1, <1>2, CountersKeep DEF ApiInv
<1>5. StoreOK' /\ RequestsOK'
  BY <1>1 DEF ApiInv, StoreOK, RequestsOK, Row, Key
<1> QED BY <1>3, <1>4, <1>5 DEF ApiInv, RevealAfterBroadcast

-----------------------------------------------------------------------------
(* The Builder API as a whole.                                             *)

LEMMA ApiStart == ApiInit => ApiInv
<1> SUFFICES ASSUME ApiInit PROVE ApiInv
  OBVIOUS
<1>1. /\ clock = 1 /\ req = [q \in Requests |-> Fresh] /\ Backed = {} /\ broadcast = {} /\ revealing = {} /\ bids = 0
      /\ buffer = Empty /\ bidIdx = Empty /\ table = Empty /\ writeQueue = <<>> /\ batch = <<>> /\ pruning = 0
  BY DEF ApiInit, ArtifactsInit, Backed
<1>2. DOMAIN Empty = {} /\ Empty = [s \in {} |-> Empty[s]]
  BY DEF Empty
<1>3. \A q \in Requests : req[q].pc = "new"
  BY <1>1 DEF Fresh
<1>4. \A k, x : ~Named(k, x)
  BY <1>1, <1>2, <1>3 DEF Named
<1>5. NamesOK /\ CountersOK
  BY <1>1, <1>2, <1>4 DEF NamesOK, CountersOK, CounterOK
<1>6. StoreOK
  BY <1>1, <1>2, FS_EmptySet DEF StoreOK
<1>7. RequestsOK
  BY <1>1, <1>3 DEF RequestsOK, RequestOK, Bidding
<1> QED BY <1>1, <1>5, <1>6, <1>7 DEF ApiInv, RevealAfterBroadcast

LEMMA ArrivesKeeps ==
    ASSUME ApiInv, NEW q \in Requests, Arrives(q)
    PROVE  ApiInv' /\ RowsStay
<1>1. CASE \E d \in Dialects, lead \in Leads, p \in Parents, v \in Validators, known \in SUBSET {"active", "auth", "preferences"} :
             GetBid(q, d, [slot |-> clock + lead, parent |-> p, validator |-> v, known |-> known])
  <2>1. PICK d \in Dialects, lead \in Leads, p \in Parents, v \in Validators, known \in SUBSET {"active", "auth", "preferences"} :
             GetBid(q, d, [slot |-> clock + lead, parent |-> p, validator |-> v, known |-> known])
    BY <1>1
  <2> DEFINE r == [slot |-> clock + lead, parent |-> p, validator |-> v, known |-> known]
  <2>2. r.slot = clock + lead
    OBVIOUS
  <2>3. GetBid(q, d, r)
    BY <2>1
  <2> HIDE DEF r
  <2> QED BY <2>2, <2>3, GetBidKeeps
<1>2. CASE \E d \in Dialects, s \in ApiSlots, p \in Parents : SubmitBlock(q, d, s, p)
  BY <1>2, SubmitBlockKeeps
<1>3. CASE \/ \E v, w \in Validators, valid \in SUBSET Validators : RegisterValidators(q, <<v, w>>, valid)
           \/ \E v \in Validators, amount \in Payments, a \in BOOLEAN : SubmitPreferences(q, v, amount, a)
  BY <1>3, StoresKeep
<1> QED BY <1>1, <1>2, <1>3 DEF Arrives

\* Every step keeps the invariant, and no row that stays is changed.
LEMMA ApiStep ==
    ASSUME ApiInv, ApiNext \/ UNCHANGED apiVars
    PROVE  ApiInv' /\ RowsStay
<1>1. CASE \E q \in Requests : Arrives(q)
  BY <1>1, ArrivesKeeps
<1>2. CASE \E q \in Requests : Continues(q)
  BY <1>2, RespondKeeps, RecordBidKeeps, AllocateKeeps, StoreBidKeeps, StoreBidFailsKeeps, AppendBidKeeps, PublishKeeps, AcceptKeeps
  DEF Continues
<1>3. CASE Writer
  BY <1>3, WriterKeeps
<1>4. CASE Prune
  BY <1>4, PruneKeeps
<1>5. CASE \E orderly \in BOOLEAN : Restart(orderly)
  BY <1>5, RestartKeeps
<1>6. CASE ClockTicks
  BY <1>6, ClockTicksKeeps
<1>7. CASE \E s \in ApiSlots, p \in Parents : PayloadReady(s, p)
  BY <1>7, ApiRests DEF PayloadReady, rest, recordVars, blockVars, Backed
<1>8. CASE UNCHANGED apiVars
  BY <1>8, ApiRests DEF apiVars, envVars, recordVars, blockVars, Backed
<1> QED BY <1>1, <1>2, <1>3, <1>4, <1>5, <1>6, <1>7, <1>8 DEF ApiNext

\* The requests, the indices and the artifacts they name keep to ApiInv, whatever the
\* order of the handlers, the writer, the pruning and the restarts.
THEOREM ApiInvariant == ApiSpec => []ApiInv
<1>1. ApiInit => ApiInv
  BY ApiStart
<1>2. ApiInv /\ [ApiNext]_apiVars => ApiInv'
  BY ApiStep
<1> QED BY <1>1, <1>2, PTL DEF ApiSpec

\* submitBeaconBlock: no payload is handed to the reveal service before the beacon node
\* was given the proposer's block.
THEOREM RevealsFollowBroadcast == ApiSpec => []RevealAfterBroadcast
<1>1. ApiInv => RevealAfterBroadcast
  BY DEF ApiInv
<1> QED BY <1>1, ApiInvariant, PTL

\* StoreBid and Get: the index recorded with a bid never serves another bid, over restarts
\* too, as long as none of them found the bid's artifact missing from the table.
THEOREM IndicesNameBids == ApiSpec => []IndexNamesBid
<1>1. ASSUME ApiInv PROVE IndexNamesBid
  <2> SUFFICES ASSUME NEW a \in Backed, NEW x \in GetSlotBidArtifact(a.slot, a.idx) PROVE x = a.bid
    BY DEF IndexNamesBid
  <2> DEFINE k == <<a.slot, "bid", a.idx>>
  <2>1. ~(a.idx < 0) /\ x \in Get(a.slot, "bid", a.idx)
    BY DEF GetSlotBidArtifact
  <2>2. Named(k, x)
    <3>1. CASE a.slot \in DOMAIN buffer /\ <<"bid", a.idx>> \in DOMAIN buffer[a.slot]
      <4>1. x = buffer[a.slot][<<"bid", a.idx>>]
        BY <2>1, <3>1 DEF Get
      <4>2. <<"bid", a.idx>>[1] = "bid" /\ <<"bid", a.idx>>[2] = a.idx
        OBVIOUS
      <4> QED BY <3>1, <4>1, <4>2 DEF Named
    <3>2. CASE ~(a.slot \in DOMAIN buffer /\ <<"bid", a.idx>> \in DOMAIN buffer[a.slot])
      <4>1. k \in DOMAIN table /\ x = table[k]
        BY <2>1, <3>2 DEF Get
      <4> QED BY <4>1 DEF Named
    <3> QED BY <3>1, <3>2
  <2>3. k \in Key
    BY <1>1, <2>2 DEF ApiInv, NamesOK
  <2>4. a.idx >= 0
    BY <2>3 DEF Key
  <2>5. Named(k, a.bid)
    BY <2>4 DEF Named
  <2> QED BY <1>1, <2>2, <2>5 DEF ApiInv, NamesOK
<1> QED BY <1>1, ApiInvariant, PTL

\* InsertSlotArtifacts: a bid that is in the table is never replaced by another one.
THEOREM RowsAreKept == ApiSpec => RowsKept
<1>1. ApiInv /\ [ApiNext]_apiVars => [RowsStay]_apiVars
  BY ApiStep
<1> QED BY <1>1, ApiInvariant, PTL DEF ApiSpec, RowsKept, RowsStay
=============================================================================
