---------------------------- MODULE MCHeadVotes ----------------------------
(* Slot 1 has two blocks and votes for their parent too, more roots than are *)
(* tracked; slot 2 is empty; the block of slot 3 carries the vote of slot 2  *)
(* and makes slot 1 stale.                                                   *)
EXTENDS HeadVotes

CONSTANTS p, a, b, c

MCBlockSlot == a :> 1 @@ b :> 1 @@ c :> 3
MCBlockVotes ==
    c :> {[slot |-> 2, root |-> a, members |-> {3}],
          [slot |-> 2, root |-> p, members |-> {3}]} @@ a :> {} @@ b :> {}
MCMembers == 0 :> {} @@ 1 :> {0, 1, 2} @@ 2 :> {3} @@ 3 :> {}
MCCommittee == 0 :> 0 @@ 1 :> 0 @@ 2 :> 1 @@ 3 :> 0
MCWeight == 0 :> 1 @@ 1 :> 1 @@ 2 :> 2 @@ 3 :> 1

Vote(s, r, v, ci) == [slot |-> s, root |-> r, validator |-> v, committee |-> ci]

\* Votes for head, fork and parent, a wrong committee, a voter of another slot.
MCVotes ==
    {Vote(1, a, 0, 0), Vote(1, b, 2, 1), Vote(1, a, 2, 1), Vote(1, b, 1, 1),
     Vote(1, p, 3, 0), Vote(1, p, 0, 0), Vote(2, a, 3, 0)}
=============================================================================
