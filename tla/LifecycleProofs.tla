-------------------------- MODULE LifecycleProofs --------------------------
(***************************************************************************)
(* Proofs about the wallet and the lifecycle manager.                      *)
(*                                                                         *)
(* The wallet keeps the safety half of its contract (TxCall): the first    *)
(* part shows by WalletInv that a call's transaction exists at most once,  *)
(* in the pool or on the chain, and the second maps every step to a step   *)
(* of the contract or to a stutter.  The third part is about the manager,  *)
(* the rest about its early deposits: the simulation of the queue is never *)
(* behind the chain, so what it does not reach the chain does not reach.   *)
(***************************************************************************)
EXTENDS Lifecycle, FiniteSetTheorems, SequenceTheorems, WellFoundedInduction, TLAPS

-----------------------------------------------------------------------------
(* The wallet's invariant.                                                 *)

CallPcs == {"idle", "lock", "build", "send", "poll", "gone", "included", "reverted", "failed"}

PooledAt(c, n) == n \in DOMAIN pool /\ pool[n] = c
MinedAt(c, i) == i \in DOMAIN chain /\ chain[i].of = c

\* The transaction of a call is nowhere; it is mined; it exists once at most.
Nowhere(c) == (\A n : ~PooledAt(c, n)) /\ (\A i : ~MinedAt(c, i))
Landed(c) == \E i : MinedAt(c, i)
Once(c) ==
    /\ \A m, n : PooledAt(c, m) /\ PooledAt(c, n) => m = n
    /\ \A i, j : MinedAt(c, i) /\ MinedAt(c, j) => i = j
    /\ Landed(c) => \A n : ~PooledAt(c, n)

\* Where the transaction of a call that is at pc, with its nonce, can be: nowhere before
\* it is sent and after resolve has seen it nowhere, at the call's nonce while it is
\* watched, and on the chain when the call says so.
CallInv(c) ==
    /\ Once(c)
    /\ call[c].pc \in {"idle", "lock", "build", "send", "gone"} => Nowhere(c)
    /\ call[c].pc = "poll" =>
         /\ \A n : PooledAt(c, n) => n = call[c].nonce
         /\ \A i : MinedAt(c, i) => i - 1 = call[c].nonce
    /\ call[c].pc \in {"included", "reverted"} => Landed(c)

WalletTypeOK ==
    /\ call \in [Calls -> [pc : CallPcs, nonce : Nat, attempt : Nat, err : BOOLEAN]]
    /\ chain \in Seq([of : Calls \cup {Foreign}, ok : BOOLEAN])
    /\ IsFiniteSet(DOMAIN pool) /\ \A n \in DOMAIN pool : pool[n] \in Calls \cup {Foreign}

WalletInv == WalletTypeOK /\ \A c \in Calls : CallInv(c)

-----------------------------------------------------------------------------
(* Facts about the node's tables.                                          *)

\* A set of naturals that is not empty has a least element.
LEMMA LeastNatural ==
    ASSUME NEW T \in SUBSET Nat, T # {}
    PROVE  \E x \in T : \A y \in T : x <= y
<1> DEFINE R == OpToRel(<, Nat)
<1>1. IsWellFoundedOn(R, Nat)
  BY NatLessThanWellFounded
<1>2. \A x, y \in Nat : x < y => <<x, y>> \in R
  BY DEF OpToRel
<1> HIDE DEF R
<1>3. PICK x \in T : \A y \in T : ~(<<y, x>> \in R)
  BY <1>1, WFMin
<1>4. \A y \in T : x <= y
  <2> TAKE y \in T
  <2>1. x \in Nat /\ y \in Nat
    OBVIOUS
  <2>2. ~(y < x)
    BY <1>2, <1>3, <2>1
  <2> QED BY <2>1, <2>2
<1> QED BY <1>4

\* The pending nonce is one: the first that is free is not further away than the pool
\* is large.
LEMMA PendingIsFree ==
    ASSUME WalletTypeOK
    PROVE  Pending \in Nat /\ Pending >= Confirmed /\ Pending \notin DOMAIN pool
<1> DEFINE L == Confirmed
           K == Cardinality(DOMAIN pool)
           free == {n \in L .. L + K : n \notin DOMAIN pool}
<1>1. L \in Nat
  BY DEF WalletTypeOK, Confirmed
<1>2. IsFiniteSet(DOMAIN pool) /\ K \in Nat
  BY FS_CardinalityType DEF WalletTypeOK
<1>3. free # {}
  <2> SUFFICES ASSUME L .. L + K \in SUBSET DOMAIN pool PROVE FALSE
    OBVIOUS
  <2> HIDE DEF L, K
  <2>1. Cardinality(L .. L + K) = (L + K) - L + 1
    BY <1>1, <1>2, FS_Interval
  <2>2. Cardinality(L .. L + K) <= K
    BY <1>2, FS_Subset DEF K
  <2> QED BY <1>1, <1>2, <2>1, <2>2
<1>4. free \in SUBSET Nat
  BY <1>1, <1>2
<1>5. PICK n \in free : \A k \in free : n <= k
  BY <1>3, <1>4, LeastNatural
<1>6. n \in L .. L + K /\ n \notin DOMAIN pool /\ \A k \in L .. n - 1 : k \in DOMAIN pool
  BY <1>1, <1>2, <1>5
<1>7. Pending \in L .. L + K /\ Pending \notin DOMAIN pool
  BY <1>6 DEF Pending
<1> QED BY <1>1, <1>2, <1>7

\* Transactions leave the pool.
LEMMA PoolRestrict ==
    ASSUME NEW p, NEW D \in SUBSET DOMAIN p
    PROVE  /\ DOMAIN Restrict(p, D) = D
           /\ \A k \in D : Restrict(p, D)[k] = p[k]
BY DEF Restrict

\* The next slot is not in an earlier epoch.
LEMMA EpochMonotone ==
    ASSUME NEW n \in Nat
    PROVE  Epoch(n) \in Nat /\ Epoch(n + 1) \in Nat /\ Epoch(n) <= Epoch(n + 1)
<1>1. SlotsPerEpoch \in Nat /\ SlotsPerEpoch > 0
  BY LifecycleAssumption
<1>2. \A k \in Nat : /\ k \div SlotsPerEpoch \in Nat /\ k % SlotsPerEpoch \in 0 .. SlotsPerEpoch - 1
                     /\ k = SlotsPerEpoch * (k \div SlotsPerEpoch) + (k % SlotsPerEpoch)
  BY <1>1
<1>3. PICK a \in Nat, b \in Nat : a = Epoch(n) /\ b = Epoch(n + 1)
  BY <1>2 DEF Epoch
<1>4. SlotsPerEpoch * a <= n /\ n + 1 < SlotsPerEpoch * b + SlotsPerEpoch
  BY <1>1, <1>2, <1>3 DEF Epoch
<1>5. SlotsPerEpoch * a < SlotsPerEpoch * (b + 1)
  BY <1>1, <1>4
<1>6. a < b + 1
  <2> SUFFICES ASSUME a >= b + 1 PROVE FALSE
    OBVIOUS
  <2>1. PICK k \in Nat : a = (b + 1) + k
    <3> WITNESS a - (b + 1) \in Nat
    <3> QED OBVIOUS
  <2>2. SlotsPerEpoch * a = SlotsPerEpoch * (b + 1) + SlotsPerEpoch * k /\ SlotsPerEpoch * k \in Nat
    BY <1>1, <2>1
  <2> QED BY <1>1, <1>5, <2>2
<1> QED BY <1>3, <1>6

-----------------------------------------------------------------------------
(* The wallet's invariant is inductive.                                    *)

\* A call moves on: nothing of the node changes.
LEMMA CallMoves ==
    ASSUME WalletInv, NEW c \in Calls,
           NEW x \in [pc : CallPcs, nonce : Nat, attempt : Nat, err : BOOLEAN],
           Sets(c, x), pool' = pool, chain' = chain,
           x.pc \in {"idle", "lock", "build", "send", "gone"} => Nowhere(c),
           x.pc # "poll",
           x.pc \in {"included", "reverted"} => Landed(c)
    PROVE  WalletInv'
<1>1. WalletTypeOK'
  BY DEF WalletInv, WalletTypeOK, Sets
<1>2. call'[c] = x /\ \A d \in Calls \ {c} : call'[d] = call[d]
  BY DEF WalletInv, WalletTypeOK, Sets
<1>3. ASSUME NEW d \in Calls PROVE CallInv(d)'
  <2>1. Once(d)' /\ (Nowhere(d)' <=> Nowhere(d)) /\ (Landed(d)' <=> Landed(d))
    BY DEF WalletInv, CallInv, Once, Nowhere, Landed, PooledAt, MinedAt
  <2>2. CASE d = c
    BY <1>2, <2>1, <2>2 DEF CallInv
  <2>3. CASE d # c
    <3>1. \A n : (PooledAt(d, n)' <=> PooledAt(d, n)) /\ (MinedAt(d, n)' <=> MinedAt(d, n))
      BY DEF PooledAt, MinedAt
    <3> QED BY <1>2, <2>1, <2>3, <3>1 DEF WalletInv, CallInv
  <2> QED BY <2>2, <2>3
<1> QED BY <1>1, <1>3 DEF WalletInv

\* A transaction enters the pool at nonce n, in place of another: only its own call's
\* occurrences grow.
LEMMA Entering ==
    ASSUME WalletTypeOK, NEW t \in Calls \cup {Foreign}, NEW n, Enters(t, n), chain' = chain
    PROVE  /\ IsFiniteSet(DOMAIN pool') /\ \A k \in DOMAIN pool' : pool'[k] \in Calls \cup {Foreign}
           /\ \A d, k : PooledAt(d, k)' => PooledAt(d, k) \/ (d = t /\ k = n)
           /\ \A d, i : MinedAt(d, i)' <=> MinedAt(d, i)
<1>1. DOMAIN pool' = DOMAIN pool \cup {n}
  BY DEF Enters
<1>2. \A k \in DOMAIN pool' : pool'[k] = IF k = n THEN t ELSE pool[k]
  BY DEF Enters
<1>3. IsFiniteSet(DOMAIN pool')
  BY <1>1, FS_AddElement DEF WalletTypeOK
<1>4. \A k \in DOMAIN pool' : pool'[k] \in Calls \cup {Foreign}
  BY <1>1, <1>2 DEF WalletTypeOK
<1>5. \A d, k : PooledAt(d, k)' => PooledAt(d, k) \/ (d = t /\ k = n)
  BY <1>1, <1>2 DEF PooledAt
<1>6. \A d, i : MinedAt(d, i)' <=> MinedAt(d, i)
  BY DEF MinedAt
<1> QED BY <1>3, <1>4, <1>5, <1>6

\* A call keeps its part of the invariant while the pool, as far as it is its own, only
\* shrinks.
LEMMA PoolShrinks ==
    ASSUME NEW d \in Calls, CallInv(d), call'[d] = call[d],
           \A k : PooledAt(d, k)' => PooledAt(d, k),
           \A i : MinedAt(d, i)' <=> MinedAt(d, i)
    PROVE  CallInv(d)'
<1>1. Once(d)' /\ (Nowhere(d) => Nowhere(d)') /\ (Landed(d)' <=> Landed(d))
  BY DEF CallInv, Once, Nowhere, Landed
<1> QED BY <1>1 DEF CallInv

\* SendTransaction: the transaction is pending at the nonce, or nowhere still.
LEMMA SendInv ==
    ASSUME WalletInv, NEW c \in Calls, SendTransaction(c)
    PROVE  WalletInv'
<1>0. WalletTypeOK /\ Nowhere(c) /\ call[c].pc = "send" /\ chain' = chain
  BY DEF WalletInv, CallInv, SendTransaction
<1>1. PICK err \in BOOLEAN :
        /\ Sets(c, [call[c] EXCEPT !.pc = "poll", !.err = err])
        /\ (call[c].nonce >= Confirmed /\ Enters(c, call[c].nonce)) \/ (err /\ UNCHANGED pool)
  BY DEF SendTransaction
<1>2. /\ call'[c].pc = "poll" /\ call'[c].nonce = call[c].nonce
      /\ \A d \in Calls \ {c} : call'[d] = call[d]
      /\ call' \in [Calls -> [pc : CallPcs, nonce : Nat, attempt : Nat, err : BOOLEAN]]
  BY <1>0, <1>1 DEF WalletTypeOK, Sets, CallPcs
<1>3. /\ IsFiniteSet(DOMAIN pool') /\ \A k \in DOMAIN pool' : pool'[k] \in Calls \cup {Foreign}
      /\ \A d, k : PooledAt(d, k)' => PooledAt(d, k) \/ (d = c /\ k = call[c].nonce)
      /\ \A d, i : MinedAt(d, i)' <=> MinedAt(d, i)
  <2>1. CASE UNCHANGED pool
    BY <1>0, <2>1 DEF WalletTypeOK, PooledAt, MinedAt
  <2>2. CASE Enters(c, call[c].nonce)
    BY <1>0, <2>2, Entering
  <2> QED BY <1>1, <2>1, <2>2
<1>4. WalletTypeOK'
  BY <1>0, <1>2, <1>3 DEF WalletTypeOK
<1>5. CallInv(c)'
  <2>1. \A i : ~MinedAt(c, i)'
    BY <1>0, <1>3 DEF Nowhere
  <2>2. \A k : PooledAt(c, k)' => k = call[c].nonce
    BY <1>0, <1>3 DEF Nowhere
  <2>3. Once(c)'
    BY <2>1, <2>2 DEF Once, Landed
  <2> QED BY <1>2, <2>1, <2>2, <2>3 DEF CallInv
<1>6. \A d \in Calls \ {c} : CallInv(d)'
  BY <1>2, <1>3, PoolShrinks DEF WalletInv
<1> QED BY <1>4, <1>5, <1>6 DEF WalletInv

\* Another instance's transaction takes a nonce, or a transaction is dropped.
LEMMA AccountInv ==
    ASSUME WalletInv, DropTx \/ ForeignTx
    PROVE  WalletInv'
<1>0. WalletTypeOK /\ chain' = chain /\ call' = call
  BY DEF WalletInv, DropTx, ForeignTx
<1>1. /\ IsFiniteSet(DOMAIN pool') /\ \A k \in DOMAIN pool' : pool'[k] \in Calls \cup {Foreign}
      /\ \A d \in Calls : \A k : PooledAt(d, k)' => PooledAt(d, k)
      /\ \A d, i : MinedAt(d, i)' <=> MinedAt(d, i)
  <2>1. CASE DropTx
    <3>1. PICK n \in DOMAIN pool : pool' = Restrict(pool, DOMAIN pool \ {n})
      BY <2>1 DEF DropTx
    <3>2. DOMAIN pool' = DOMAIN pool \ {n} /\ \A k \in DOMAIN pool' : pool'[k] = pool[k]
      BY <3>1, PoolRestrict
    <3>3. IsFiniteSet(DOMAIN pool')
      BY <1>0, <3>2, FS_RemoveElement DEF WalletTypeOK
    <3> QED BY <1>0, <3>2, <3>3 DEF WalletTypeOK, PooledAt, MinedAt
  <2>2. CASE ForeignTx
    <3>1. PICK n \in NextNonces : Enters(Foreign, n)
      BY <2>2 DEF ForeignTx
    <3>2. Foreign \notin Calls
      BY WalletAssumption DEF Foreign
    <3> QED BY <1>0, <3>1, <3>2, Entering
  <2> QED BY <2>1, <2>2
<1>2. WalletTypeOK'
  BY <1>0, <1>1 DEF WalletTypeOK
<1>3. \A d \in Calls : CallInv(d)'
  BY <1>0, <1>1, PoolShrinks DEF WalletInv
<1> QED BY <1>2, <1>3 DEF WalletInv

\* A block takes the account's next transaction from the pool.
LEMMA Mining ==
    ASSUME WalletTypeOK, NEW ok \in BOOLEAN, Mine(ok)
    PROVE  /\ WalletTypeOK' /\ call' = call
           /\ PooledAt(pool[Confirmed], Confirmed)
           /\ \A d, k : PooledAt(d, k)' <=> PooledAt(d, k) /\ k # Confirmed
           /\ \A d, i : MinedAt(d, i)' <=> MinedAt(d, i) \/ (d = pool[Confirmed] /\ i = Confirmed + 1)
           /\ \A d, i : MinedAt(d, i) => i # Confirmed + 1
<1> DEFINE E == [of : Calls \cup {Foreign}, ok : BOOLEAN]
<1>1. /\ Confirmed \in DOMAIN pool /\ call' = call
      /\ chain' = Append(chain, [of |-> pool[Confirmed], ok |-> ok])
      /\ pool' = Restrict(pool, DOMAIN pool \ {Confirmed})
  BY DEF Mine
<1>2. DOMAIN pool' = DOMAIN pool \ {Confirmed} /\ \A k \in DOMAIN pool' : pool'[k] = pool[k]
  BY <1>1, PoolRestrict
<1>3. IsFiniteSet(DOMAIN pool')
  BY <1>2, FS_RemoveElement DEF WalletTypeOK
<1>4. PICK e \in E : e.of = pool[Confirmed] /\ chain' = Append(chain, e)
  BY <1>1 DEF WalletTypeOK
<1>5. chain \in Seq(E)
  BY DEF WalletTypeOK
<1> HIDE DEF E
<1>6. /\ chain' \in Seq(E) /\ Len(chain') = Len(chain) + 1 /\ Len(chain) \in Nat
      /\ DOMAIN chain = 1 .. Len(chain) /\ DOMAIN chain' = 1 .. Len(chain) + 1
      /\ \A i \in 1 .. Len(chain) : chain'[i] = chain[i]
      /\ chain'[Len(chain) + 1] = e
  BY <1>4, <1>5
<1>7. WalletTypeOK'
  BY <1>1, <1>2, <1>3, <1>6 DEF WalletTypeOK, E
<1>8. \A d, k : PooledAt(d, k)' <=> PooledAt(d, k) /\ k # Confirmed
  BY <1>2 DEF PooledAt
<1>9. \A d, i : MinedAt(d, i) => i # Confirmed + 1
  BY <1>6 DEF MinedAt, Confirmed
<1>10. \A d, i : MinedAt(d, i)' <=> MinedAt(d, i) \/ (d = pool[Confirmed] /\ i = Confirmed + 1)
  BY <1>4, <1>6 DEF MinedAt, Confirmed
<1> QED BY <1>1, <1>7, <1>8, <1>9, <1>10 DEF PooledAt

\* Mining keeps the invariant: what is mined is no longer pending.
LEMMA MineInv ==
    ASSUME WalletInv, NEW ok \in BOOLEAN, Mine(ok)
    PROVE  WalletInv'
<1>1. /\ WalletTypeOK /\ WalletTypeOK' /\ call' = call
      /\ PooledAt(pool[Confirmed], Confirmed)
      /\ \A d, k : PooledAt(d, k)' <=> PooledAt(d, k) /\ k # Confirmed
      /\ \A d, i : MinedAt(d, i)' <=> MinedAt(d, i) \/ (d = pool[Confirmed] /\ i = Confirmed + 1)
  BY Mining DEF WalletInv
<1>2. Confirmed \in Nat
  BY <1>1 DEF WalletTypeOK, Confirmed
<1>3. ASSUME NEW d \in Calls PROVE CallInv(d)'
  <2>1. CASE d # pool[Confirmed]
    BY <1>1, <2>1, PoolShrinks DEF WalletInv
  <2>2. CASE d = pool[Confirmed]
    <3>1. CallInv(d) /\ PooledAt(d, Confirmed)
      BY <1>1, <2>2 DEF WalletInv
    <3>2. \A k : PooledAt(d, k) => k = Confirmed
      BY <3>1 DEF CallInv, Once
    <3>3. \A i : ~MinedAt(d, i)
      BY <3>1 DEF CallInv, Once, Landed
    <3>4. (\A k : ~PooledAt(d, k)') /\ (\A i : MinedAt(d, i)' <=> i = Confirmed + 1)
      BY <1>1, <2>2, <3>2, <3>3
    <3>5. Once(d)' /\ Landed(d)'
      BY <3>4 DEF Once, Landed
    <3>6. call[d].pc \notin {"idle", "lock", "build", "send", "gone"}
      BY <3>1 DEF CallInv, Nowhere
    <3>7. call[d].pc = "poll" => call[d].nonce = Confirmed
      BY <3>1 DEF CallInv
    <3> QED BY <1>1, <1>2, <3>4, <3>5, <3>6, <3>7 DEF CallInv
  <2> QED BY <2>1, <2>2
<1> QED BY <1>1, <1>3 DEF WalletInv

\* The process stops: what was waited for is out of its hands, where it is.
LEMMA StopInv ==
    ASSUME WalletInv, WalletStops
    PROVE  WalletInv'
<1>0. /\ WalletTypeOK /\ pool' = pool /\ chain' = chain
      /\ call' = [c \in Calls |-> IF Waiting(c) \/ Running(c) THEN [Idle EXCEPT !.pc = "failed"] ELSE call[c]]
  BY DEF WalletInv, WalletStops, rest
<1>1. /\ call' \in [Calls -> [pc : CallPcs, nonce : Nat, attempt : Nat, err : BOOLEAN]]
      /\ \A c \in Calls : call'[c] = call[c] \/ call'[c].pc = "failed"
  BY <1>0 DEF WalletTypeOK, Idle, CallPcs
<1>2. WalletTypeOK'
  BY <1>0, <1>1 DEF WalletTypeOK
<1>3. \A c, n : (PooledAt(c, n)' <=> PooledAt(c, n)) /\ (MinedAt(c, n)' <=> MinedAt(c, n))
  BY <1>0 DEF PooledAt, MinedAt
<1>4. ASSUME NEW c \in Calls PROVE CallInv(c)'
  <2>1. CASE call'[c] = call[c]
    BY <1>3, <2>1, PoolShrinks DEF WalletInv
  <2>2. CASE call'[c].pc = "failed"
    <3>1. Once(c)'
      BY <1>3 DEF WalletInv, CallInv, Once, Landed
    <3> QED BY <2>2, <3>1 DEF CallInv
  <2> QED BY <1>1, <2>1, <2>2
<1> QED BY <1>2, <1>4 DEF WalletInv

\* The steps of a call.
LEMMA CallStepInv ==
    ASSUME WalletInv, NEW c \in Calls, SendAndConfirm(c) \/ WalletStep(c)
    PROVE  WalletInv'
<1> DEFINE Rec == [pc : CallPcs, nonce : Nat, attempt : Nat, err : BOOLEAN]
<1>0. WalletTypeOK /\ CallInv(c) /\ call[c] \in Rec /\ Idle \in Rec
  BY DEF WalletInv, WalletTypeOK, Idle, CallPcs
<1>1. ASSUME NEW o \in {"included", "reverted", "failed"}, Ends(c, o), UNCHANGED rest,
             o # "failed" => Landed(c)
      PROVE  WalletInv'
  <2>1. [Idle EXCEPT !.pc = o] \in Rec /\ [Idle EXCEPT !.pc = o].pc = o
    BY DEF Idle, CallPcs
  <2> QED BY <1>1, <2>1, CallMoves DEF Ends, rest
<1>2. CASE SendAndConfirm(c)
  <2>1. [Idle EXCEPT !.pc = "lock"] \in Rec /\ [Idle EXCEPT !.pc = "lock"].pc = "lock"
    BY DEF Idle, CallPcs
  <2>2. Nowhere(c)
    BY <1>0, <1>2 DEF SendAndConfirm, CallInv
  <2> QED BY <1>2, <2>1, <2>2, CallMoves DEF SendAndConfirm, rest
<1>3. CASE Lock(c)
  <2> DEFINE x == [call[c] EXCEPT !.pc = "build", !.attempt = 1]
  <2>1. x \in Rec /\ x.pc = "build"
    BY <1>0 DEF CallPcs
  <2>2. Nowhere(c)
    BY <1>0, <1>3 DEF Lock, Waiting, CallInv
  <2>3. Sets(c, x) /\ pool' = pool /\ chain' = chain
    BY <1>3 DEF Lock, rest
  <2> QED BY <2>1, <2>2, <2>3, CallMoves
<1>4. CASE BuildAndSign(c)
  <2>1. Nowhere(c)
    BY <1>0, <1>4 DEF BuildAndSign, CallInv
  <2>2. ASSUME NEW n \in NextNonces, Sets(c, [call[c] EXCEPT !.pc = "send", !.nonce = n]) PROVE WalletInv'
    <3>1. n \in Nat
      BY <1>0, PendingIsFree DEF NextNonces, Confirmed, WalletTypeOK
    <3> DEFINE x == [call[c] EXCEPT !.pc = "send", !.nonce = n]
    <3>2. x \in Rec /\ x.pc = "send"
      BY <1>0, <3>1 DEF CallPcs
    <3>3. pool' = pool /\ chain' = chain
      BY <1>4 DEF BuildAndSign, rest
    <3> QED BY <2>1, <2>2, <3>2, <3>3, CallMoves
  <2> QED BY <1>1, <1>4, <2>2 DEF BuildAndSign
<1>5. CASE SendTransaction(c)
  BY <1>5, SendInv
<1>6. CASE Poll(c)
  <2>1. CASE /\ Mined(c, call[c].nonce)
             /\ Ends(c, IF chain[call[c].nonce + 1].ok THEN "included" ELSE "reverted")
    <3>1. MinedAt(c, call[c].nonce + 1)
      BY <1>0, <2>1 DEF Mined, MinedAt, Confirmed, WalletTypeOK
    <3>2. Landed(c)
      BY <3>1 DEF Landed
    <3> QED BY <1>1, <1>6, <2>1, <3>2 DEF Poll
  <2>2. CASE /\ ~Mined(c, call[c].nonce) /\ ~InPool(c, call[c].nonce)
             /\ Sets(c, [call[c] EXCEPT !.pc = "gone"])
    <3> DEFINE x == [call[c] EXCEPT !.pc = "gone"]
    <3>1. x \in Rec /\ x.pc = "gone"
      BY <1>0 DEF CallPcs
    <3>2. \A n : ~PooledAt(c, n)
      BY <1>0, <1>6, <2>2 DEF Poll, CallInv, InPool, PooledAt
    <3>3. \A i : ~MinedAt(c, i)
      <4> SUFFICES ASSUME NEW i, MinedAt(c, i) PROVE FALSE
        OBVIOUS
      <4>1. i \in 1 .. Len(chain) /\ chain[i].of = c /\ i - 1 = call[c].nonce /\ Len(chain) \in Nat
        BY <1>0, <1>6 DEF Poll, CallInv, MinedAt, WalletTypeOK
      <4>2. call[c].nonce < Len(chain) /\ call[c].nonce + 1 = i
        BY <4>1
      <4> QED BY <2>2, <4>1, <4>2 DEF Mined, Confirmed
    <3>4. pool' = pool /\ chain' = chain
      BY <1>6 DEF Poll, rest
    <3> QED BY <2>2, <3>1, <3>2, <3>3, <3>4, CallMoves DEF Nowhere
  <2> QED BY <1>6, <2>1, <2>2 DEF Poll
<1>7. CASE Resolve(c)
  <2>1. Nowhere(c)
    BY <1>0, <1>7 DEF Resolve, CallInv
  <2>2. ASSUME Sets(c, [call[c] EXCEPT !.pc = "build", !.attempt = @ + 1]) PROVE WalletInv'
    <3>1. PICK a \in Nat : a = call[c].attempt + 1
      BY <1>0
    <3> DEFINE x == [call[c] EXCEPT !.pc = "build", !.attempt = a]
    <3>2. x \in Rec /\ x.pc = "build" /\ Sets(c, x)
      BY <1>0, <2>2, <3>1 DEF CallPcs
    <3>3. pool' = pool /\ chain' = chain
      BY <1>7 DEF Resolve, rest
    <3> QED BY <2>1, <2>2, <3>2, <3>3, CallMoves
  <2>3. Ends(c, "failed") \/ Sets(c, [call[c] EXCEPT !.pc = "build", !.attempt = @ + 1])
    BY <1>7 DEF Resolve, Retry, Ends
  <2> QED BY <1>1, <1>7, <2>2, <2>3 DEF Resolve
<1>8. CASE Timeout(c)
  BY <1>1, <1>8 DEF Timeout
<1> QED BY <1>2, <1>3, <1>4, <1>5, <1>6, <1>7, <1>8 DEF WalletStep

-----------------------------------------------------------------------------
(* Every step of the system is a step of the wallet and its node, or none. *)

WalletMove ==
    \/ UNCHANGED walletVars
    \/ \E c \in Calls : SendAndConfirm(c) \/ WalletStep(c)
    \/ \E ok \in BOOLEAN : Mine(ok)
    \/ DropTx \/ ForeignTx
    \/ WalletStops

\* Handing the wallet a transaction is making a call.
LEMMA HandsCalls ==
    ASSUME NEW t, NEW what, Hands(t, what)
    PROVE  \E c \in Calls : SendAndConfirm(c)
BY DEF Hands

\* The manager and the web UI hand the wallet transactions and change nothing else of it.
LEMMA ThreadsMove ==
    ASSUME ManagerStep \/ UiStep
    PROVE  WalletMove
<1>1. UNCHANGED walletVars \/ \E t, what : Hands(t, what)
  <2>1. CASE ManagerStep
    BY <2>1 DEF ManagerStep, Start, TryEarlyOnboardOnce, NextEpoch, EarlyReturns, WaitForRegistration,
                EarlyWaitTimeout, WaitForGloasState, EnsureBuilderRegistered, DepositReturns,
                WaitTimeout, CheckAndTopup, TopupReturns, CreateEarlyDeposit, CreateDeposit, idle
  <2>2. CASE UiStep
    BY <2>2 DEF UiStep, EnsureBuilderRegistered, DepositReturns, WaitForRegistration, WaitTimeout,
                CheckAndTopup, TopupReturns, InitiateExit, ExitReturns, CreateDeposit, CreateExit, idle
  <2> QED BY <2>1, <2>2
<1> QED BY <1>1, HandsCalls DEF WalletMove

\* So does everything else.
LEMMA NextMoves ==
    ASSUME [Next]_vars
    PROVE  WalletMove
<1>1. CASE UNCHANGED vars
  BY <1>1 DEF vars, WalletMove
<1>2. CASE Tick \/ Block \/ LoadStats
  BY <1>2 DEF Tick, Block, LoadStats, WalletMove
<1>3. CASE MineTx
  BY <1>3 DEF MineTx, WalletMove
<1>4. CASE AccountStep
  BY <1>4 DEF AccountStep, WalletMove
<1>5. CASE WalletActs
  BY <1>5 DEF WalletActs, WalletMove
<1>6. CASE ManagerStep \/ UiStep
  BY <1>6, ThreadsMove
<1>7. CASE Restart
  BY <1>7 DEF Restart, WalletMove
<1> QED BY <1>1, <1>2, <1>3, <1>4, <1>5, <1>6, <1>7 DEF Next

LEMMA MoveInv ==
    ASSUME WalletInv, WalletMove
    PROVE  WalletInv'
<1>1. CASE UNCHANGED walletVars
  BY <1>1 DEF walletVars, WalletInv, WalletTypeOK, CallInv, Once, Nowhere, Landed, PooledAt, MinedAt
<1> QED BY <1>1, CallStepInv, MineInv, AccountInv, StopInv DEF WalletMove

\* A call's transaction exists at most once, and only where its call expects it.
THEOREM WalletInvariant == FairSpec => []WalletInv
<1>1. Init => WalletInv
  <2> SUFFICES ASSUME Init PROVE WalletInv
    OBVIOUS
  <2>1. call = [c \in Calls |-> Idle] /\ chain = <<>> /\ pool = <<>>
    BY DEF Init, WalletInit
  <2>2. DOMAIN pool = {} /\ DOMAIN chain = {}
    BY <2>1
  <2>3. WalletTypeOK
    BY <2>1, <2>2, FS_EmptySet DEF WalletTypeOK, Idle, CallPcs
  <2>4. \A c \in Calls : CallInv(c)
    BY <2>1, <2>2 DEF CallInv, Once, Nowhere, Landed, PooledAt, MinedAt, Idle
  <2> QED BY <2>3, <2>4 DEF WalletInv
<1>2. WalletInv /\ [Next]_vars => WalletInv'
  BY NextMoves, MoveInv
<1> QED BY <1>1, <1>2, PTL DEF FairSpec

-----------------------------------------------------------------------------
(* The safety half of the contract.                                        *)

\* The refinement mapping's two values.
StatusOf == [c \in Calls |-> IF Waiting(c) \/ Running(c) THEN "running" ELSE call[c].pc]
LandedOf == [c \in Calls |-> Cardinality({n \in DOMAIN chain : chain[n].of = c})]

\* What is mined once at most is counted as 1 or 0.
LEMMA CountOne ==
    ASSUME NEW s, NEW c,
           \A i, j \in DOMAIN s : s[i].of = c /\ s[j].of = c => i = j
    PROVE  Cardinality({n \in DOMAIN s : s[n].of = c}) =
             IF \E i \in DOMAIN s : s[i].of = c THEN 1 ELSE 0
<1>1. CASE \E i \in DOMAIN s : s[i].of = c
  <2>1. PICK i \in DOMAIN s : s[i].of = c
    BY <1>1
  <2>2. {n \in DOMAIN s : s[n].of = c} = {i}
    BY <2>1
  <2> QED BY <1>1, <2>2, FS_Singleton
<1>2. CASE ~ \E i \in DOMAIN s : s[i].of = c
  <2>1. {n \in DOMAIN s : s[n].of = c} = {}
    BY <1>2
  <2> QED BY <1>2, <2>1, FS_EmptySet
<1> QED BY <1>1, <1>2

LEMMA LandedCount ==
    ASSUME WalletInv, NEW c \in Calls
    PROVE  LandedOf[c] = IF Landed(c) THEN 1 ELSE 0
<1>1. \A i, j \in DOMAIN chain : chain[i].of = c /\ chain[j].of = c => i = j
  BY DEF WalletInv, CallInv, Once, MinedAt
<1>2. Landed(c) <=> \E i \in DOMAIN chain : chain[i].of = c
  BY DEF Landed, MinedAt
<1> QED BY <1>1, <1>2, CountOne DEF LandedOf

LEMMA LandedCountNext ==
    ASSUME WalletInv', NEW c \in Calls
    PROVE  LandedOf'[c] = IF Landed(c)' THEN 1 ELSE 0
<1>1. \A i, j \in DOMAIN chain' : chain'[i].of = c /\ chain'[j].of = c => i = j
  BY DEF WalletInv, CallInv, Once, MinedAt
<1>2. Landed(c)' <=> \E i \in DOMAIN chain' : chain'[i].of = c
  BY DEF Landed, MinedAt
<1> QED BY <1>1, <1>2, CountOne DEF LandedOf

\* The contract's steps, in terms of the mapping.
LEMMA ContractSteps ==
    /\ \A c : Contract!Call(c) <=>
         /\ StatusOf[c] = "idle" /\ StatusOf' = [StatusOf EXCEPT ![c] = "running"]
         /\ LandedOf' = LandedOf
    /\ \A c : Contract!Land(c) <=>
         /\ StatusOf[c] # "idle" /\ LandedOf[c] = 0
         /\ LandedOf' = [LandedOf EXCEPT ![c] = 1] /\ StatusOf' = StatusOf
    /\ \A c : Contract!Return(c) <=>
         /\ StatusOf[c] = "running"
         /\ \E s \in {"failed"} \cup (IF LandedOf[c] = 1 THEN {"included", "reverted"} ELSE {}) :
              StatusOf' = [StatusOf EXCEPT ![c] = s]
         /\ LandedOf' = LandedOf
    /\ Contract!Abandon <=>
         /\ StatusOf' = [c \in Calls |-> IF StatusOf[c] = "running" THEN "failed" ELSE StatusOf[c]]
         /\ LandedOf' = LandedOf
    /\ UNCHANGED Contract!txVars <=> StatusOf' = StatusOf /\ LandedOf' = LandedOf
BY DEF Contract!Call, Contract!Land, Contract!Return, Contract!Abandon, Contract!txVars,
       StatusOf, LandedOf

\* The status of a call follows from where it is.
Shown(pc) == IF pc \in {"lock", "build", "send", "poll", "gone"} THEN "running" ELSE pc

LEMMA StatusShown ==
    /\ StatusOf = [c \in Calls |-> Shown(call[c].pc)]
    /\ StatusOf' = [c \in Calls |-> Shown(call'[c].pc)]
BY DEF StatusOf, Shown, Waiting, Running

\* A step of one call is a call, a return, or nothing the caller sees.
LEMMA CallStepContract ==
    ASSUME WalletInv, NEW c \in Calls, SendAndConfirm(c) \/ WalletStep(c)
    PROVE  Contract!Call(c) \/ Contract!Return(c) \/ UNCHANGED Contract!txVars
<1>0. /\ call \in [Calls -> [pc : CallPcs, nonce : Nat, attempt : Nat, err : BOOLEAN]] /\ CallInv(c)
      /\ chain \in Seq([of : Calls \cup {Foreign}, ok : BOOLEAN])
  BY DEF WalletInv, WalletTypeOK
<1>1. chain' = chain
  BY DEF SendAndConfirm, WalletStep, Lock, BuildAndSign, SendTransaction, Poll, Resolve, Timeout, rest
<1>2. LandedOf' = LandedOf
  BY <1>1 DEF LandedOf
<1>3. ASSUME NEW x, Sets(c, x) PROVE StatusOf' = [StatusOf EXCEPT ![c] = Shown(x.pc)]
  <2>1. call' = [call EXCEPT ![c] = x]
    BY <1>3 DEF Sets
  <2>2. call'[c] = x /\ \A d \in Calls \ {c} : call'[d] = call[d]
    BY <1>0, <2>1
  <2> QED BY <2>2, StatusShown
<1>4. StatusOf[c] = Shown(call[c].pc)
  BY StatusShown
<1>5. ASSUME NEW x, Sets(c, x), Shown(x.pc) = "running", Shown(call[c].pc) = "running"
      PROVE  UNCHANGED Contract!txVars
  <2>1. StatusOf' = [StatusOf EXCEPT ![c] = StatusOf[c]]
    BY <1>3, <1>4, <1>5
  <2>2. StatusOf' = StatusOf
    BY <2>1, StatusShown
  <2> QED BY <1>2, <2>2, ContractSteps
<1>6. ASSUME Ends(c, "failed"), Shown(call[c].pc) = "running"
      PROVE  Contract!Return(c)
  <2>1. Shown([Idle EXCEPT !.pc = "failed"].pc) = "failed"
    BY DEF Shown, Idle
  <2> QED BY <1>2, <1>3, <1>4, <1>6, <2>1, ContractSteps DEF Ends
<1>7. CASE SendAndConfirm(c)
  <2>1. Shown([Idle EXCEPT !.pc = "lock"].pc) = "running" /\ StatusOf[c] = "idle"
    BY <1>4, <1>7 DEF Shown, Idle, SendAndConfirm
  <2>2. StatusOf' = [StatusOf EXCEPT ![c] = "running"]
    BY <1>3, <1>7, <2>1 DEF SendAndConfirm
  <2> QED BY <1>2, <2>1, <2>2, ContractSteps
<1>8. CASE Lock(c)
  BY <1>0, <1>5, <1>8 DEF Lock, Waiting, Shown
<1>9. CASE BuildAndSign(c)
  BY <1>0, <1>5, <1>6, <1>9 DEF BuildAndSign, Shown
<1>10. CASE SendTransaction(c)
  <2>1. PICK err \in BOOLEAN : Sets(c, [call[c] EXCEPT !.pc = "poll", !.err = err])
    BY <1>10 DEF SendTransaction
  <2>2. [call[c] EXCEPT !.pc = "poll", !.err = err].pc = "poll"
    BY <1>0
  <2> QED BY <1>5, <1>10, <2>1, <2>2 DEF SendTransaction, Shown
<1>11. CASE Poll(c)
  <2>1. CASE /\ Mined(c, call[c].nonce)
             /\ Ends(c, IF chain[call[c].nonce + 1].ok THEN "included" ELSE "reverted")
    <3>1. MinedAt(c, call[c].nonce + 1)
      BY <1>0, <2>1 DEF Mined, MinedAt, Confirmed
    <3>2. LandedOf[c] = 1
      BY <3>1, LandedCount DEF Landed
    <3>3. PICK o \in {"included", "reverted"} : Ends(c, o)
      BY <2>1
    <3>4. Shown([Idle EXCEPT !.pc = o].pc) = o
      BY DEF Shown, Idle
    <3>5. StatusOf' = [StatusOf EXCEPT ![c] = o]
      BY <1>3, <3>3, <3>4 DEF Ends
    <3>6. StatusOf[c] = "running"
      BY <1>4, <1>11 DEF Poll, Shown
    <3> QED BY <1>2, <3>2, <3>5, <3>6, ContractSteps
  <2>2. CASE Sets(c, [call[c] EXCEPT !.pc = "gone"])
    BY <1>0, <1>5, <1>11, <2>2 DEF Poll, Shown
  <2> QED BY <1>11, <2>1, <2>2 DEF Poll
<1>12. CASE Resolve(c)
  <2>1. Ends(c, "failed") \/ Sets(c, [call[c] EXCEPT !.pc = "build", !.attempt = @ + 1])
    BY <1>12 DEF Resolve, Retry, Ends
  <2>2. [call[c] EXCEPT !.pc = "build", !.attempt = @ + 1].pc = "build"
    BY <1>0
  <2> QED BY <1>5, <1>6, <1>12, <2>1, <2>2 DEF Resolve, Shown
<1>13. CASE Timeout(c)
  BY <1>6, <1>13 DEF Timeout, Shown
<1> QED BY <1>7, <1>8, <1>9, <1>10, <1>11, <1>12, <1>13 DEF WalletStep

\* Mining lands the transaction of a call, for the first time, or another instance's.
LEMMA MineContract ==
    ASSUME WalletInv, WalletInv', NEW ok \in BOOLEAN, Mine(ok)
    PROVE  (\E c \in Calls : Contract!Land(c)) \/ UNCHANGED Contract!txVars
<1> DEFINE t == pool[Confirmed]
<1>1. /\ call' = call /\ PooledAt(t, Confirmed)
      /\ \A d, i : MinedAt(d, i)' <=> MinedAt(d, i) \/ (d = t /\ i = Confirmed + 1)
  BY Mining DEF WalletInv
<1>2. StatusOf' = StatusOf
  BY <1>1, StatusShown
<1>3. \A d \in Calls : d # t => (Landed(d)' <=> Landed(d))
  BY <1>1 DEF Landed
<1>4. \A d \in Calls : d # t => LandedOf'[d] = LandedOf[d]
  BY <1>3, LandedCount, LandedCountNext
<1>5. LandedOf = [d \in Calls |-> LandedOf[d]] /\ LandedOf' = [d \in Calls |-> LandedOf'[d]]
  BY DEF LandedOf
<1>6. CASE t \notin Calls
  <2>1. LandedOf' = LandedOf
    BY <1>4, <1>5, <1>6
  <2> QED BY <1>2, <2>1, ContractSteps
<1>7. CASE t \in Calls
  <2>1. CallInv(t)
    BY <1>7 DEF WalletInv
  <2>2. PICK c \in Calls : c = pool[Confirmed]
    BY <1>7
  <2>3. LandedOf[c] = 0 /\ LandedOf'[c] = 1
    <3>1. ~Landed(c) /\ Landed(c)'
      BY <1>1, <2>1, <2>2 DEF CallInv, Once, Landed
    <3> QED BY <3>1, LandedCount, LandedCountNext
  <2>4. LandedOf' = [LandedOf EXCEPT ![c] = 1]
    BY <1>4, <1>5, <2>2, <2>3
  <2>5. call[c].pc # "idle"
    BY <1>1, <2>1, <2>2 DEF CallInv, Nowhere
  <2>6. StatusOf[c] # "idle"
    BY <2>5, StatusShown DEF Shown
  <2> QED BY <1>2, <2>3, <2>4, <2>6, ContractSteps
<1> QED BY <1>6, <1>7

\* Every move of the wallet is a step of the contract, or none.
LEMMA MoveContract ==
    ASSUME WalletInv, WalletInv', WalletMove
    PROVE  [Contract!Next]_(Contract!txVars)
<1>1. CASE UNCHANGED walletVars \/ DropTx \/ ForeignTx
  <2>1. call' = call /\ chain' = chain
    BY <1>1 DEF walletVars, DropTx, ForeignTx
  <2>2. StatusOf' = StatusOf
    BY <2>1, StatusShown
  <2>3. LandedOf' = LandedOf
    BY <2>1 DEF LandedOf
  <2> QED BY <2>2, <2>3, ContractSteps
<1>2. CASE \E c \in Calls : SendAndConfirm(c) \/ WalletStep(c)
  BY <1>2, CallStepContract DEF Contract!Next
<1>3. CASE \E ok \in BOOLEAN : Mine(ok)
  BY <1>3, MineContract DEF Contract!Next
<1>4. CASE WalletStops
  <2>1. /\ chain' = chain
        /\ call' = [c \in Calls |-> IF Waiting(c) \/ Running(c) THEN [Idle EXCEPT !.pc = "failed"] ELSE call[c]]
    BY <1>4 DEF WalletStops, rest
  <2>2. \A c \in Calls : Shown(call'[c].pc) = IF Shown(call[c].pc) = "running" THEN "failed" ELSE Shown(call[c].pc)
    <3> TAKE c \in Calls
    <3>1. call[c].pc \in CallPcs
      BY DEF WalletInv, WalletTypeOK
    <3>2. call'[c] = IF Waiting(c) \/ Running(c) THEN [Idle EXCEPT !.pc = "failed"] ELSE call[c]
      BY <2>1
    <3> QED BY <3>1, <3>2 DEF Waiting, Running, Shown, Idle, CallPcs
  <2>3. StatusOf' = [c \in Calls |-> IF StatusOf[c] = "running" THEN "failed" ELSE StatusOf[c]]
    BY <2>2, StatusShown
  <2>4. LandedOf' = LandedOf
    BY <2>1 DEF LandedOf
  <2> QED BY <2>3, <2>4, ContractSteps DEF Contract!Next
<1> QED BY <1>1, <1>2, <1>3, <1>4 DEF WalletMove

\* The safety half of CallContract: from a start of the contract, every step of the
\* program, its node and the other instances is one the contract allows.  No call's
\* transaction is mined twice, and a call that reports an inclusion or a revert reports
\* what happened.
THEOREM WalletKeepsContract == FairSpec => Contract!Init /\ [][Contract!Next]_(Contract!txVars)
<1>1. Init => Contract!Init
  <2> SUFFICES ASSUME Init PROVE Contract!Init
    OBVIOUS
  <2>1. call = [c \in Calls |-> Idle] /\ chain = <<>>
    BY DEF Init, WalletInit
  <2>2. StatusOf = [c \in Calls |-> "idle"]
    BY <2>1, StatusShown DEF Shown, Idle
  <2>3. LandedOf = [c \in Calls |-> 0]
    <3>1. \A c \in Calls : {n \in DOMAIN chain : chain[n].of = c} = {}
      BY <2>1
    <3> QED BY <3>1, FS_EmptySet DEF LandedOf
  <2> QED BY <2>2, <2>3 DEF Contract!Init, StatusOf, LandedOf
<1>2. WalletInv /\ WalletInv' /\ [Next]_vars => [Contract!Next]_(Contract!txVars)
  BY NextMoves, MoveContract
<1> QED BY <1>1, <1>2, WalletInvariant, PTL DEF FairSpec

-----------------------------------------------------------------------------
(* The manager registers no builder that the fork has made.                *)

\* The chain has a converted builder from the fork on, and so has the state of every block
\* since; a Gloas state, once loaded, names a converted builder; and the manager deposits,
\* and waits for its deposit, only with such a state at hand.
ManagerInv ==
    /\ now \in Nat /\ headState.epoch \in Nat /\ headState.epoch <= Epoch(now)
    /\ DOMAIN thread = {"manager", "ui"}
    /\ entry = "converted" => Epoch(now) >= ForkEpoch
    /\ headState.epoch >= ForkEpoch /\ entry = "converted" => headState.entry = "converted"
    /\ stats.gloas => headState.epoch >= ForkEpoch /\ (entry = "converted" => stats.known)
    /\ thread["manager"].pc \in {"check", "deposit", "wait"} => stats.gloas

\* What EpochStats say of a Gloas state.
LEMMA StatsFields ==
    ASSUME NEW e
    PROVE  /\ StatsAs(e).gloas <=> headState.epoch >= ForkEpoch
           /\ StatsAs(e).known <=> headState.epoch >= ForkEpoch /\ headState.entry \in {"converted", "active", "exited"}
BY DEF StatsAs

\* Where a thread goes, the other one is not moved.
LEMMA ThreadGoes ==
    ASSUME ManagerInv, NEW t \in {"manager", "ui"}, NEW x, thread' = [thread EXCEPT ![t] = x]
    PROVE  /\ DOMAIN thread' = {"manager", "ui"} /\ thread'[t] = x
           /\ \A u \in {"manager", "ui"} : u # t => thread'[u] = thread[u]
BY DEF ManagerInv

\* A thread that hands over a transaction is where it waits for it.
LEMMA HandsGoes ==
    ASSUME ManagerInv, NEW t \in {"manager", "ui"}, NEW what, Hands(t, what)
    PROVE  /\ DOMAIN thread' = {"manager", "ui"} /\ thread'[t].pc = what
           /\ \A u \in {"manager", "ui"} : u # t => thread'[u] = thread[u]
<1>1. PICK c \in Calls : thread' = [thread EXCEPT ![t] = [pc |-> what, call |-> c]]
  BY DEF Hands
<1> QED BY <1>1, ThreadGoes

\* The purposes of the calls, when one is handed over.
LEMMA HandsPurpose ==
    ASSUME DOMAIN purpose = Calls, NEW t, NEW what, Hands(t, what)
    PROVE  DOMAIN purpose' = Calls /\ \A c \in Calls : purpose'[c] = purpose[c] \/ purpose'[c] = what
<1>1. PICK c \in Calls : purpose' = [purpose EXCEPT ![c] = what]
  BY DEF Hands
<1> QED BY <1>1

\* Thread t sets out to register the builder.
Deposits(t) == thread[t].pc # "deposit" /\ thread'[t].pc = "deposit"

\* What no step may do.
NoneAgain == \A t \in {"manager", "ui"} : Deposits(t) /\ entry = "converted" => t = "ui" /\ ~stats.gloas

\* The steps that leave the stats alone.
LEMMA ThreadInv ==
    ASSUME ManagerInv, UNCHANGED chainVars, stats' = stats,
           DOMAIN thread' = {"manager", "ui"},
           thread'["manager"].pc \in {"check", "deposit", "wait"} => stats.gloas
    PROVE  ManagerInv'
BY DEF ManagerInv, Epoch, chainVars

\* The steps that load them.
LEMMA LoadInv ==
    ASSUME ManagerInv, UNCHANGED chainVars, NEW e, stats' = StatsAs(e),
           DOMAIN thread' = {"manager", "ui"},
           thread'["manager"].pc \in {"check", "deposit", "wait"} => headState.epoch >= ForkEpoch
    PROVE  ManagerInv'
<1>1. /\ stats'.gloas <=> headState.epoch >= ForkEpoch
      /\ stats'.known <=> headState.epoch >= ForkEpoch /\ headState.entry \in {"converted", "active", "exited"}
  BY StatsFields
<1> QED BY <1>1 DEF ManagerInv, Epoch, chainVars

\* The steps of EnsureBuilderRegistered, by thread t.
LEMMA RegisterInv ==
    ASSUME ManagerInv, NEW t \in {"manager", "ui"}, NEW from, NEW to,
           t = "manager" => from \in {"check", "deposit", "wait"},
           \/ EnsureBuilderRegistered(t, from, to)
           \/ from = "deposit" /\ DepositReturns(t, to)
           \/ from = "wait" /\ WaitTimeout(t, to),
           to # "deposit"
    PROVE  ManagerInv' /\ NoneAgain
<1>1. UNCHANGED chainVars /\ stats' = stats /\ (t = "manager" => stats.gloas)
  BY DEF EnsureBuilderRegistered, DepositReturns, WaitTimeout, Answered, others, ManagerInv
<1>2. CASE \E pc : pc # "deposit" /\ Goes(t, pc)
  <2>1. PICK pc : pc # "deposit" /\ Goes(t, pc)
    BY <1>2
  <2>2. /\ DOMAIN thread' = {"manager", "ui"} /\ thread'[t].pc = pc
        /\ \A u \in {"manager", "ui"} : u # t => thread'[u] = thread[u]
    BY <2>1, ThreadGoes DEF Goes, At
  <2>3. thread'["manager"].pc \in {"check", "deposit", "wait"} => stats.gloas
    BY <1>1, <2>2 DEF ManagerInv
  <2> QED BY <1>1, <2>1, <2>2, <2>3, ThreadInv DEF NoneAgain, Deposits
<1>3. CASE ~stats.known /\ Hands(t, "deposit")
  <2>1. /\ DOMAIN thread' = {"manager", "ui"}
        /\ \A u \in {"manager", "ui"} : u # t => thread'[u] = thread[u]
    BY <1>3, HandsGoes
  <2>2. thread'["manager"].pc \in {"check", "deposit", "wait"} => stats.gloas
    BY <1>1, <2>1 DEF ManagerInv
  <2>3. entry = "converted" => ~stats.gloas
    BY <1>3 DEF ManagerInv
  <2> QED BY <1>1, <2>1, <2>2, <2>3, ThreadInv DEF NoneAgain, Deposits
<1>4. EnsureBuilderRegistered(t, from, to) => Goes(t, to) \/ (~stats.known /\ Hands(t, "deposit"))
  BY DEF EnsureBuilderRegistered, CreateDeposit
<1>5. DepositReturns(t, to) \/ WaitTimeout(t, to) => Goes(t, to) \/ Goes(t, "wait")
  BY DEF DepositReturns, WaitTimeout
<1> QED BY <1>2, <1>3, <1>4, <1>5

\* WaitForRegistration, by thread t.
LEMMA WaitInv ==
    ASSUME ManagerInv, NEW t \in {"manager", "ui"}, NEW pc,
           NEW next \in {"gloas", "monitor", "none"}, WaitForRegistration(t, pc, next)
    PROVE  ManagerInv' /\ NoneAgain
<1>1. /\ UNCHANGED chainVars /\ stats' = StatsAs(stats.epoch)
      /\ Goes(t, next) \/ thread' = thread
  BY DEF WaitForRegistration
<1>2. /\ DOMAIN thread' = {"manager", "ui"}
      /\ \A u \in {"manager", "ui"} : thread'[u].pc = next \/ thread'[u] = thread[u]
  BY <1>1, ThreadGoes DEF Goes, At, ManagerInv
<1>3. thread'["manager"].pc \in {"check", "deposit", "wait"} => headState.epoch >= ForkEpoch
  BY <1>2 DEF ManagerInv
<1> QED BY <1>1, <1>2, <1>3, LoadInv DEF NoneAgain, Deposits

\* Top-ups and the exit, by thread t.
LEMMA TopupInv ==
    ASSUME ManagerInv, NEW t \in {"manager", "ui"}, NEW pc \in {"monitor", "none"},
           CheckAndTopup(t, pc) \/ TopupReturns(t, pc) \/ (t = "ui" /\ (InitiateExit \/ ExitReturns))
    PROVE  ManagerInv' /\ NoneAgain
<1>1. UNCHANGED chainVars /\ stats' = stats
  BY DEF CheckAndTopup, TopupReturns, InitiateExit, ExitReturns, others
<1>2. \/ \E what \in {"topup", "exit"} : Hands(t, what)
      \/ \E to \in {"monitor", "none"} : Goes(t, to)
  BY DEF CheckAndTopup, TopupReturns, InitiateExit, ExitReturns, CreateDeposit, CreateExit
<1>3. /\ DOMAIN thread' = {"manager", "ui"} /\ thread'[t].pc \in {"topup", "exit", "monitor", "none"}
      /\ \A u \in {"manager", "ui"} : u # t => thread'[u] = thread[u]
  BY <1>2, HandsGoes, ThreadGoes DEF Goes, At
<1>4. thread'["manager"].pc \in {"check", "deposit", "wait"} => stats.gloas
  BY <1>3 DEF ManagerInv
<1> QED BY <1>1, <1>3, <1>4, ThreadInv DEF NoneAgain, Deposits

\* The manager.
LEMMA ManagerStepInv ==
    ASSUME ManagerInv, ManagerStep
    PROVE  ManagerInv' /\ NoneAgain
<1>1. CASE Start \/ NextEpoch \/ EarlyReturns \/ EarlyWaitTimeout
  <2>1. PICK pc \in {"gloas", "evaluate", "await", "earlyWait"} : Goes("manager", pc)
    BY <1>1 DEF Start, NextEpoch, EarlyReturns, EarlyWaitTimeout
  <2>2. UNCHANGED chainVars /\ stats' = stats
    BY <1>1 DEF Start, NextEpoch, EarlyReturns, EarlyWaitTimeout, others
  <2>3. DOMAIN thread' = {"manager", "ui"} /\ thread'["manager"].pc = pc /\ thread'["ui"] = thread["ui"]
    BY <2>1, ThreadGoes DEF Goes, At
  <2> QED BY <2>2, <2>3, ThreadInv DEF NoneAgain, Deposits
<1>2. CASE TryEarlyOnboardOnce
  <2>1. UNCHANGED chainVars /\ stats' = stats
    BY <1>2 DEF TryEarlyOnboardOnce
  <2>2. Evaluation \in {"gloas", "earlyWait", "early", "await"}
    BY DEF Evaluation
  <2>3. \/ \E pc \in {"await", "gloas", "earlyWait"} : Goes("manager", pc)
        \/ Hands("manager", "early")
    BY <1>2, <2>2 DEF TryEarlyOnboardOnce, CreateEarlyDeposit
  <2>4. /\ DOMAIN thread' = {"manager", "ui"} /\ thread'["ui"] = thread["ui"]
        /\ thread'["manager"].pc \in {"await", "gloas", "earlyWait", "early"}
    BY <2>3, HandsGoes, ThreadGoes DEF Goes, At
  <2> QED BY <2>1, <2>4, ThreadInv DEF NoneAgain, Deposits
<1>3. CASE WaitForGloasState
  <2>1. UNCHANGED chainVars /\ stats' = stats /\ stats.gloas
    BY <1>3 DEF WaitForGloasState, others
  <2>2. DOMAIN thread' = {"manager", "ui"} /\ thread'["manager"].pc = "check" /\ thread'["ui"] = thread["ui"]
    BY <1>3, ThreadGoes DEF WaitForGloasState, Goes, At
  <2> QED BY <2>1, <2>2, ThreadInv DEF NoneAgain, Deposits
<1>4. CASE EnsureBuilderRegistered("manager", "check", "monitor")
  BY <1>4, RegisterInv
<1>5. CASE DepositReturns("manager", "check") \/ WaitTimeout("manager", "check")
  BY <1>5, RegisterInv
<1>6. CASE \/ WaitForRegistration("manager", "earlyWait", "gloas")
           \/ WaitForRegistration("manager", "wait", "monitor")
  BY <1>6, WaitInv
<1>7. CASE CheckAndTopup("manager", "monitor") \/ TopupReturns("manager", "monitor")
  BY <1>7, TopupInv
<1> QED BY <1>1, <1>2, <1>3, <1>4, <1>5, <1>6, <1>7 DEF ManagerStep

\* The web UI.
LEMMA UiStepInv ==
    ASSUME ManagerInv, UiStep
    PROVE  ManagerInv' /\ NoneAgain
<1>1. CASE EnsureBuilderRegistered("ui", "none", "none")
  BY <1>1, RegisterInv
<1>2. CASE DepositReturns("ui", "none") \/ WaitTimeout("ui", "none")
  BY <1>2, RegisterInv
<1>3. CASE WaitForRegistration("ui", "wait", "none")
  BY <1>3, WaitInv
<1>4. CASE CheckAndTopup("ui", "none") \/ TopupReturns("ui", "none") \/ InitiateExit \/ ExitReturns
  BY <1>4, TopupInv
<1> QED BY <1>1, <1>2, <1>3, <1>4 DEF UiStep

\* The chain: only the fork itself converts, and no Gloas state is older.
LEMMA ChainInv ==
    ASSUME ManagerInv, Tick \/ Block \/ MineTx
    PROVE  ManagerInv'
<1>1. stats' = stats /\ thread' = thread
  BY DEF Tick, Block, MineTx
<1>2. CASE Tick
  <2>1. now' = now + 1 /\ now \in Nat /\ headState' = headState
    BY <1>2 DEF Tick, ManagerInv
  <2>2. /\ Epoch(now) \in Nat /\ Epoch(now') \in Nat /\ Epoch(now) <= Epoch(now') /\ ForkEpoch \in Nat
        /\ Epoch(now)' = Epoch(now')
    <3>1. Epoch(now)' = Epoch(now')
      BY DEF Epoch
    <3> QED BY <2>1, <3>1, EpochMonotone, LifecycleAssumption
  <2>3. headState'.epoch \in Nat /\ headState'.epoch <= Epoch(now)'
    BY <2>1, <2>2 DEF ManagerInv
  <2>4. CASE entry' = entry
    BY <1>1, <2>1, <2>2, <2>3, <2>4 DEF ManagerInv
  <2>5. CASE entry' # entry
    <3>1. Epoch(now) < ForkEpoch
      BY <1>2, <2>2, <2>5 DEF Tick
    <3>2. entry' = "converted" => Epoch(now)' >= ForkEpoch
      <4>1. entry' = "converted" => Epoch(now') = ForkEpoch
        BY <1>2, <2>5 DEF Tick
      <4> QED BY <2>2, <4>1
    <3>3. ~(headState.epoch >= ForkEpoch) /\ ~stats.gloas
      BY <2>2, <3>1 DEF ManagerInv
    <3> QED BY <1>1, <2>1, <2>3, <3>2, <3>3 DEF ManagerInv
  <2> QED BY <2>4, <2>5
<1>3. CASE Block \/ MineTx
  <2>1. now' = now /\ entry' \in {entry, "active", "exited"}
    BY <1>3 DEF Block, MineTx
  <2>2. headState'.epoch = Epoch(now) /\ headState'.entry = entry'
    <3>1. headState' = [epoch |-> Epoch(now), queue |-> queue', dbtc |-> dbtc', entry |-> entry']
      BY <1>3 DEF Block, MineTx, Current, Epoch
    <3> QED BY <3>1
  <2>3. Epoch(now) \in Nat /\ Epoch(now)' = Epoch(now) /\ ForkEpoch \in Nat
    BY <2>1, EpochMonotone, LifecycleAssumption DEF ManagerInv, Epoch
  <2>4. stats.gloas => Epoch(now) >= ForkEpoch
    BY <2>3 DEF ManagerInv
  <2> QED BY <1>1, <2>1, <2>2, <2>3, <2>4 DEF ManagerInv
<1> QED BY <1>2, <1>3

\* The invariant is inductive, and no step deposits for a converted builder.
LEMMA ManagerInvStep ==
    ASSUME ManagerInv, [Next]_vars
    PROVE  ManagerInv' /\ NoneAgain
<1>1. CASE UNCHANGED vars
  BY <1>1 DEF vars, chainVars, ManagerInv, Epoch, NoneAgain, Deposits
<1>2. CASE Tick \/ Block \/ MineTx
  <2>1. thread' = thread
    BY <1>2 DEF Tick, Block, MineTx
  <2> QED BY <1>2, <2>1, ChainInv DEF NoneAgain, Deposits
<1>3. CASE AccountStep \/ WalletActs
  <2>1. UNCHANGED chainVars /\ stats' = stats /\ thread' = thread
    BY <1>3 DEF AccountStep, WalletActs, others
  <2> QED BY <2>1, ThreadInv DEF ManagerInv, NoneAgain, Deposits
<1>4. CASE LoadStats
  <2>1. UNCHANGED chainVars /\ stats' = StatsAs(headState.epoch) /\ thread' = thread
    BY <1>4 DEF LoadStats
  <2>2. /\ DOMAIN thread' = {"manager", "ui"}
        /\ thread'["manager"].pc \in {"check", "deposit", "wait"} => headState.epoch >= ForkEpoch
    BY <2>1 DEF ManagerInv
  <2> QED BY <2>1, <2>2, LoadInv DEF NoneAgain, Deposits
<1>5. CASE ManagerStep
  BY <1>5, ManagerStepInv
<1>6. CASE UiStep
  BY <1>6, UiStepInv
<1>7. CASE Restart
  <2>1. UNCHANGED chainVars /\ stats' = StatsAs(Epoch(now)) /\ thread' = Begun
    BY <1>7 DEF Restart
  <2>2. /\ DOMAIN thread' = {"manager", "ui"}
        /\ thread'["manager"].pc = "start" /\ thread'["ui"].pc = "none"
    BY <2>1 DEF Begun, At
  <2> QED BY <2>1, <2>2, LoadInv DEF NoneAgain, Deposits
<1> QED BY <1>1, <1>2, <1>3, <1>4, <1>5, <1>6, <1>7 DEF Next

\* The manager's invariant holds throughout.
THEOREM ManagerInvariant == FairSpec => []ManagerInv
<1>1. Init => ManagerInv
  <2> SUFFICES ASSUME Init PROVE ManagerInv
    OBVIOUS
  <2>1. /\ now = 0 /\ entry = "none" /\ stats = StatsAs(0) /\ thread = Begun /\ headState = Current
    BY DEF Init
  <2>2. DOMAIN thread = {"manager", "ui"} /\ thread["manager"].pc = "start"
    BY <2>1 DEF Begun, At
  <2>3. headState.epoch = Epoch(now) /\ Epoch(now) \in Nat
    BY <2>1, EpochMonotone DEF Current
  <2>4. stats.gloas => headState.epoch >= ForkEpoch
    BY <2>1, StatsFields
  <2> QED BY <2>1, <2>2, <2>3, <2>4 DEF ManagerInv
<1>2. ManagerInv /\ [Next]_vars => ManagerInv'
  BY ManagerInvStep
<1> QED BY <1>1, <1>2, PTL DEF FairSpec

\* When an early deposit became a builder at the fork, the manager makes no second
\* deposit, and a request of the web UI makes none once a Gloas state is loaded, with any
\* deposits, restarts, failing calls and timing of blocks and of the state's arrival.
THEOREM NoDepositForConverted == FairSpec => NoSecondDeposit
<1>1. ManagerInv /\ [Next]_vars =>
        [\A t \in DOMAIN thread :
           thread[t].pc # "deposit" /\ thread'[t].pc = "deposit" /\ entry = "converted"
             => t = "ui" /\ ~stats.gloas]_vars
  BY ManagerInvStep DEF NoneAgain, Deposits, ManagerInv
<1> QED BY <1>1, ManagerInvariant, PTL DEF FairSpec, NoSecondDeposit

-----------------------------------------------------------------------------
(* The deposit queue: sums, and what one epoch takes.                      *)

\* The sums exist over every part of the queue, so Sums satisfies its recursive
\* definition: there is no first entry that ends them.
LEMMA SumsUnfold ==
    ASSUME NEW a \in Seq(Nat)
    PROVE  \A i \in 0 .. Len(a) : Sums(a)[i] = IF i = 0 THEN 0 ELSE Sums(a)[i - 1] + a[i]
<1> DEFINE N == Len(a)
           Step(f, i) == IF i = 0 THEN 0 ELSE f[i - 1] + a[i]
           Sum(n) == \E f \in [0 .. n -> Nat] : \A i \in 0 .. n : f[i] = Step(f, i)
           Bad == {n \in 0 .. N : ~Sum(n)}
<1>1. N \in Nat /\ \A n \in 0 .. N : n # 0 => a[n] \in Nat
  OBVIOUS
<1>2. Sum(0)
  <2>1. [i \in 0 .. 0 |-> 0] \in [0 .. 0 -> Nat]
    OBVIOUS
  <2>2. \A i \in 0 .. 0 : [j \in 0 .. 0 |-> 0][i] = Step([j \in 0 .. 0 |-> 0], i)
    OBVIOUS
  <2> QED BY <2>1, <2>2
<1> HIDE DEF N
<1>3. ASSUME NEW n \in 0 .. N, n # 0, Sum(n - 1)
      PROVE  Sum(n)
  <2>1. PICK f \in [0 .. n - 1 -> Nat] : \A i \in 0 .. n - 1 : f[i] = Step(f, i)
    BY <1>3
  <2>2. n - 1 \in 0 .. n - 1 /\ a[n] \in Nat /\ n \in Nat
    BY <1>1, <1>3
  <2> DEFINE F == [i \in 0 .. n |-> IF i = n THEN f[n - 1] + a[n] ELSE f[i]]
  <2>3. \A i \in 0 .. n : i # n => i \in 0 .. n - 1
    BY <2>2
  <2>4. F \in [0 .. n -> Nat]
    BY <2>1, <2>2, <2>3
  <2>5. ASSUME NEW i \in 0 .. n PROVE F[i] = Step(F, i)
    <3>1. CASE i = n
      <4>1. F[i] = f[n - 1] + a[n]
        BY <3>1
      <4>2. n - 1 # n /\ n - 1 \in 0 .. n
        BY <2>2
      <4>3. F[i - 1] = f[n - 1]
        BY <3>1, <4>2
      <4> QED BY <1>3, <3>1, <4>1, <4>3
    <3>2. CASE i # n /\ i # 0
      <4>1. i - 1 # n /\ i - 1 \in 0 .. n /\ i \in 0 .. n - 1
        BY <2>2, <3>2
      <4>2. F[i] = f[i] /\ F[i - 1] = f[i - 1]
        BY <3>2, <4>1
      <4> QED BY <2>1, <3>2, <4>1, <4>2
    <3>3. CASE i = 0 /\ i # n
      <4>1. F[i] = f[i] /\ i \in 0 .. n - 1
        BY <2>2, <3>3
      <4> QED BY <2>1, <3>3, <4>1
    <3> QED BY <3>1, <3>2, <3>3
  <2> HIDE DEF F, Step
  <2> QED BY <2>4, <2>5
<1> HIDE DEF Sum
<1>4. Bad = {}
  <2> SUFFICES ASSUME Bad # {} PROVE FALSE
    OBVIOUS
  <2>1. Bad \in SUBSET Nat
    BY <1>1
  <2>2. PICK n \in Bad : \A y \in Bad : n <= y
    BY <2>1, LeastNatural
  <2>3. n \in 0 .. N /\ n # 0 /\ ~Sum(n)
    BY <1>2, <2>2
  <2>4. n - 1 \in 0 .. N /\ ~(n <= n - 1)
    BY <1>1, <2>3
  <2>5. Sum(n - 1)
    BY <2>2, <2>4
  <2> QED BY <1>3, <2>3, <2>5
<1>5. Sum(N)
  BY <1>1, <1>4
<1>6. PICK f \in [0 .. N -> Nat] : \A i \in 0 .. N : f[i] = Step(f, i)
  BY <1>5 DEF Sum
<1> DEFINE P(g) == g = [i \in 0 .. N |-> Step(g, i)]
<1>7. P(f)
  BY <1>6
<1>8. Sums(a) = CHOOSE g : P(g)
  BY DEF Sums, N
<1>9. P(Sums(a))
  BY <1>7, <1>8
<1>10. \A i \in 0 .. N : Sums(a)[i] = Step(Sums(a), i)
  BY <1>9
<1> QED BY <1>10 DEF N

LEMMA SumsType ==
    ASSUME NEW a \in Seq(Nat)
    PROVE  \A i \in 0 .. Len(a) : Sums(a)[i] \in Nat
<1> DEFINE Bad == {i \in 0 .. Len(a) : Sums(a)[i] \notin Nat}
<1> SUFFICES ASSUME Bad # {} PROVE FALSE
  OBVIOUS
<1>1. Len(a) \in Nat /\ Bad \in SUBSET Nat /\ \A n \in 0 .. Len(a) : n # 0 => a[n] \in Nat
  OBVIOUS
<1>2. PICK n \in Bad : \A y \in Bad : n <= y
  BY <1>1, LeastNatural
<1>3. n # 0
  BY <1>2, SumsUnfold
<1>4. n - 1 \in 0 .. Len(a) /\ ~(n <= n - 1)
  BY <1>1, <1>2, <1>3
<1>5. Sums(a)[n - 1] \in Nat /\ a[n] \in Nat
  BY <1>1, <1>2, <1>3, <1>4
<1>6. Sums(a)[n] = Sums(a)[n - 1] + a[n]
  BY <1>2, <1>3, SumsUnfold
<1> QED BY <1>2, <1>5, <1>6

LEMMA SumsGrow ==
    ASSUME NEW a \in Seq(Nat), NEW i \in 0 .. Len(a), NEW j \in 0 .. Len(a), i <= j
    PROVE  Sums(a)[i] <= Sums(a)[j]
<1> DEFINE Bad == {k \in 0 .. Len(a) : i <= k /\ ~(Sums(a)[i] <= Sums(a)[k])}
<1> SUFFICES ASSUME Bad # {} PROVE FALSE
  OBVIOUS
<1>1. Len(a) \in Nat /\ Bad \in SUBSET Nat /\ \A n \in 0 .. Len(a) : n # 0 => a[n] \in Nat
  OBVIOUS
<1>2. PICK n \in Bad : \A y \in Bad : n <= y
  BY <1>1, LeastNatural
<1>3. Sums(a)[i] \in Nat /\ i \in Nat /\ n \in Nat
  BY <1>1, <1>2, SumsType
<1>4. n # i
  BY <1>2, <1>3
<1>5. n - 1 \in 0 .. Len(a) /\ ~(n <= n - 1) /\ i <= n - 1 /\ n # 0
  BY <1>1, <1>2, <1>3, <1>4
<1>6. Sums(a)[i] <= Sums(a)[n - 1] /\ a[n] \in Nat /\ Sums(a)[n - 1] \in Nat
  BY <1>1, <1>2, <1>5, SumsType
<1>7. Sums(a)[n] = Sums(a)[n - 1] + a[n]
  BY <1>2, <1>5, SumsUnfold
<1> QED BY <1>2, <1>3, <1>6, <1>7

\* The sums of a queue that is what is left of another one.
LEMMA SumsShift ==
    ASSUME NEW a \in Seq(Nat), NEW b \in Seq(Nat), NEW d \in Nat, NEW m \in Nat,
           d + m <= Len(a), m <= Len(b), \A i \in 1 .. m : b[i] = a[d + i]
    PROVE  \A i \in 0 .. m : Sums(a)[d + i] = Sums(a)[d] + Sums(b)[i]
<1> DEFINE Bad == {k \in 0 .. m : ~(Sums(a)[d + k] = Sums(a)[d] + Sums(b)[k])}
<1> SUFFICES ASSUME Bad # {} PROVE FALSE
  OBVIOUS
<1>1. Len(a) \in Nat /\ Len(b) \in Nat /\ Bad \in SUBSET Nat
      /\ \A n \in 0 .. Len(a) : n # 0 => a[n] \in Nat
  OBVIOUS
<1>2. PICK n \in Bad : \A y \in Bad : n <= y
  BY <1>1, LeastNatural
<1>3. n \in Nat /\ n <= m /\ d \in 0 .. Len(a) /\ Sums(a)[d] \in Nat
  BY <1>1, <1>2, SumsType
<1>4. n # 0
  <2>1. Sums(b)[0] = 0 /\ d + 0 = d
    BY <1>1, SumsUnfold
  <2> QED BY <1>2, <1>3, <2>1
<1>5. /\ n - 1 \in 0 .. m /\ ~(n <= n - 1) /\ n \in 1 .. m /\ n \in 0 .. Len(b) /\ n - 1 \in 0 .. Len(b)
      /\ d + n \in 0 .. Len(a) /\ d + n # 0 /\ d + (n - 1) = (d + n) - 1 /\ d + (n - 1) \in 0 .. Len(a)
  <2>1. \A x, y, z, u \in Nat : z # 0 /\ z <= y /\ u + y <= x => u + (z - 1) = (u + z) - 1 /\ u + (z - 1) \in 0 .. x
    OBVIOUS
  <2>2. d + (n - 1) = (d + n) - 1 /\ d + (n - 1) \in 0 .. Len(a)
    BY <1>1, <1>3, <1>4, <2>1
  <2> HIDE DEF Bad
  <2> QED BY <1>1, <1>3, <1>4, <2>2
<1>6. Sums(a)[d + (n - 1)] = Sums(a)[d] + Sums(b)[n - 1]
  BY <1>2, <1>5
<1>7. Sums(a)[d + n] = Sums(a)[d + (n - 1)] + a[d + n]
  BY <1>5, SumsUnfold
<1>8. Sums(b)[n] = Sums(b)[n - 1] + b[n]
  BY <1>4, <1>5, SumsUnfold
<1>9. Sums(b)[n - 1] \in Nat /\ a[d + n] \in Nat /\ b[n] = a[d + n]
  BY <1>1, <1>5, SumsType
<1>10. Sums(a)[d + n] = Sums(a)[d] + Sums(b)[n]
  <2>1. \A x, y, z \in Nat : (x + y) + z = x + (y + z)
    OBVIOUS
  <2>2. (Sums(a)[d] + Sums(b)[n - 1]) + a[d + n] = Sums(a)[d] + (Sums(b)[n - 1] + a[d + n])
    BY <1>3, <1>9, <2>1
  <2>3. Sums(a)[d + n] = (Sums(a)[d] + Sums(b)[n - 1]) + a[d + n]
    BY <1>6, <1>7
  <2>4. Sums(b)[n] = Sums(b)[n - 1] + a[d + n]
    BY <1>8, <1>9
  <2> QED BY <2>2, <2>3, <2>4
<1> QED BY <1>2, <1>10

LEMMA LargestUpTo ==
    ASSUME NEW S \in SUBSET Nat, S # {}, NEW n \in Nat, \A y \in S : y <= n
    PROVE  Max(S) \in S /\ \A y \in S : y <= Max(S)
<1> DEFINE U == {u \in Nat : \A y \in S : y <= u}
<1>1. U \in SUBSET Nat /\ U # {}
  OBVIOUS
<1>2. PICK m \in U : \A u \in U : m <= u
  BY <1>1, LeastNatural
<1>3. m \in S
  <2> SUFFICES ASSUME m \notin S PROVE FALSE
    OBVIOUS
  <2>1. m # 0
    <3>1. ASSUME m = 0, NEW y \in S PROVE FALSE
      <4>1. y \in Nat /\ y <= 0
        BY <1>2, <3>1
      <4>2. y = 0
        BY <4>1
      <4> QED BY <3>1, <4>2
    <3> QED BY <3>1
  <2>2. m - 1 \in Nat /\ ~(m <= m - 1)
    BY <1>2, <2>1
  <2>3. \A y \in S : y <= m - 1
    BY <1>2, <2>2
  <2> QED BY <1>2, <2>2, <2>3
<1>4. \E x \in S : \A y \in S : x >= y
  BY <1>2, <1>3
<1>5. Max(S) \in S /\ \A y \in S : Max(S) >= y
  BY <1>4 DEF Max
<1> QED BY <1>5

LEMMA ChurnLimitType == ChurnLimit \in Nat
<1>1. /\ ActiveBalance \in Nat /\ ChurnQuotient \in Nat \ {0} /\ MinChurn \in Nat /\ MaxChurn \in Nat
      /\ Increment \in Nat \ {0}
  BY LifecycleAssumption
<1>2. \A x, y \in Nat : Max({x, y}) \in Nat /\ Min({x, y}) \in Nat
  <2> TAKE x, y \in Nat
  <2>1. \E m \in {x, y} : \A z \in {x, y} : m >= z
    OBVIOUS
  <2>2. Max({x, y}) \in {x, y}
    BY <2>1 DEF Max
  <2>3. \E m \in {x, y} : \A z \in {x, y} : m <= z
    OBVIOUS
  <2>4. Min({x, y}) \in {x, y}
    BY <2>3 DEF Min
  <2> QED BY <2>2, <2>4
<1>3. ActiveBalance \div ChurnQuotient \in Nat
  BY <1>1
<1> DEFINE churn == Max({ActiveBalance \div ChurnQuotient, MinChurn})
           whole == churn - (churn % Increment)
<1>4. churn \in Nat
  BY <1>1, <1>2, <1>3
<1> HIDE DEF churn
<1>5. whole \in Nat
  <2>1. churn % Increment \in 0 .. Increment - 1 /\ churn \div Increment \in Nat
        /\ churn = Increment * (churn \div Increment) + (churn % Increment)
    BY <1>1, <1>4
  <2>2. Increment * (churn \div Increment) \in Nat
    BY <1>1, <2>1
  <2> QED BY <1>4, <2>1, <2>2
<1> HIDE DEF whole
<1>6. ChurnLimit = IF MaxChurn > 0 THEN Min({whole, MaxChurn}) ELSE whole
  BY DEF ChurnLimit, whole, churn
<1> QED BY <1>1, <1>2, <1>5, <1>6

\* What one epoch takes fits, and is stopped by the count, the last entry or the budget.
LEMMA FitsFacts ==
    ASSUME NEW a \in Seq(Nat), NEW head \in Nat, NEW last \in Nat, head <= last, last <= Len(a),
           NEW budget \in Nat, NEW n, n = Fits(a, head, last, budget)
    PROVE  /\ n \in 0 .. MaxPerEpoch /\ head + n <= last
           /\ Total(a, head, n) \in Nat /\ Total(a, head, n) <= budget
           /\ ChurnLimited(head, last, n) => Total(a, head, n + 1) > budget
<1> DEFINE S == {k \in 0 .. MaxPerEpoch : head + k <= last /\ Total(a, head, k) <= budget}
<1>1. MaxPerEpoch \in Nat /\ Len(a) \in Nat
  BY LifecycleAssumption
<1>2. \A k \in Nat : head + k <= last => Total(a, head, k) \in Nat
  <2> SUFFICES ASSUME NEW k \in Nat, head + k <= last PROVE Total(a, head, k) \in Nat
    OBVIOUS
  <2>1. head \in 0 .. Len(a) /\ head + k \in 0 .. Len(a) /\ head <= head + k
    BY <1>1
  <2>2. Sums(a)[head] \in Nat /\ Sums(a)[head + k] \in Nat /\ Sums(a)[head] <= Sums(a)[head + k]
    BY <2>1, SumsType, SumsGrow
  <2> QED BY <2>2 DEF Total
<1>3. Total(a, head, 0) = 0
  <2>1. head \in 0 .. Len(a) /\ head + 0 = head
    BY <1>1
  <2>2. Sums(a)[head] \in Nat
    BY <2>1, SumsType
  <2> QED BY <2>1, <2>2 DEF Total
<1>4. 0 \in S
  BY <1>1, <1>3
<1>5. S \in SUBSET Nat /\ \A y \in S : y <= MaxPerEpoch
  BY <1>1
<1>6. n = Max(S)
  BY DEF Fits
<1>7. n \in S /\ \A y \in S : y <= n
  BY <1>1, <1>4, <1>5, <1>6, LargestUpTo
<1>8. n \in Nat /\ Total(a, head, n) \in Nat
  BY <1>1, <1>2, <1>7
<1>9. ASSUME ChurnLimited(head, last, n) PROVE Total(a, head, n + 1) > budget
  <2>1. n + 1 \in 0 .. MaxPerEpoch /\ head + (n + 1) <= last /\ ~(n + 1 <= n)
    BY <1>1, <1>8, <1>9 DEF ChurnLimited
  <2>2. n + 1 \notin S /\ Total(a, head, n + 1) \in Nat
    BY <1>2, <1>7, <1>8, <2>1
  <2> QED BY <2>1, <2>2
<1> QED BY <1>7, <1>8, <1>9

-----------------------------------------------------------------------------
(* The simulation is never behind the chain.                               *)

\* Queue b is what is left of queue a behind its first d entries, up to a's entry last.
Behind(a, b, d, last) ==
    /\ a \in Seq(Nat) /\ b \in Seq(Nat) /\ d \in Nat /\ last \in Nat
    /\ d <= last /\ last <= Len(a) /\ last - d <= Len(b)
    /\ \A i \in 1 .. last - d : b[i] = a[d + i]

\* One epoch may take n entries of b from place h on, with c to spend besides the churn
\* limit, and leave so much for the next one.
Takes(b, h, c, n, left) ==
    /\ h \in Nat /\ c \in Nat /\ left \in Nat /\ n \in 0 .. MaxPerEpoch /\ h + n <= Len(b)
    /\ Total(b, h, n) <= c + ChurnLimit
    /\ \/ left = 0
       \/ /\ n < MaxPerEpoch /\ h + n < Len(b) /\ Total(b, h, n + 1) > c + ChurnLimit
          /\ left = c + ChurnLimit - Total(b, h, n)

\* Place p of queue a, with c to spend, is not ahead of state r of the simulation.
NotAhead(a, p, c, r) == p <= r.head /\ Sums(a)[p] + c <= Sums(a)[r.head] + r.dbtc

SimState(last) == [head : 0 .. last, dbtc : Nat]

\* The facts of one transition of the simulation.
LEMMA DrainedFacts ==
    ASSUME NEW a \in Seq(Nat), NEW last \in Nat, last <= Len(a), NEW r \in SimState(last)
    PROVE  \E n \in 0 .. MaxPerEpoch :
             /\ Drained(a, last, r) \in SimState(last)
             /\ Drained(a, last, r).head = r.head + n
             /\ Drained(a, last, r).dbtc =
                  IF r.head + n < last /\ n < MaxPerEpoch
                  THEN r.dbtc + ChurnLimit - (Sums(a)[r.head + n] - Sums(a)[r.head]) ELSE 0
             /\ Sums(a)[r.head + n] <= Sums(a)[r.head] + (r.dbtc + ChurnLimit)
             /\ r.head + n < last /\ n < MaxPerEpoch =>
                  Sums(a)[r.head + n + 1] > Sums(a)[r.head] + (r.dbtc + ChurnLimit)
<1> DEFINE budget == r.dbtc + ChurnLimit
           n == Fits(a, r.head, last, budget)
<1>1. r.head \in Nat /\ r.head <= last /\ r.dbtc \in Nat /\ ChurnLimit \in Nat /\ MaxPerEpoch \in Nat /\ Len(a) \in Nat
  BY ChurnLimitType, LifecycleAssumption DEF SimState
<1>2. budget \in Nat /\ budget = r.dbtc + ChurnLimit
  BY <1>1
<1>3. /\ Drained(a, last, r) = [head |-> r.head + n, dbtc |-> Carried(a, r.head, last, n, budget)]
  BY DEF Drained
<1> HIDE DEF budget
<1>4. /\ n \in 0 .. MaxPerEpoch /\ r.head + n <= last
      /\ Total(a, r.head, n) \in Nat /\ Total(a, r.head, n) <= budget
      /\ ChurnLimited(r.head, last, n) => Total(a, r.head, n + 1) > budget
  BY <1>1, <1>2, FitsFacts
<1> HIDE DEF n
<1>5. r.head \in 0 .. Len(a) /\ r.head + n \in 0 .. Len(a) /\ n \in Nat
  BY <1>1, <1>4
<1>6. Sums(a)[r.head] \in Nat /\ Sums(a)[r.head + n] \in Nat
  BY <1>5, SumsType
<1>7. Total(a, r.head, n) = Sums(a)[r.head + n] - Sums(a)[r.head]
  BY DEF Total
<1>8. Sums(a)[r.head + n] <= Sums(a)[r.head] + budget
  BY <1>2, <1>4, <1>6, <1>7
<1>9. ASSUME r.head + n < last, n < MaxPerEpoch
      PROVE  Sums(a)[r.head + n + 1] > Sums(a)[r.head] + budget
  <2>1. r.head + n + 1 \in 0 .. Len(a) /\ r.head + (n + 1) = r.head + n + 1
    BY <1>1, <1>5, <1>9
  <2>2. Sums(a)[r.head + n + 1] \in Nat
    BY <2>1, SumsType
  <2>3. Sums(a)[r.head + n + 1] - Sums(a)[r.head] > budget
    BY <1>4, <1>9, <2>1 DEF ChurnLimited, Total
  <2> QED BY <1>2, <1>6, <2>2, <2>3
<1>10. Carried(a, r.head, last, n, budget) =
         IF r.head + n < last /\ n < MaxPerEpoch THEN budget - (Sums(a)[r.head + n] - Sums(a)[r.head]) ELSE 0
  BY <1>7 DEF Carried, ChurnLimited
<1>11. Carried(a, r.head, last, n, budget) \in Nat
  BY <1>2, <1>6, <1>8, <1>10
<1>12. r.head + n \in 0 .. last
  BY <1>1, <1>4, <1>5
<1>13. Drained(a, last, r) \in SimState(last)
  BY <1>3, <1>11, <1>12 DEF SimState
<1>14. /\ Drained(a, last, r).head = r.head + n
       /\ Drained(a, last, r).dbtc = Carried(a, r.head, last, n, budget)
  BY <1>3
<1>15. n \in 0 .. MaxPerEpoch
  BY <1>4
<1> WITNESS n \in 0 .. MaxPerEpoch
<1>16. /\ Sums(a)[r.head + n] <= Sums(a)[r.head] + (r.dbtc + ChurnLimit)
       /\ r.head + n < last /\ n < MaxPerEpoch => Sums(a)[r.head + n + 1] > Sums(a)[r.head] + (r.dbtc + ChurnLimit)
  BY <1>8, <1>9 DEF budget
<1>17. Drained(a, last, r).dbtc =
         IF r.head + n < last /\ n < MaxPerEpoch
         THEN r.dbtc + ChurnLimit - (Sums(a)[r.head + n] - Sums(a)[r.head]) ELSE 0
  <2>1. Drained(a, last, r).dbtc =
          IF r.head + n < last /\ n < MaxPerEpoch THEN budget - (Sums(a)[r.head + n] - Sums(a)[r.head]) ELSE 0
    BY <1>10, <1>14
  <2> QED BY <1>1, <1>2, <1>6, <2>1
<1> QED BY <1>13, <1>14, <1>16, <1>17

\* The sums of the two queues.
LEMMA BehindSums ==
    ASSUME NEW a, NEW b, NEW d, NEW last, Behind(a, b, d, last)
    PROVE  /\ \A i \in 0 .. last - d : Sums(a)[d + i] = Sums(a)[d] + Sums(b)[i]
           /\ \A i \in 0 .. last : Sums(a)[i] \in Nat
           /\ \A i \in 0 .. Len(b) : Sums(b)[i] \in Nat
           /\ \A i, j \in 0 .. last : i <= j => Sums(a)[i] <= Sums(a)[j]
           /\ \A i, j \in 0 .. Len(b) : i <= j => Sums(b)[i] <= Sums(b)[j]
<1>1. /\ a \in Seq(Nat) /\ b \in Seq(Nat) /\ d \in Nat /\ last \in Nat /\ last <= Len(a) /\ Len(a) \in Nat
      /\ last - d \in Nat /\ d + (last - d) <= Len(a) /\ last - d <= Len(b)
      /\ \A i \in 1 .. last - d : b[i] = a[d + i]
  BY DEF Behind
<1>2. \A i \in 0 .. last - d : Sums(a)[d + i] = Sums(a)[d] + Sums(b)[i]
  BY <1>1, SumsShift
<1>3. \A i \in 0 .. last : i \in 0 .. Len(a)
  BY <1>1
<1> QED BY <1>1, <1>2, <1>3, SumsType, SumsGrow

\* Arithmetic of the next two lemmas.
LEMMA OverBudget ==
    ASSUME NEW sd \in Nat, NEW sr \in Nat, NEW c \in Nat, NEW k \in Nat, NEW L \in Nat,
           NEW bh \in Nat, NEW bn \in Nat, NEW bx \in Nat, NEW sx \in Nat,
           (sd + bh) + c <= sr + k, bn - bh <= c + L, sx > sr + (k + L), sx = sd + bx, bx <= bn
    PROVE  FALSE
OBVIOUS

LEMMA WithinBudget ==
    ASSUME NEW sd \in Nat, NEW sr \in Nat, NEW c \in Nat, NEW k \in Nat, NEW L \in Nat,
           NEW bh \in Nat, NEW bn \in Nat, NEW sH \in Nat, NEW left \in Nat,
           (sd + bh) + c <= sr + k, bn - bh <= c + L, left <= c + L - (bn - bh)
    PROVE  (sd + bn) + left <= sH + (k + L - (sH - sr))
OBVIOUS

\* What one epoch may take does not get ahead of the simulation, if it was not ahead.
LEMMA TakerFollows ==
    ASSUME NEW a, NEW b, NEW d, NEW last, Behind(a, b, d, last), NEW r \in SimState(last),
           NEW h, NEW c, NEW n, NEW left, Takes(b, h, c, n, left), NotAhead(a, d + h, c, r),
           Drained(a, last, r).head < last
    PROVE  NotAhead(a, d + (h + n), left, Drained(a, last, r))
<1>1. /\ a \in Seq(Nat) /\ last \in Nat /\ last <= Len(a) /\ d \in Nat /\ d <= last /\ last - d <= Len(b)
      /\ Len(b) \in Nat
  BY DEF Behind
<1>2. r.head \in Nat /\ r.dbtc \in Nat /\ ChurnLimit \in Nat /\ MaxPerEpoch \in Nat
  BY <1>1, ChurnLimitType, LifecycleAssumption DEF SimState
<1>3. PICK ns \in 0 .. MaxPerEpoch :
        /\ Drained(a, last, r).head = r.head + ns
        /\ Drained(a, last, r).dbtc =
             IF r.head + ns < last /\ ns < MaxPerEpoch
             THEN r.dbtc + ChurnLimit - (Sums(a)[r.head + ns] - Sums(a)[r.head]) ELSE 0
        /\ r.head + ns < last /\ ns < MaxPerEpoch =>
             Sums(a)[r.head + ns + 1] > Sums(a)[r.head] + (r.dbtc + ChurnLimit)
  BY <1>1, DrainedFacts
<1>4. h \in Nat /\ c \in Nat /\ left \in Nat /\ n \in Nat /\ n <= MaxPerEpoch /\ h + n <= Len(b)
  BY <1>2 DEF Takes
<1>5. d + h <= r.head /\ Sums(a)[d + h] + c <= Sums(a)[r.head] + r.dbtc
  BY DEF NotAhead
<1>6. ns \in Nat /\ ns <= MaxPerEpoch /\ r.head + ns < last
  BY <1>2, <1>3
<1>7. Sums(b)[h + n] - Sums(b)[h] <= c + ChurnLimit
  BY DEF Takes, Total
<1>8. \/ left = 0
      \/ /\ n < MaxPerEpoch /\ h + n < Len(b) /\ Sums(b)[h + (n + 1)] - Sums(b)[h] > c + ChurnLimit
         /\ left = c + ChurnLimit - (Sums(b)[h + n] - Sums(b)[h])
  BY DEF Takes, Total
<1>9. /\ Drained(a, last, r).dbtc =
           IF ns < MaxPerEpoch THEN r.dbtc + ChurnLimit - (Sums(a)[r.head + ns] - Sums(a)[r.head]) ELSE 0
      /\ ns < MaxPerEpoch => Sums(a)[r.head + ns + 1] > Sums(a)[r.head] + (r.dbtc + ChurnLimit)
  BY <1>3, <1>6
<1>10. /\ d + (h + n) <= r.head + ns
       /\ Sums(a)[d + (h + n)] + left <= Sums(a)[r.head + ns] + Drained(a, last, r).dbtc
  <2> DEFINE SA == Sums(a)
             SB == Sums(b)
             rh == r.head
             rd == r.dbtc
             qd == Drained(a, last, r).dbtc
             lb == Len(b)
             L == ChurnLimit
             M == MaxPerEpoch
  <2>1. /\ \A i \in 0 .. last - d : SA[d + i] = SA[d] + SB[i]
        /\ \A i \in 0 .. last : SA[i] \in Nat
        /\ \A i \in 0 .. lb : SB[i] \in Nat
        /\ \A i, j \in 0 .. last : i <= j => SA[i] <= SA[j]
        /\ \A i, j \in 0 .. lb : i <= j => SB[i] <= SB[j]
    BY BehindSums
  <2>2. /\ rh \in Nat /\ rd \in Nat /\ L \in Nat /\ M \in Nat /\ lb \in Nat
        /\ last - d <= lb /\ n <= M /\ ns <= M /\ h + n <= lb /\ d + h <= rh /\ rh + ns < last
    BY <1>1, <1>2, <1>4, <1>5, <1>6
  <2>3. /\ qd = IF ns < M THEN rd + L - (SA[rh + ns] - SA[rh]) ELSE 0
        /\ ns < M => SA[rh + ns + 1] > SA[rh] + (rd + L)
        /\ SB[h + n] - SB[h] <= c + L
        /\ SA[d + h] + c <= SA[rh] + rd
    BY <1>5, <1>7, <1>9
  <2>4. \/ left = 0
        \/ /\ n < M /\ h + n < lb /\ SB[h + (n + 1)] - SB[h] > c + L
           /\ left = c + L - (SB[h + n] - SB[h])
    BY <1>8
  <2>5. d \in Nat /\ last \in Nat /\ d <= last /\ h \in Nat /\ c \in Nat /\ n \in Nat /\ left \in Nat /\ ns \in Nat
    BY <1>1, <1>4, <1>6
  <2> HIDE DEF SA, SB, rh, rd, qd, lb, L, M
  <2> USE <2>1, <2>2, <2>3, <2>4, <2>5
  <2>6. PICK H \in Nat : H = rh + ns
    OBVIOUS
  <2>7. PICK e \in Nat : d + e = H
    <3>1. H - d \in Nat /\ d + (H - d) = H
      BY <2>6
    <3> QED BY <3>1
  <2>8. /\ h \in 0 .. lb /\ h + n \in 0 .. lb /\ h \in 0 .. last - d /\ d \in 0 .. last
        /\ rh \in 0 .. last /\ H \in 0 .. last /\ H + 1 \in 0 .. last
    BY <2>6
  <2>9. /\ SA[d] \in Nat /\ SA[rh] \in Nat /\ SA[H] \in Nat /\ SA[H + 1] \in Nat
        /\ SB[h] \in Nat /\ SB[h + n] \in Nat /\ SA[d + h] = SA[d] + SB[h]
    BY <2>8
  <2>10. (SA[d] + SB[h]) + c <= SA[rh] + rd
    BY <2>9
  <2>11. h + n <= e
    <3>1. CASE ns = M
      BY <2>6, <2>7, <3>1
    <3>2. CASE ns # M
      <4>1. SA[H + 1] > SA[rh] + (rd + L)
        BY <2>6, <3>2
      <4> SUFFICES ASSUME ~(h + n <= e) PROVE FALSE
        OBVIOUS
      <4>2. /\ e + 1 \in 0 .. lb /\ e + 1 <= h + n
            /\ e + 1 \in 0 .. last - d /\ d + (e + 1) = H + 1
        BY <2>6, <2>7
      <4>3. SB[e + 1] <= SB[h + n] /\ SB[e + 1] \in Nat /\ SA[H + 1] = SA[d] + SB[e + 1]
        BY <2>8, <4>2
      <4> QED BY <2>9, <2>10, <4>1, <4>3, OverBudget
    <3> QED BY <3>1, <3>2
  <2>12. d + (h + n) <= H /\ d + (h + n) \in 0 .. last /\ h + n \in 0 .. last - d
    BY <2>6, <2>7, <2>11
  <2>13. SA[d + (h + n)] = SA[d] + SB[h + n] /\ SA[d + (h + n)] <= SA[H]
    BY <2>8, <2>12
  <2>14. SA[d + (h + n)] + left <= SA[H] + qd
    <3>1. CASE ns # M
      <4>1. qd = rd + L - (SA[H] - SA[rh])
        BY <2>6, <3>1
      <4>2. left <= c + L - (SB[h + n] - SB[h])
        BY <2>9
      <4>3. (SA[d] + SB[h + n]) + left <= SA[H] + (rd + L - (SA[H] - SA[rh]))
        BY <2>9, <2>10, <4>2, WithinBudget
      <4> QED BY <2>13, <4>1, <4>3
    <3>2. CASE ns = M
      <4>1. qd = 0
        BY <3>2
      <4>2. CASE left = 0
        BY <2>9, <2>13, <4>1, <4>2
      <4>3. CASE left # 0
        <5>1. n < M /\ h + n < lb /\ SB[h + (n + 1)] - SB[h] > c + L /\ left = c + L - (SB[h + n] - SB[h])
          BY <4>3
        <5>2. /\ h + (n + 1) \in 0 .. last - d /\ h + (n + 1) \in 0 .. lb
              /\ d + (h + (n + 1)) <= H /\ d + (h + (n + 1)) \in 0 .. last
          BY <2>6, <2>7, <3>2, <5>1
        <5>3. /\ SB[h + (n + 1)] \in Nat /\ SA[d + (h + (n + 1))] = SA[d] + SB[h + (n + 1)]
              /\ SA[d + (h + (n + 1))] <= SA[H]
          BY <2>8, <5>2
        <5>4. \A sd, bh, bn, bx, sh, k \in Nat :
                bx - bh > k /\ left = k - (bn - bh) /\ sd + bx <= sh => (sd + bn) + left <= sh
          OBVIOUS
        <5>5. c + L \in Nat
          OBVIOUS
        <5>6. (SA[d] + SB[h + n]) + left <= SA[H]
          BY <2>9, <5>1, <5>3, <5>4, <5>5
        <5> QED BY <2>9, <2>13, <4>1, <5>6
      <4> QED BY <4>2, <4>3
    <3> QED BY <3>1, <3>2
  <2>15. d + (h + n) <= rh + ns /\ SA[d + (h + n)] + left <= SA[rh + ns] + qd
    BY <2>6, <2>12, <2>14
  <2> QED BY <2>15 DEF SA, rh, qd
<1> QED BY <1>3, <1>10 DEF NotAhead

\* The simulation satisfies its recursive definition, and stays within the queue.
LEMMA SimUnfold ==
    ASSUME NEW a \in Seq(Nat), NEW last \in Nat, last <= Len(a), NEW carry \in Nat
    PROVE  /\ Simulated(a, last, carry)[0] = [head |-> 0, dbtc |-> carry]
           /\ \A t \in 0 .. ForkEpoch :
                /\ Simulated(a, last, carry)[t] \in SimState(last)
                /\ Simulated(a, last, carry)[t].head \in 0 .. last
                /\ Simulated(a, last, carry)[t].dbtc \in Nat
                /\ t # 0 => Simulated(a, last, carry)[t] = Drained(a, last, Simulated(a, last, carry)[t - 1])
<1> DEFINE N == ForkEpoch
           T == SimState(last)
           D(r) == Drained(a, last, r)
           z == [head |-> 0, dbtc |-> carry]
           Step(f, t) == IF t = 0 THEN z ELSE D(f[t - 1])
           Sim(n) == \E f \in [0 .. n -> T] : \A t \in 0 .. n : f[t] = Step(f, t)
           Bad == {n \in 0 .. N : ~Sim(n)}
<1>1. N \in Nat
  BY LifecycleAssumption
<1>2. z \in T /\ \A r \in T : D(r) \in T
  <2>1. z \in T
    BY DEF SimState
  <2>2. ASSUME NEW r \in SimState(last) PROVE Drained(a, last, r) \in SimState(last)
    BY DrainedFacts
  <2> QED BY <2>1, <2>2
<1> HIDE DEF N, T, D, z
<1>3. Sim(0)
  <2>1. [t \in 0 .. 0 |-> z] \in [0 .. 0 -> T]
    BY <1>2
  <2>2. \A t \in 0 .. 0 : [j \in 0 .. 0 |-> z][t] = Step([j \in 0 .. 0 |-> z], t)
    OBVIOUS
  <2> QED BY <2>1, <2>2
<1>4. ASSUME NEW n \in 0 .. N, n # 0, Sim(n - 1)
      PROVE  Sim(n)
  <2>1. PICK f \in [0 .. n - 1 -> T] : \A t \in 0 .. n - 1 : f[t] = Step(f, t)
    BY <1>4
  <2>2. n - 1 \in 0 .. n - 1 /\ n \in Nat
    BY <1>1, <1>4
  <2> DEFINE F == [t \in 0 .. n |-> IF t = n THEN D(f[n - 1]) ELSE f[t]]
  <2>3. \A t \in 0 .. n : t # n => t \in 0 .. n - 1
    BY <2>2
  <2>4. F \in [0 .. n -> T]
    BY <1>2, <2>1, <2>2, <2>3
  <2>5. ASSUME NEW t \in 0 .. n PROVE F[t] = Step(F, t)
    <3>1. CASE t = n
      <4>1. F[t] = D(f[n - 1])
        BY <3>1
      <4>2. n - 1 # n /\ n - 1 \in 0 .. n
        BY <2>2
      <4>3. F[t - 1] = f[n - 1]
        BY <3>1, <4>2
      <4> QED BY <1>4, <3>1, <4>1, <4>3
    <3>2. CASE t # n /\ t # 0
      <4>1. t - 1 # n /\ t - 1 \in 0 .. n /\ t \in 0 .. n - 1
        BY <2>2, <3>2
      <4>2. F[t] = f[t] /\ F[t - 1] = f[t - 1]
        BY <3>2, <4>1
      <4> QED BY <2>1, <3>2, <4>1, <4>2
    <3>3. CASE t = 0 /\ t # n
      <4>1. F[t] = f[t] /\ t \in 0 .. n - 1
        BY <2>2, <3>3
      <4> QED BY <2>1, <3>3, <4>1
    <3> QED BY <3>1, <3>2, <3>3
  <2> HIDE DEF F, Step
  <2> QED BY <2>4, <2>5
<1> HIDE DEF Sim
<1>5. Bad = {}
  <2> SUFFICES ASSUME Bad # {} PROVE FALSE
    OBVIOUS
  <2>1. Bad \in SUBSET Nat
    BY <1>1
  <2>2. PICK n \in Bad : \A y \in Bad : n <= y
    BY <2>1, LeastNatural
  <2>3. n \in 0 .. N /\ n # 0 /\ ~Sim(n)
    BY <1>3, <2>2
  <2>4. n - 1 \in 0 .. N /\ ~(n <= n - 1)
    BY <1>1, <2>3
  <2>5. Sim(n - 1)
    BY <2>2, <2>4
  <2> QED BY <1>4, <2>3, <2>5
<1>6. Sim(N)
  BY <1>1, <1>5
<1>7. PICK f \in [0 .. N -> T] : \A t \in 0 .. N : f[t] = Step(f, t)
  BY <1>6 DEF Sim
<1> DEFINE P(g) == g = [t \in 0 .. N |-> Step(g, t)]
<1>8. P(f)
  BY <1>7
<1> DEFINE S == Simulated(a, last, carry)
<1>9. S = CHOOSE g : P(g)
  BY DEF Simulated, N, D, z
<1> HIDE DEF S
<1>10. P(S)
  BY <1>8, <1>9
<1>11. \A t \in 0 .. N : S[t] = Step(S, t)
  BY <1>10
<1> DEFINE Out == {t \in 0 .. N : S[t] \notin T}
<1>12. Out = {}
  <2> SUFFICES ASSUME Out # {} PROVE FALSE
    OBVIOUS
  <2>1. Out \in SUBSET Nat
    BY <1>1
  <2>2. PICK n \in Out : \A y \in Out : n <= y
    BY <2>1, LeastNatural
  <2>3. n \in 0 .. N /\ n # 0 /\ S[n] \notin T
    BY <1>2, <1>11, <2>2
  <2>4. n - 1 \in 0 .. N /\ ~(n <= n - 1)
    BY <1>1, <2>3
  <2>5. S[n - 1] \in T
    BY <2>2, <2>4
  <2> QED BY <1>2, <1>11, <2>3, <2>5
<1>13. /\ S[0] = z
       /\ \A t \in 0 .. N : S[t] \in T /\ (t # 0 => S[t] = D(S[t - 1]))
  <2>1. S[0] = z
    BY <1>1, <1>11
  <2>2. ASSUME NEW t \in 0 .. N PROVE S[t] \in T /\ (t # 0 => S[t] = D(S[t - 1]))
    BY <1>11, <1>12
  <2> QED BY <2>1, <2>2
<1>14. \A r \in T : r.head \in 0 .. last /\ r.dbtc \in Nat
  BY DEF T, SimState
<1>15. \A t \in 0 .. N : S[t].head \in 0 .. last /\ S[t].dbtc \in Nat
  BY <1>13, <1>14
<1> QED BY <1>13, <1>15 DEF S, N, T, D, z

\* The simulation never gives back an entry.
LEMMA SimGrows ==
    ASSUME NEW a \in Seq(Nat), NEW last \in Nat, last <= Len(a), NEW carry \in Nat,
           NEW t \in 0 .. ForkEpoch, NEW u \in 0 .. ForkEpoch, t <= u
    PROVE  Simulated(a, last, carry)[t].head <= Simulated(a, last, carry)[u].head
<1> DEFINE S == Simulated(a, last, carry)
           Bad == {k \in 0 .. ForkEpoch : t <= k /\ ~(S[t].head <= S[k].head)}
<1> SUFFICES ASSUME Bad # {} PROVE FALSE
  OBVIOUS
<1>1. ForkEpoch \in Nat /\ MaxPerEpoch \in Nat
  BY LifecycleAssumption
<1> HIDE DEF Bad
<1>2. \A k \in 0 .. ForkEpoch :
        /\ S[k] \in SimState(last) /\ S[k].head \in 0 .. last
        /\ k # 0 => S[k] = Drained(a, last, S[k - 1])
  <2>1. \A k \in 0 .. ForkEpoch :
                /\ Simulated(a, last, carry)[k] \in SimState(last)
                /\ Simulated(a, last, carry)[k].head \in 0 .. last
                /\ Simulated(a, last, carry)[k].dbtc \in Nat
                /\ k # 0 => Simulated(a, last, carry)[k] = Drained(a, last, Simulated(a, last, carry)[k - 1])
    BY SimUnfold
  <2> QED BY <2>1
<1> HIDE DEF S
<1>3. \A k \in 0 .. ForkEpoch : S[k].head \in Nat
  BY <1>2
<1> USE DEF Bad
<1>4. PICK n \in Bad : \A y \in Bad : n <= y
  <2>1. Bad \in SUBSET Nat
    BY <1>1
  <2> QED BY <2>1, LeastNatural
<1>5. n # t
  BY <1>3, <1>4
<1>6. n - 1 \in 0 .. ForkEpoch /\ ~(n <= n - 1) /\ t <= n - 1 /\ n # 0
  BY <1>1, <1>4, <1>5
<1>7. S[t].head <= S[n - 1].head
  BY <1>4, <1>6
<1>8. PICK k \in 0 .. MaxPerEpoch : Drained(a, last, S[n - 1]).head = S[n - 1].head + k
  <2>1. S[n - 1] \in SimState(last)
    BY <1>2, <1>6
  <2> QED BY <2>1, DrainedFacts
<1>9. S[n].head = S[n - 1].head + k
  BY <1>2, <1>4, <1>6, <1>8
<1> QED BY <1>1, <1>3, <1>4, <1>6, <1>7, <1>8, <1>9

LEMMA SimHeads ==
    ASSUME NEW a \in Seq(Nat), NEW last \in Nat, last <= Len(a), NEW carry \in Nat, NEW t \in 0 .. ForkEpoch
    PROVE  Simulated(a, last, carry)[t].head \in Nat
<1>1. \A k \in 0 .. ForkEpoch :
        /\ Simulated(a, last, carry)[k] \in SimState(last)
        /\ Simulated(a, last, carry)[k].head \in 0 .. last
        /\ Simulated(a, last, carry)[k].dbtc \in Nat
        /\ k # 0 => Simulated(a, last, carry)[k] = Drained(a, last, Simulated(a, last, carry)[k - 1])
  BY SimUnfold
<1> QED BY <1>1

\* A transition of the simulation is something an epoch may take.
LEMMA SimTakes ==
    ASSUME NEW b \in Seq(Nat), NEW m \in Nat, m <= Len(b), NEW r \in SimState(m)
    PROVE  \E n \in Nat :
             /\ Drained(b, m, r).head = r.head + n
             /\ Takes(b, r.head, r.dbtc, n, Drained(b, m, r).dbtc)
<1> DEFINE budget == r.dbtc + ChurnLimit
           n == Fits(b, r.head, m, budget)
           left == Drained(b, m, r).dbtc
<1>1. r.head \in Nat /\ r.head <= m /\ r.dbtc \in Nat /\ ChurnLimit \in Nat /\ MaxPerEpoch \in Nat /\ Len(b) \in Nat
  BY ChurnLimitType, LifecycleAssumption DEF SimState
<1>2. budget \in Nat
  BY <1>1
<1>3. /\ Drained(b, m, r).head = r.head + n
      /\ left = IF ChurnLimited(r.head, m, n) THEN budget - Total(b, r.head, n) ELSE 0
  BY DEF Drained, Carried
<1>4. left \in Nat
  BY DrainedFacts DEF SimState
<1> HIDE DEF budget, left
<1>5. /\ n \in 0 .. MaxPerEpoch /\ r.head + n <= m
      /\ Total(b, r.head, n) \in Nat /\ Total(b, r.head, n) <= budget
      /\ ChurnLimited(r.head, m, n) => Total(b, r.head, n + 1) > budget
  BY <1>1, <1>2, FitsFacts
<1> HIDE DEF n
<1>6. n \in Nat /\ r.head + n <= Len(b)
  BY <1>1, <1>5
<1>7. \/ left = 0
      \/ /\ n < MaxPerEpoch /\ r.head + n < Len(b) /\ Total(b, r.head, n + 1) > budget
         /\ left = budget - Total(b, r.head, n)
  <2>1. CASE ChurnLimited(r.head, m, n)
    <3>1. n < MaxPerEpoch /\ r.head + n < Len(b)
      BY <1>1, <1>5, <2>1 DEF ChurnLimited
    <3> QED BY <1>3, <1>5, <2>1, <3>1
  <2>2. CASE ~ChurnLimited(r.head, m, n)
    BY <1>3, <2>2
  <2> QED BY <2>1, <2>2
<1>8. Takes(b, r.head, r.dbtc, n, left)
  BY <1>1, <1>4, <1>5, <1>6, <1>7 DEF Takes, budget
<1> QED BY <1>3, <1>6, <1>8 DEF left

\* What one epoch may take of a queue it may take of a longer one.
LEMMA TakesLonger ==
    ASSUME NEW q \in Seq(Nat), NEW a \in Seq(Nat), Len(q) <= Len(a), \A i \in 1 .. Len(q) : a[i] = q[i],
           NEW c, NEW n, NEW left, Takes(q, 0, c, n, left)
    PROVE  Takes(a, 0, c, n, left)
<1>1. Len(q) \in Nat /\ Len(a) \in Nat
  OBVIOUS
<1>2. Behind(q, a, 0, Len(q))
  BY <1>1 DEF Behind
<1>3. \A i \in 0 .. Len(q) : Sums(q)[0 + i] = Sums(q)[0] + Sums(a)[i]
  <2>1. Len(q) - 0 = Len(q)
    BY <1>1
  <2> QED BY <1>2, <2>1, BehindSums
<1>4. Sums(q)[0] = 0 /\ Sums(a)[0] = 0
  BY <1>1, SumsUnfold
<1>5. \A i \in 0 .. Len(q) : Sums(q)[i] = Sums(a)[i]
  <2> TAKE i \in 0 .. Len(q)
  <2>1. 0 + i = i /\ i \in 0 .. Len(a)
    BY <1>1
  <2>2. Sums(a)[i] \in Nat
    BY <2>1, SumsType
  <2> QED BY <1>3, <1>4, <2>1, <2>2
<1>6. n \in Nat /\ 0 + n <= Len(q) /\ MaxPerEpoch \in Nat
  BY LifecycleAssumption DEF Takes
<1>7. \A k \in Nat : 0 + k <= Len(q) => Total(q, 0, k) = Total(a, 0, k)
  <2> SUFFICES ASSUME NEW k \in Nat, 0 + k <= Len(q) PROVE Total(q, 0, k) = Total(a, 0, k)
    OBVIOUS
  <2>1. 0 + k \in 0 .. Len(q) /\ 0 \in 0 .. Len(q)
    BY <1>1
  <2> QED BY <1>5, <2>1 DEF Total
<1>8. Total(q, 0, n) = Total(a, 0, n) /\ (0 + n < Len(q) => Total(q, 0, n + 1) = Total(a, 0, n + 1))
  <2>1. 0 + n < Len(q) => 0 + (n + 1) <= Len(q) /\ n + 1 \in Nat
    BY <1>1, <1>6
  <2> QED BY <1>6, <1>7, <2>1
<1>9. 0 + n <= Len(a) /\ (0 + n < Len(q) => 0 + n < Len(a))
  BY <1>1, <1>6
<1> QED BY <1>8, <1>9 DEF Takes

\* Two simulations, the second of what is left of the first one's queue and k transitions
\* later: an entry the first does not reach the second does not reach.
LEMMA SimsCompare ==
    ASSUME NEW a, NEW b, NEW d, NEW last, Behind(a, b, d, last),
           NEW m \in Nat, last - d <= m, m <= Len(b), NEW ca \in Nat, NEW cb \in Nat,
           NEW k \in Nat, NEW T \in Nat, T + k <= ForkEpoch,
           NotAhead(a, d, cb, Simulated(a, last, ca)[k]),
           Simulated(a, last, ca)[T + k].head < last
    PROVE  Simulated(b, m, cb)[T].head < last - d
<1> DEFINE A == Simulated(a, last, ca)
           B == Simulated(b, m, cb)
           Good(t) == NotAhead(a, d + B[t].head, B[t].dbtc, A[t + k])
           Bad == {t \in 0 .. T : ~Good(t)}
<1>1. /\ a \in Seq(Nat) /\ b \in Seq(Nat) /\ d \in Nat /\ last \in Nat /\ last <= Len(a) /\ d <= last
      /\ ForkEpoch \in Nat
  BY LifecycleAssumption DEF Behind
<1>2. /\ A[0] = [head |-> 0, dbtc |-> ca]
      /\ \A t \in 0 .. ForkEpoch :
           /\ A[t] \in SimState(last) /\ A[t].head \in 0 .. last /\ A[t].dbtc \in Nat
           /\ t # 0 => A[t] = Drained(a, last, A[t - 1])
  BY <1>1, SimUnfold
<1>3. /\ B[0] = [head |-> 0, dbtc |-> cb]
      /\ \A t \in 0 .. ForkEpoch :
           /\ B[t] \in SimState(m) /\ B[t].head \in 0 .. m /\ B[t].dbtc \in Nat
           /\ t # 0 => B[t] = Drained(b, m, B[t - 1])
  BY <1>1, SimUnfold
<1>4. A[T + k].head < last
  OBVIOUS
<1> HIDE DEF A, B
<1>5. \A t \in 0 .. T : A[t + k].head < last
  <2> SUFFICES ASSUME NEW t \in 0 .. T PROVE A[t + k].head < last
    OBVIOUS
  <2>1. t + k \in 0 .. ForkEpoch /\ T + k \in 0 .. ForkEpoch /\ t + k <= T + k
    BY <1>1
  <2>2. A[t + k].head <= A[T + k].head
    BY <1>1, <2>1, SimGrows DEF A
  <2>3. A[t + k].head \in Nat /\ A[T + k].head \in Nat /\ A[T + k].head < last
    BY <1>1, <1>2, <1>4, <2>1
  <2>4. \A x, y, z \in Nat : x <= y /\ y < z => x < z
    OBVIOUS
  <2> QED BY <1>1, <2>2, <2>3, <2>4
<1>6. Good(0)
  <2>1. B[0].head = 0 /\ B[0].dbtc = cb /\ d + 0 = d /\ 0 + k = k
    BY <1>1, <1>3
  <2> QED BY <2>1 DEF A
<1>7. ASSUME NEW n \in 0 .. T, n # 0, Good(n - 1) PROVE Good(n)
  <2>1. /\ n - 1 \in 0 .. ForkEpoch /\ n \in 0 .. ForkEpoch /\ (n - 1) + k \in 0 .. ForkEpoch /\ n + k \in 0 .. ForkEpoch
        /\ (n + k) - 1 = (n - 1) + k /\ n + k # 0
    <3>1. n \in Nat /\ n <= T /\ n # 0
      BY <1>7
    <3>2. \A x, y, z, u \in Nat :
            x # 0 /\ x <= y /\ y + z <= u =>
              /\ x - 1 \in 0 .. u /\ x \in 0 .. u /\ (x - 1) + z \in 0 .. u /\ x + z \in 0 .. u
              /\ (x + z) - 1 = (x - 1) + z /\ x + z # 0
      OBVIOUS
    <3> QED BY <1>1, <3>1, <3>2
  <2>2. A[n + k] = Drained(a, last, A[(n - 1) + k]) /\ A[(n - 1) + k] \in SimState(last)
    BY <1>2, <2>1
  <2>3. B[n] = Drained(b, m, B[n - 1]) /\ B[n - 1] \in SimState(m) /\ B[n - 1].head \in Nat
    BY <1>3, <1>7, <2>1
  <2> DEFINE r == B[n - 1]
  <2>4. r \in SimState(m)
    BY <2>3
  <2> HIDE DEF r
  <2>5. PICK j \in Nat : Drained(b, m, r).head = r.head + j /\ Takes(b, r.head, r.dbtc, j, Drained(b, m, r).dbtc)
    BY <1>1, <2>4, SimTakes
  <2>6. B[n].head = B[n - 1].head + j /\ Takes(b, B[n - 1].head, B[n - 1].dbtc, j, B[n].dbtc)
    BY <2>3, <2>5 DEF r
  <2>7. Drained(a, last, A[(n - 1) + k]).head < last
    BY <1>5, <2>2
  <2>8. NotAhead(a, d + (B[n - 1].head + j), B[n].dbtc, Drained(a, last, A[(n - 1) + k]))
    BY <1>7, <2>2, <2>6, <2>7, TakerFollows
  <2> QED BY <2>2, <2>6, <2>8
<1> HIDE DEF Good
<1>8. Bad = {}
  <2> SUFFICES ASSUME Bad # {} PROVE FALSE
    OBVIOUS
  <2>1. Bad \in SUBSET Nat
    OBVIOUS
  <2>2. PICK n \in Bad : \A y \in Bad : n <= y
    BY <2>1, LeastNatural
  <2>3. n \in 0 .. T /\ n # 0
    BY <1>6, <2>2
  <2>4. n - 1 \in 0 .. T /\ ~(n <= n - 1)
    BY <2>3
  <2>5. Good(n - 1)
    BY <2>2, <2>4
  <2> QED BY <1>7, <2>2, <2>3, <2>5
<1>9. d + B[T].head <= A[T + k].head
  BY <1>8 DEF Good, NotAhead
<1>10. B[T].head \in Nat /\ A[T + k].head \in Nat /\ A[T + k].head < last
  <2>1. T \in 0 .. ForkEpoch /\ T + k \in 0 .. ForkEpoch /\ T \in 0 .. T
    BY <1>1
  <2> QED BY <1>2, <1>3, <1>5, <2>1
<1>11. B[T].head < last - d
  <2>1. \A x, y, z, w \in Nat : w + x <= y /\ y < z => x < z - w
    OBVIOUS
  <2>2. /\ d \in Nat /\ last \in Nat /\ B[T].head \in Nat /\ A[T + k].head \in Nat
        /\ d + B[T].head <= A[T + k].head /\ A[T + k].head < last
    BY <1>1, <1>9, <1>10, Zenon
  <2> QED BY <2>1, <2>2, Zenon
<1> QED BY <1>11 DEF B

\* What the chain processes on the way into an epoch is something an epoch may take.
LEMMA EpochTakes ==
    ASSUME NEW q \in Seq(Nat), NEW f \in Nat, f <= Len(q), NEW c \in Nat,
           NEW n, n = Fits(q, 0, f, c + ChurnLimit),
           NEW left, left = IF ChurnLimited(0, f, n) THEN c + ChurnLimit - Total(q, 0, n) ELSE 0
    PROVE  n \in Nat /\ n <= f /\ left \in Nat /\ Takes(q, 0, c, n, left)
<1> DEFINE r == [head |-> 0, dbtc |-> c]
<1>1. r \in SimState(f) /\ r.head = 0 /\ r.dbtc = c
  BY DEF SimState
<1>2. ChurnLimit \in Nat /\ MaxPerEpoch \in Nat
  BY ChurnLimitType, LifecycleAssumption
<1>3. n \in 0 .. MaxPerEpoch /\ 0 + n <= f /\ Total(q, 0, n) \in Nat
  <2>1. c + ChurnLimit \in Nat /\ 0 <= f
    BY <1>2
  <2> QED BY <2>1, FitsFacts
<1>4. n \in Nat /\ n <= f /\ 0 + n = n
  BY <1>2, <1>3
<1>5. Drained(q, f, r) = [head |-> 0 + n, dbtc |-> left]
  <2> HIDE DEF r
  <2>1. Fits(q, r.head, f, r.dbtc + ChurnLimit) = n
    BY <1>1
  <2>2. Drained(q, f, r) = [head |-> r.head + n, dbtc |-> Carried(q, r.head, f, n, r.dbtc + ChurnLimit)]
    BY <2>1 DEF Drained
  <2>3. Carried(q, 0, f, n, c + ChurnLimit) = left
    <3>1. CASE ChurnLimited(0, f, n)
      BY <1>2, <1>3, <3>1 DEF Carried
    <3>2. CASE ~ChurnLimited(0, f, n)
      BY <3>2 DEF Carried
    <3> QED BY <3>1, <3>2
  <2> QED BY <1>1, <2>2, <2>3
<1> HIDE DEF r
<1>6. PICK k \in Nat : Drained(q, f, r).head = r.head + k /\ Takes(q, r.head, r.dbtc, k, Drained(q, f, r).dbtc)
  BY <1>1, SimTakes
<1>7. Takes(q, 0, c, n, left)
  <2>1. Drained(q, f, r).head = n /\ Drained(q, f, r).dbtc = left
    BY <1>4, <1>5
  <2>2. k = n
    BY <1>1, <1>4, <1>6, <2>1
  <2> QED BY <1>1, <1>6, <2>1, <2>2
<1> QED BY <1>4, <1>7 DEF Takes

\* An entry the simulation does not reach within T transitions an epoch does not reach,
\* and the simulation of what the epoch leaves does not reach it within one less.
LEMMA EpochSpares ==
    ASSUME NEW q \in Seq(Nat), NEW a \in Seq(Nat), Len(q) <= Len(a), \A i \in 1 .. Len(q) : a[i] = q[i],
           NEW c \in Nat, NEW n \in Nat, NEW left \in Nat, Takes(q, 0, c, n, left),
           NEW last \in Nat, last <= Len(a), NEW T \in Nat, 0 < T, T <= ForkEpoch,
           Simulated(a, last, c)[T].head < last
    PROVE  /\ n < last
           /\ \A b, m : Behind(a, b, n, last) /\ m \in Nat /\ last - n <= m /\ m <= Len(b) =>
                          Simulated(b, m, left)[T - 1].head < last - n
<1> DEFINE A == Simulated(a, last, c)
<1>1. ForkEpoch \in Nat /\ Len(a) \in Nat
  BY LifecycleAssumption
<1>2. /\ A[0] = [head |-> 0, dbtc |-> c]
      /\ \A t \in 0 .. ForkEpoch :
           /\ A[t] \in SimState(last) /\ A[t].head \in 0 .. last /\ A[t].dbtc \in Nat
           /\ t # 0 => A[t] = Drained(a, last, A[t - 1])
  BY <1>1, SimUnfold
<1>3. A[1].head <= A[T].head /\ A[T].head < last
  <2>1. 1 \in 0 .. ForkEpoch /\ T \in 0 .. ForkEpoch /\ 1 <= T
    BY <1>1
  <2> QED BY <2>1, SimGrows
<1> HIDE DEF A
<1>4. /\ 0 \in 0 .. ForkEpoch /\ 1 \in 0 .. ForkEpoch /\ T \in 0 .. ForkEpoch /\ 1 # 0 /\ 1 - 1 = 0
  BY <1>1
<1>5. A[1] = Drained(a, last, A[0]) /\ A[0] \in SimState(last) /\ A[1].head \in Nat /\ A[T].head \in Nat
  BY <1>2, <1>4
<1>6. Drained(a, last, A[0]).head < last
  <2>1. \A x, y, z \in Nat : x <= y /\ y < z => x < z
    OBVIOUS
  <2> QED BY <1>3, <1>5, <2>1
<1>7. Behind(a, a, 0, last)
  BY <1>1 DEF Behind
<1>8. Takes(a, 0, c, n, left)
  BY TakesLonger
<1>9. NotAhead(a, 0 + 0, c, A[0])
  <2>1. Sums(a)[0] \in Nat
    BY <1>1, SumsType
  <2>2. A[0].head = 0 /\ A[0].dbtc = c
    BY <1>2
  <2> QED BY <2>1, <2>2 DEF NotAhead
<1>10. NotAhead(a, 0 + (0 + n), left, A[1])
  BY <1>5, <1>6, <1>7, <1>8, <1>9, TakerFollows
<1>11. NotAhead(a, n, left, A[1])
  <2>1. 0 + (0 + n) = n
    OBVIOUS
  <2> QED BY <1>10, <2>1
<1>12. n < last
  BY <1>5, <1>6, <1>11 DEF NotAhead
<1>13. ASSUME NEW b, NEW m, Behind(a, b, n, last), m \in Nat, last - n <= m, m <= Len(b)
       PROVE  Simulated(b, m, left)[T - 1].head < last - n
  <2>1. T - 1 \in Nat /\ (T - 1) + 1 <= ForkEpoch /\ (T - 1) + 1 = T
    BY <1>1
  <2>2. Simulated(a, last, c)[(T - 1) + 1].head < last
    BY <2>1
  <2>3. NotAhead(a, n, left, Simulated(a, last, c)[1])
    BY <1>11 DEF A
  <2> QED BY <1>13, <2>1, <2>2, <2>3, SimsCompare
<1> QED BY <1>12, <1>13

\* An entry the simulation does not reach it does not reach when the queue is longer.
LEMMA LongerSpares ==
    ASSUME NEW q \in Seq(Nat), NEW b \in Seq(Nat), NEW c \in Nat, NEW T \in Nat, T <= ForkEpoch,
           NEW last \in Nat, last <= Len(q), NEW m \in Nat, last <= m, m <= Len(b),
           \A i \in 1 .. last : b[i] = q[i],
           Simulated(q, last, c)[T].head < last
    PROVE  Simulated(b, m, c)[T].head < last
<1>1. ForkEpoch \in Nat /\ Len(q) \in Nat /\ Len(b) \in Nat /\ last - 0 = last /\ T + 0 = T
  <2>1. ForkEpoch \in Nat
    BY LifecycleAssumption
  <2>2. Len(q) \in Nat /\ Len(b) \in Nat
    BY LenProperties
  <2>3. \A x \in Nat : x - 0 = x /\ x + 0 = x
    OBVIOUS
  <2> QED BY <2>1, <2>2, <2>3
<1>2. Behind(q, b, 0, last)
  BY <1>1 DEF Behind
<1>3. NotAhead(q, 0, c, Simulated(q, last, c)[0])
  <2>1. Simulated(q, last, c)[0] = [head |-> 0, dbtc |-> c]
    BY SimUnfold
  <2>2. Sums(q)[0] \in Nat
    BY <1>1, SumsType
  <2> QED BY <2>1, <2>2 DEF NotAhead
<1>4. Simulated(b, m, c)[T].head < last - 0
  <2>1. 0 \in Nat /\ T + 0 <= ForkEpoch /\ last - 0 <= m /\ Simulated(q, last, c)[T + 0].head < last
    BY <1>1
  <2> QED BY <1>2, <1>3, <2>1, SimsCompare
<1> QED BY <1>1, <1>4

-----------------------------------------------------------------------------
(* The manager's early deposits.                                           *)

Entries == [ours : BOOLEAN, amount : Nat, slot : Nat]

\* A deposit that lands now is still there at the fork.
CanLand ==
    \/ Epoch(now) + 1 >= ForkEpoch
    \/ DepositSurvives(Amounts(queue), dbtc, ForkEpoch - Epoch(now))

\* A deposit of the last epoch before the fork is not final when the fork comes.
Late(slot) == slot > 0 /\ slot >= (ForkEpoch - 1) * SlotsPerEpoch

\* The entry at place i is not reached before the fork.
Shielded(i) ==
    \/ Late(queue[i].slot)
    \/ Simulated(Amounts(queue), i, dbtc)[ForkEpoch - Epoch(now)].head < i

\* The last block's state is not ahead of the clock, and what it leaves alone until the
\* fork, counted from its own epoch, the chain's queue leaves alone.
HeadInv ==
    /\ headState.epoch \in Nat /\ headState.epoch <= Epoch(now)
    /\ headState.queue \in Seq(Entries) /\ headState.dbtc \in Nat
    /\ headState.epoch < ForkEpoch
         /\ DepositSurvives(Amounts(headState.queue), headState.dbtc, ForkEpoch - headState.epoch) => CanLand

\* Every deposit of ours in the queue stays there until the fork, and so would one that is
\* on its way or that stats not older than their epoch allow.  Finality is two epochs
\* behind.
DepositInv ==
    /\ now \in Nat /\ dbtc \in Nat /\ finalized \in Nat /\ queue \in Seq(Entries)
    /\ HeadInv
    /\ stats.epoch \in Nat /\ stats.epoch <= Epoch(now)
    /\ finalized = 0 \/ finalized + 2 <= Epoch(now)
    /\ Epoch(now) < ForkEpoch => \A i \in DOMAIN queue : queue[i].ours => Shielded(i)
    /\ stats.survives /\ stats.fresh => CanLand
    /\ DOMAIN purpose = Calls /\ \A c \in Calls : purpose[c] = "early" => CanLand
    /\ entry # "validator"

\* So it is as long as no deposit was decided blindly.
SightedInv == ~blind => DepositInv

\* The amounts of a queue.
LEMMA AmountsFacts ==
    ASSUME NEW q \in Seq(Entries)
    PROVE  /\ Amounts(q) \in Seq(Nat) /\ Len(Amounts(q)) = Len(q) /\ Len(q) \in Nat
           /\ \A i \in 1 .. Len(q) : Amounts(q)[i] = q[i].amount /\ q[i] \in Entries
<1>1. DOMAIN q = 1 .. Len(q) /\ Len(q) \in Nat /\ \A i \in 1 .. Len(q) : q[i] \in Entries
  OBVIOUS
<1>2. Amounts(q) = [i \in 1 .. Len(q) |-> q[i].amount]
  BY <1>1 DEF Amounts
<1>3. \A i \in 1 .. Len(q) : q[i].amount \in Nat
  BY <1>1 DEF Entries
<1>4. Amounts(q) \in Seq(Nat)
  BY <1>1, <1>2, <1>3, IsASeq
<1>5. Len(Amounts(q)) = Len(q)
  BY <1>1, <1>2, <1>4, LenProperties
<1> QED BY <1>1, <1>2, <1>4, <1>5

\* A queue and our deposit at its end.
LEMMA SimQueue ==
    ASSUME NEW q \in Seq(Entries), NEW a, a = Append(Amounts(q), Amount)
    PROVE  /\ a \in Seq(Nat) /\ Len(a) = Len(q) + 1
           /\ \A i \in 1 .. Len(q) : a[i] = Amounts(q)[i]
           /\ a[Len(q) + 1] = Amount
<1>1. Amount \in Nat
  BY LifecycleAssumption
<1> QED BY <1>1, AmountsFacts, AppendProperties

\* What is left of a queue.
LEMMA Remainder ==
    ASSUME NEW q \in Seq(Entries), NEW n \in Nat, n <= Len(q), NEW r, r = SubSeq(q, n + 1, Len(q))
    PROVE  /\ r \in Seq(Entries) /\ Len(r) = Len(q) - n
           /\ \A i \in 1 .. Len(q) - n : r[i] = q[n + i]
<1>1. Len(q) \in Nat
  OBVIOUS
<1>2. CASE n = Len(q)
  <2>1. r = << >>
    BY <1>1, <1>2
  <2> QED BY <1>1, <1>2, <2>1
<1>3. CASE n < Len(q)
  <2>1. n + 1 \in 1 .. Len(q) + 1 /\ Len(q) \in n .. Len(q) /\ Len(q) - (n + 1) + 1 = Len(q) - n
    BY <1>1, <1>3
  <2>2. /\ r \in Seq(Entries)
        /\ Len(r) = (IF n + 1 <= Len(q) THEN Len(q) - (n + 1) + 1 ELSE 0)
        /\ \A i \in 1 .. Len(q) - (n + 1) + 1 : r[i] = q[(n + 1) + i - 1]
    BY <1>1, <2>1, SubSeqProperties
  <2>3. \A i \in 1 .. Len(q) - n : r[i] = q[n + i]
    <3>1. \A i \in 1 .. Len(q) - n : (n + 1) + i - 1 = n + i
      BY <1>1
    <3> QED BY <2>1, <2>2, <3>1
  <2>4. Len(r) = Len(q) - n
    <3>1. n + 1 <= Len(q)
      BY <1>1, <1>3
    <3>2. Len(r) = Len(q) - (n + 1) + 1
      BY <2>2, <3>1
    <3> QED BY <2>1, <3>2
  <2> QED BY <2>2, <2>3, <2>4
<1> QED BY <1>1, <1>2, <1>3

\* The next slot is in the same epoch or in the next one.
LEMMA EpochSteps ==
    ASSUME NEW n \in Nat
    PROVE  Epoch(n) \in Nat /\ (Epoch(n + 1) = Epoch(n) \/ Epoch(n + 1) = Epoch(n) + 1)
<1>1. SlotsPerEpoch \in Nat /\ SlotsPerEpoch > 0
  BY LifecycleAssumption
<1>2. \A k \in Nat : /\ k \div SlotsPerEpoch \in Nat /\ k % SlotsPerEpoch \in 0 .. SlotsPerEpoch - 1
                     /\ k = SlotsPerEpoch * (k \div SlotsPerEpoch) + (k % SlotsPerEpoch)
  BY <1>1
<1>3. PICK a \in Nat, b \in Nat : a = Epoch(n) /\ b = Epoch(n + 1)
  BY <1>2 DEF Epoch
<1>4. SlotsPerEpoch * b <= n + 1 /\ n < SlotsPerEpoch * a + SlotsPerEpoch
  BY <1>1, <1>2, <1>3 DEF Epoch
<1>5. SlotsPerEpoch * b < SlotsPerEpoch * (a + 2)
  BY <1>1, <1>4
<1>6. b < a + 2
  <2> SUFFICES ASSUME b >= a + 2 PROVE FALSE
    OBVIOUS
  <2>1. PICK k \in Nat : b = (a + 2) + k
    <3> WITNESS b - (a + 2) \in Nat
    <3> QED OBVIOUS
  <2>2. SlotsPerEpoch * b = SlotsPerEpoch * (a + 2) + SlotsPerEpoch * k /\ SlotsPerEpoch * k \in Nat
    BY <1>1, <2>1
  <2> QED BY <1>1, <1>5, <2>2
<1>7. a <= b
  BY <1>3, EpochMonotone
<1> QED BY <1>3, <1>6, <1>7

\* Our deposit at the end of the queue survives a part of the transitions it survives.
LEMMA SurvivesFewer ==
    ASSUME NEW q \in Seq(Entries), NEW c \in Nat, NEW t \in Nat, NEW u \in Nat, t <= u, u <= ForkEpoch,
           DepositSurvives(Amounts(q), c, u)
    PROVE  DepositSurvives(Amounts(q), c, t)
<1> DEFINE a == Append(Amounts(q), Amount)
           S == Simulated(a, Len(a), c)
<1>1. a \in Seq(Nat) /\ Len(a) \in Nat /\ Len(a) <= Len(a) /\ ForkEpoch \in Nat
  <2>1. a \in Seq(Nat) /\ ForkEpoch \in Nat
    BY SimQueue, LifecycleAssumption
  <2> HIDE DEF a
  <2> QED BY <2>1
<1>2. t \in 0 .. ForkEpoch /\ u \in 0 .. ForkEpoch
  BY <1>1
<1>3. S[u].head < Len(a)
  BY DEF DepositSurvives
<1> HIDE DEF a
<1>4. S[t].head <= S[u].head
  BY <1>1, <1>2, SimGrows
<1>5. S[t].head \in Nat /\ S[u].head \in Nat
  BY <1>1, <1>2, SimHeads
<1>6. \A x, y, z \in Nat : x <= y /\ y < z => x < z
  OBVIOUS
<1>7. S[t].head < Len(a)
  BY <1>1, <1>3, <1>4, <1>5, <1>6
<1> QED BY <1>7 DEF DepositSurvives, a

\* It survives behind another deposit.
LEMMA SurvivesLonger ==
    ASSUME NEW q \in Seq(Entries), NEW e \in Entries, e.amount = Amount, NEW c \in Nat, NEW t \in Nat, t <= ForkEpoch,
           DepositSurvives(Amounts(q), c, t)
    PROVE  DepositSurvives(Amounts(Append(q, e)), c, t)
<1> DEFINE a == Append(Amounts(q), Amount)
           b == Append(Amounts(Append(q, e)), Amount)
<1>1. /\ a \in Seq(Nat) /\ Len(a) = Len(q) + 1 /\ a[Len(q) + 1] = Amount
      /\ \A i \in 1 .. Len(q) : a[i] = Amounts(q)[i]
      /\ Len(q) \in Nat /\ \A i \in 1 .. Len(q) : Amounts(q)[i] = q[i].amount
  BY SimQueue, AmountsFacts
<1>2. /\ Append(q, e) \in Seq(Entries) /\ Len(Append(q, e)) = Len(q) + 1
      /\ \A i \in 1 .. Len(q) : Append(q, e)[i] = q[i]
      /\ Append(q, e)[Len(q) + 1] = e
  BY AppendProperties
<1>3. /\ b \in Seq(Nat) /\ Len(b) = Len(q) + 2
      /\ \A i \in 1 .. Len(q) + 1 : b[i] = Append(q, e)[i].amount
  <2> DEFINE r == Append(q, e)
  <2>1. r \in Seq(Entries) /\ Len(r) = Len(q) + 1
    BY <1>2
  <2> HIDE DEF r
  <2>2. /\ Append(Amounts(r), Amount) \in Seq(Nat) /\ Len(Append(Amounts(r), Amount)) = Len(r) + 1
        /\ \A i \in 1 .. Len(r) : Append(Amounts(r), Amount)[i] = Amounts(r)[i]
    BY <2>1, SimQueue
  <2>3. \A i \in 1 .. Len(r) : Amounts(r)[i] = r[i].amount
    BY <2>1, AmountsFacts
  <2>4. Len(r) + 1 = Len(q) + 2
    BY <1>1, <2>1
  <2> QED BY <2>1, <2>2, <2>3, <2>4 DEF r
<1>4. Simulated(a, Len(a), c)[t].head < Len(a)
  BY DEF DepositSurvives
<1> HIDE DEF a, b
<1>5. \A i \in 1 .. Len(a) : b[i] = a[i]
  <2> SUFFICES ASSUME NEW i \in 1 .. Len(a) PROVE b[i] = a[i]
    OBVIOUS
  <2>1. i \in 1 .. Len(q) \/ i = Len(q) + 1
    BY <1>1
  <2>2. i \in 1 .. Len(q) + 1
    BY <1>1
  <2> QED BY <1>1, <1>2, <1>3, <2>1, <2>2
<1>6. Len(a) \in Nat /\ Len(b) \in Nat /\ Len(a) <= Len(b) /\ Len(a) <= Len(a) /\ Len(b) <= Len(b)
  BY <1>1, <1>3
<1>7. Simulated(b, Len(b), c)[t].head < Len(a)
  BY <1>1, <1>3, <1>4, <1>5, <1>6, LongerSpares
<1>8. Simulated(b, Len(b), c)[t].head \in Nat
  <2>1. t \in 0 .. ForkEpoch
    BY LifecycleAssumption
  <2> QED BY <1>3, <1>6, <2>1, SimHeads
<1>9. \A x, y, z \in Nat : x < y /\ y <= z => x < z
  OBVIOUS
<1>10. Simulated(b, Len(b), c)[t].head < Len(b)
  BY <1>6, <1>7, <1>8, <1>9
<1> QED BY <1>10 DEF DepositSurvives, b

\* It survives one transition less behind what an epoch leaves.
LEMMA SurvivesEpoch ==
    ASSUME NEW q \in Seq(Entries), NEW c \in Nat, NEW n \in Nat, n <= Len(q), NEW left \in Nat,
           Takes(Amounts(q), 0, c, n, left), NEW t \in Nat, 0 < t, t <= ForkEpoch,
           DepositSurvives(Amounts(q), c, t)
    PROVE  DepositSurvives(Amounts(SubSeq(q, n + 1, Len(q))), left, t - 1)
<1> DEFINE r == SubSeq(q, n + 1, Len(q))
           a == Append(Amounts(q), Amount)
           b == Append(Amounts(r), Amount)
           last == Len(q) + 1
<1>1. /\ a \in Seq(Nat) /\ Len(a) = Len(q) + 1 /\ a[Len(q) + 1] = Amount
      /\ \A i \in 1 .. Len(q) : a[i] = Amounts(q)[i]
      /\ Len(q) \in Nat /\ \A i \in 1 .. Len(q) : Amounts(q)[i] = q[i].amount
  BY SimQueue, AmountsFacts
<1>2. r \in Seq(Entries) /\ Len(r) = Len(q) - n /\ \A i \in 1 .. Len(q) - n : r[i] = q[n + i]
  BY Remainder
<1>3. Simulated(a, Len(a), c)[t].head < Len(a)
  BY DEF DepositSurvives
<1> HIDE DEF r
<1>4. /\ b \in Seq(Nat) /\ Len(b) = Len(r) + 1 /\ b[Len(r) + 1] = Amount
      /\ \A i \in 1 .. Len(r) : b[i] = Amounts(r)[i]
      /\ \A i \in 1 .. Len(r) : Amounts(r)[i] = r[i].amount
  BY <1>2, SimQueue, AmountsFacts
<1> HIDE DEF a, b
<1>5. last \in Nat /\ n <= last /\ last <= Len(a) /\ last - n = Len(b) /\ Len(b) \in Nat /\ last = Len(a) /\ Len(q) <= Len(a)
  BY <1>1, <1>2, <1>4
<1>6. \A i \in 1 .. last - n : b[i] = a[n + i]
  <2> SUFFICES ASSUME NEW i \in 1 .. last - n PROVE b[i] = a[n + i]
    OBVIOUS
  <2>1. CASE i = Len(r) + 1
    <3>1. n + i = Len(q) + 1
      BY <1>1, <1>2, <2>1
    <3> QED BY <1>1, <1>4, <2>1, <3>1
  <2>2. CASE i # Len(r) + 1
    <3>1. i \in 1 .. Len(r) /\ i \in 1 .. Len(q) - n /\ n + i \in 1 .. Len(q)
      BY <1>1, <1>2, <1>5, <2>2
    <3> QED BY <1>1, <1>2, <1>4, <3>1
  <2> QED BY <2>1, <2>2
<1>7. Behind(a, b, n, last)
  <2>1. last - n <= Len(b)
    BY <1>5
  <2> QED BY <1>1, <1>4, <1>5, <1>6, <2>1 DEF Behind
<1>8. Simulated(b, Len(b), left)[t - 1].head < last - n
  <2> HIDE DEF last
  <2>1. Simulated(a, last, c)[t].head < last
    BY <1>3, <1>5
  <2>2. Amounts(q) \in Seq(Nat) /\ Len(Amounts(q)) = Len(q)
    BY AmountsFacts
  <2>3. \A x, m : Behind(a, x, n, last) /\ m \in Nat /\ last - n <= m /\ m <= Len(x) =>
                    Simulated(x, m, left)[t - 1].head < last - n
    BY <1>1, <1>5, <2>1, <2>2, EpochSpares
  <2>4. last - n <= Len(b) /\ Len(b) <= Len(b)
    BY <1>5
  <2> QED BY <1>5, <1>7, <2>3, <2>4
<1>9. Simulated(b, Len(b), left)[t - 1].head < Len(b)
  BY <1>5, <1>8
<1> QED BY <1>9 DEF DepositSurvives, b, r

\* An entry of the queue, likewise.
LEMMA EntrySurvivesEpoch ==
    ASSUME NEW q \in Seq(Entries), NEW c \in Nat, NEW n \in Nat, n <= Len(q), NEW left \in Nat,
           Takes(Amounts(q), 0, c, n, left), NEW t \in Nat, 0 < t, t <= ForkEpoch,
           NEW i \in 1 .. Len(q), Simulated(Amounts(q), i, c)[t].head < i
    PROVE  /\ n < i
           /\ Simulated(Amounts(SubSeq(q, n + 1, Len(q))), i - n, left)[t - 1].head < i - n
<1> DEFINE r == SubSeq(q, n + 1, Len(q))
           a == Amounts(q)
           b == Amounts(r)
<1>1. /\ a \in Seq(Nat) /\ Len(a) = Len(q) /\ Len(q) \in Nat
      /\ \A k \in 1 .. Len(q) : a[k] = q[k].amount
  BY AmountsFacts
<1>2. r \in Seq(Entries) /\ Len(r) = Len(q) - n /\ \A k \in 1 .. Len(q) - n : r[k] = q[n + k]
  BY Remainder
<1> HIDE DEF r
<1>3. /\ b \in Seq(Nat) /\ Len(b) = Len(r) /\ \A k \in 1 .. Len(r) : b[k] = r[k].amount
  BY <1>2, AmountsFacts
<1> HIDE DEF a, b
<1>4. i \in Nat /\ i <= Len(a) /\ Len(a) <= Len(a)
  BY <1>1
<1>5. /\ n < i
      /\ \A x, m : Behind(a, x, n, i) /\ m \in Nat /\ i - n <= m /\ m <= Len(x) =>
                     Simulated(x, m, left)[t - 1].head < i - n
  <2>1. Simulated(a, i, c)[t].head < i /\ Takes(a, 0, c, n, left) /\ \A k \in 1 .. Len(a) : a[k] = a[k]
    BY DEF a
  <2> QED BY <1>1, <1>4, <2>1, EpochSpares
<1>6. i - n \in Nat /\ i - n <= Len(b) /\ i - n <= i - n /\ n <= i
  BY <1>1, <1>2, <1>3, <1>4, <1>5
<1>7. Behind(a, b, n, i)
  <2>1. \A k \in 1 .. i - n : b[k] = a[n + k]
    <3> SUFFICES ASSUME NEW k \in 1 .. i - n PROVE b[k] = a[n + k]
      OBVIOUS
    <3>1. k \in 1 .. Len(r) /\ k \in 1 .. Len(q) - n /\ n + k \in 1 .. Len(q)
      BY <1>1, <1>2, <1>4, <1>5
    <3> QED BY <1>1, <1>2, <1>3, <3>1
  <2> QED BY <1>1, <1>3, <1>4, <1>6, <2>1 DEF Behind
<1>8. Simulated(b, i - n, left)[t - 1].head < i - n
  BY <1>5, <1>6, <1>7
<1> QED BY <1>5, <1>8 DEF b, r

\* What the head's state says of our deposit, under its own epoch or an earlier one, holds
\* of it now.
LEMMA StatsLand ==
    ASSUME now \in Nat, HeadInv, NEW e \in Nat, e <= headState.epoch, StatsAs(e).survives
    PROVE  CanLand
<1> DEFINE h == headState.epoch
           q == headState.queue
           d == headState.dbtc
<1>1. /\ h \in Nat /\ h <= Epoch(now) /\ q \in Seq(Entries) /\ d \in Nat /\ ForkEpoch \in Nat /\ Epoch(now) \in Nat
      /\ h < ForkEpoch /\ DepositSurvives(Amounts(q), d, ForkEpoch - h) => CanLand
  BY LifecycleAssumption, EpochSteps DEF HeadInv
<1>2. e < ForkEpoch /\ DepositSurvives(Amounts(q), d, ForkEpoch - e) /\ e <= h
  BY DEF StatsAs
<1> HIDE DEF h, q, d
<1>3. CASE h >= ForkEpoch
  <2>1. Epoch(now) + 1 >= ForkEpoch
    BY <1>1, <1>3
  <2> QED BY <2>1 DEF CanLand
<1>4. CASE h < ForkEpoch
  <2>1. /\ ForkEpoch - h \in Nat /\ ForkEpoch - e \in Nat /\ ForkEpoch - e <= ForkEpoch
        /\ ForkEpoch - h <= ForkEpoch - e
    BY <1>1, <1>2, <1>4
  <2>2. DepositSurvives(Amounts(q), d, ForkEpoch - h)
    BY <1>1, <1>2, <2>1, SurvivesFewer
  <2> QED BY <1>1, <1>4, <2>2
<1> QED BY <1>1, <1>3, <1>4

\* A block takes over the state of its slot.
LEMMA HeadNow ==
    ASSUME now' \in Nat, queue' \in Seq(Entries), dbtc' \in Nat, headState' = Current'
    PROVE  HeadInv'
<1>1. /\ headState'.epoch = Epoch(now)' /\ headState'.queue = queue' /\ headState'.dbtc = dbtc'
  BY DEF Current
<1>2. Epoch(now)' \in Nat
  <2>1. Epoch(now') \in Nat
    BY EpochSteps
  <2> QED BY <2>1 DEF Epoch
<1>3. Amounts(headState'.queue) = Amounts(queue)'
  BY <1>1 DEF Amounts
<1>4. DepositSurvives(Amounts(headState'.queue), headState'.dbtc, ForkEpoch - headState'.epoch)
        = DepositSurvives(Amounts(queue), dbtc, ForkEpoch - Epoch(now))'
  BY <1>1, <1>3
<1>5. DepositSurvives(Amounts(headState'.queue), headState'.dbtc, ForkEpoch - headState'.epoch) => CanLand'
  BY <1>4 DEF CanLand
<1>6. headState'.epoch <= Epoch(now)'
  BY <1>1, <1>2
<1> QED BY <1>1, <1>2, <1>5, <1>6 DEF HeadInv

\* The last block's state as time goes by.
LEMMA HeadKept ==
    ASSUME HeadInv, headState' = headState, Epoch(now) \in Nat, Epoch(now)' \in Nat, Epoch(now) <= Epoch(now)',
           CanLand => CanLand'
    PROVE  HeadInv'
<1>1. headState.epoch <= Epoch(now)'
  BY DEF HeadInv
<1>2. headState.epoch < ForkEpoch
        /\ DepositSurvives(Amounts(headState.queue), headState.dbtc, ForkEpoch - headState.epoch) => CanLand'
  BY DEF HeadInv
<1> QED BY <1>1, <1>2 DEF HeadInv

\* The steps that leave the chain alone.
LEMMA ProcessInv ==
    ASSUME DepositInv, UNCHANGED chainVars,
           stats' = stats \/ \E e \in Nat : e <= Epoch(now) /\ stats' = StatsAs(e),
           DOMAIN purpose' = Calls, \A c \in Calls : purpose'[c] = "early" => CanLand
    PROVE  DepositInv'
<1>1. /\ now' = now /\ queue' = queue /\ dbtc' = dbtc /\ finalized' = finalized /\ entry' = entry
      /\ headState' = headState
  BY DEF chainVars
<1>2. Epoch(now)' = Epoch(now) /\ CanLand' = CanLand
  BY <1>1 DEF Epoch, CanLand
<1>3. \A i : Shielded(i)' = Shielded(i)
  BY <1>1 DEF Shielded, Epoch
<1>4. /\ stats'.epoch \in Nat /\ stats'.epoch <= Epoch(now)
      /\ stats'.survives /\ stats'.fresh => CanLand
  <2>1. CASE stats' = stats
    BY <2>1 DEF DepositInv
  <2>2. ASSUME NEW e \in Nat, e <= Epoch(now), stats' = StatsAs(e)
        PROVE  stats'.epoch \in Nat /\ stats'.epoch <= Epoch(now) /\ (stats'.survives /\ stats'.fresh => CanLand)
    <3>1. stats'.epoch = e /\ (stats'.fresh <=> e <= headState.epoch)
      BY <2>2 DEF StatsAs
    <3> QED BY <2>2, <3>1, StatsLand DEF DepositInv
  <2> QED BY <2>1, <2>2
<1>5. HeadInv'
  <2>1. HeadInv /\ Epoch(now) \in Nat
    BY EpochSteps DEF DepositInv
  <2> QED BY <1>1, <1>2, <2>1, HeadKept
<1> QED BY <1>1, <1>2, <1>3, <1>4, <1>5 DEF DepositInv

\* The block that changes nothing else.
LEMMA BlockDeposits ==
    ASSUME DepositInv, Block
    PROVE  DepositInv'
<1>1. /\ now' = now /\ queue' = queue /\ dbtc' = dbtc /\ finalized' = finalized /\ entry' = entry
      /\ stats' = stats /\ purpose' = purpose /\ headState' = Current
  BY DEF Block
<1>2. Epoch(now)' = Epoch(now) /\ CanLand' = CanLand /\ Current' = Current
  BY <1>1 DEF Epoch, CanLand, Current
<1>3. \A i : Shielded(i)' = Shielded(i)
  BY <1>1 DEF Shielded, Epoch
<1>4. HeadInv'
  BY <1>1, <1>2, HeadNow DEF DepositInv
<1> QED BY <1>1, <1>2, <1>3, <1>4 DEF DepositInv

\* What an epoch takes of the chain's queue, and that it takes no deposit of ours.
LEMMA EpochProcessed ==
    ASSUME DepositInv, Epoch(now) < ForkEpoch, NEW f \in Nat, f = 0 \/ f + 2 <= Epoch(now) + 1,
           NEW n, n = Fits(Amounts(queue), 0, Final(f), dbtc + ChurnLimit)
    PROVE  /\ n \in Nat /\ n <= Len(queue)
           /\ Processed(f).queue = SubSeq(queue, n + 1, Len(queue))
           /\ Processed(f).dbtc \in Nat /\ Takes(Amounts(queue), 0, dbtc, n, Processed(f).dbtc)
           /\ \A i \in 1 .. Len(queue) : queue[i].ours => n < i
           /\ ~Processed(f).drained
<1> DEFINE q == Amounts(queue)
           T == ForkEpoch - Epoch(now)
<1>1. /\ now \in Nat /\ dbtc \in Nat /\ queue \in Seq(Entries) /\ ForkEpoch \in Nat /\ SlotsPerEpoch \in Nat \ {0}
      /\ Epoch(now) \in Nat
  BY LifecycleAssumption, EpochSteps DEF DepositInv
<1>2. q \in Seq(Nat) /\ Len(q) = Len(queue) /\ Len(queue) \in Nat /\ \A i \in 1 .. Len(queue) : queue[i] \in Entries
  BY <1>1, AmountsFacts
<1>3. /\ Final(f) \in Nat /\ Final(f) <= Len(queue)
      /\ \A i \in 1 .. Final(f) : queue[i].slot <= f * SlotsPerEpoch
  <2> DEFINE S == {k \in 0 .. Len(queue) : \A i \in 1 .. k : queue[i].slot <= f * SlotsPerEpoch}
  <2>1. 0 \in S /\ S \in SUBSET Nat /\ \A y \in S : y <= Len(queue)
    BY <1>2
  <2>2. Final(f) = Max(S)
    BY DEF Final
  <2> HIDE DEF S
  <2>3. Final(f) \in S
    BY <1>2, <2>1, <2>2, LargestUpTo
  <2> QED BY <1>2, <2>3 DEF S
<1>4. /\ Processed(f).queue = SubSeq(queue, n + 1, Len(queue))
      /\ Processed(f).drained = Ours(SubSeq(queue, 1, n))
      /\ Processed(f).dbtc = IF ChurnLimited(0, Final(f), n) THEN dbtc + ChurnLimit - Total(q, 0, n) ELSE 0
  BY DEF Processed
<1>5. n \in Nat /\ n <= Final(f) /\ Processed(f).dbtc \in Nat /\ Takes(q, 0, dbtc, n, Processed(f).dbtc)
  <2>1. Final(f) <= Len(q) /\ n = Fits(q, 0, Final(f), dbtc + ChurnLimit)
    BY <1>2, <1>3
  <2> HIDE DEF q
  <2> QED BY <1>1, <1>2, <1>3, <1>4, <2>1, EpochTakes
<1>6. n <= Len(queue) /\ T \in Nat /\ 0 < T /\ T <= ForkEpoch
  BY <1>1, <1>2, <1>3, <1>5
<1>7. ASSUME NEW i \in 1 .. Len(queue), queue[i].ours PROVE n < i
  <2>1. Shielded(i)
    BY <1>1, <1>2, <1>7 DEF DepositInv
  <2>2. CASE Late(queue[i].slot)
    <3> SUFFICES ASSUME ~(n < i) PROVE FALSE
      OBVIOUS
    <3>1. i \in 1 .. Final(f)
      BY <1>2, <1>3, <1>5
    <3>2. queue[i].slot <= f * SlotsPerEpoch /\ queue[i].slot \in Nat
      BY <1>2, <1>3, <3>1 DEF Entries
    <3>3. f # 0
      BY <1>1, <2>2, <3>2 DEF Late
    <3>4. PICK k \in Nat : ForkEpoch - 1 = (f + 1) + k
      <4>1. (ForkEpoch - 1) - (f + 1) \in Nat /\ ForkEpoch - 1 = (f + 1) + ((ForkEpoch - 1) - (f + 1))
        BY <1>1, <3>3
      <4> QED BY <4>1
    <3>5. (ForkEpoch - 1) * SlotsPerEpoch = f * SlotsPerEpoch + SlotsPerEpoch + k * SlotsPerEpoch
      BY <1>1, <3>4
    <3>6. f * SlotsPerEpoch \in Nat /\ k * SlotsPerEpoch \in Nat
      BY <1>1
    <3> QED BY <1>1, <2>2, <3>2, <3>5, <3>6 DEF Late
  <2>3. CASE Simulated(Amounts(queue), i, dbtc)[ForkEpoch - Epoch(now)].head < i
    BY <1>1, <1>5, <1>6, <2>3, EntrySurvivesEpoch
  <2> QED BY <2>1, <2>2, <2>3 DEF Shielded
<1>8. ~Ours(SubSeq(queue, 1, n))
  <2> DEFINE s == SubSeq(queue, 1, n)
  <2>1. \A i \in 1 .. n : i \in 1 .. Len(queue) /\ queue[i] \in Entries
    BY <1>2, <1>5, <1>6
  <2>2. /\ s \in Seq(Entries) /\ Len(s) = (IF 1 <= n THEN n - 1 + 1 ELSE 0)
        /\ \A i \in 1 .. n - 1 + 1 : s[i] = queue[1 + i - 1]
    BY <1>5, <2>1, SubSeqProperties
  <2>3. n - 1 + 1 = n /\ \A i \in 1 .. n : 1 + i - 1 = i /\ ~(n < i)
    BY <1>5
  <2>4. Len(s) = n
    BY <1>5, <2>2, <2>3
  <2> HIDE DEF s
  <2>5. DOMAIN s = 1 .. n /\ \A i \in 1 .. n : s[i] = queue[i]
    BY <2>2, <2>3, <2>4
  <2>6. \A i \in 1 .. n : ~queue[i].ours
    BY <1>7, <2>1, <2>3
  <2> QED BY <2>5, <2>6 DEF Ours, s
<1> QED BY <1>4, <1>5, <1>6, <1>7, <1>8

\* The next slot.
LEMMA TickDeposits ==
    ASSUME DepositInv, Tick
    PROVE  DepositInv'
<1>1. /\ now' = now + 1 /\ stats' = stats /\ purpose' = purpose /\ headState' = headState /\ HeadInv
      /\ now \in Nat /\ dbtc \in Nat /\ finalized \in Nat /\ queue \in Seq(Entries) /\ now' \in Nat
  BY DEF Tick, DepositInv
<1>2. /\ Epoch(now) \in Nat /\ Epoch(now)' = Epoch(now') /\ ForkEpoch \in Nat
      /\ Epoch(now') = Epoch(now) \/ Epoch(now') = Epoch(now) + 1
  <2>1. Epoch(now)' = Epoch(now')
    BY DEF Epoch
  <2> QED BY <1>1, <2>1, EpochSteps, LifecycleAssumption
<1>5. Epoch(now)' \in Nat /\ Epoch(now) <= Epoch(now)'
  BY <1>2
<1>3. CASE Epoch(now') = Epoch(now) \/ Epoch(now) >= ForkEpoch
  <2>1. queue' = queue /\ dbtc' = dbtc /\ finalized' = finalized /\ entry' = entry
    BY <1>3 DEF Tick
  <2>2. CanLand => CanLand'
    <3>1. CASE Epoch(now') = Epoch(now)
      BY <1>2, <2>1, <3>1 DEF CanLand
    <3>2. CASE Epoch(now) >= ForkEpoch
      <4>1. Epoch(now)' + 1 >= ForkEpoch
        BY <1>2, <3>2
      <4> QED BY <4>1 DEF CanLand
    <3> QED BY <1>3, <3>1, <3>2
  <2>3. Epoch(now)' < ForkEpoch => \A i \in DOMAIN queue : queue[i].ours => Shielded(i)'
    <3> SUFFICES ASSUME Epoch(now)' < ForkEpoch, NEW i \in DOMAIN queue, queue[i].ours PROVE Shielded(i)'
      OBVIOUS
    <3>1. Epoch(now') = Epoch(now) /\ Epoch(now) < ForkEpoch
      BY <1>2, <1>3
    <3>2. Shielded(i)
      BY <3>1 DEF DepositInv
    <3> QED BY <1>2, <2>1, <3>1, <3>2 DEF Shielded
  <2>4. finalized' = 0 \/ finalized' + 2 <= Epoch(now)'
    BY <1>1, <1>2, <2>1 DEF DepositInv
  <2>5. stats'.epoch \in Nat /\ stats'.epoch <= Epoch(now)'
    BY <1>1, <1>2 DEF DepositInv
  <2>6. HeadInv'
    BY <1>1, <1>2, <1>5, <2>2, HeadKept
  <2> QED BY <1>1, <2>1, <2>2, <2>3, <2>4, <2>5, <2>6 DEF DepositInv
<1>4. CASE ~(Epoch(now') = Epoch(now) \/ Epoch(now) >= ForkEpoch)
  <2>1. PICK f \in {finalized, Max({Epoch(now') - 2, finalized})} :
          LET p == Processed(f) IN
          /\ finalized' = IF Epoch(now') = ForkEpoch THEN 0 ELSE f
          /\ queue' = IF Epoch(now') = ForkEpoch THEN <<>> ELSE p.queue
          /\ dbtc' = IF Epoch(now') = ForkEpoch THEN 0 ELSE p.dbtc
          /\ entry' = IF p.drained THEN "validator"
                      ELSE IF Epoch(now') = ForkEpoch /\ Ours(p.queue) THEN "converted" ELSE entry
    BY <1>4 DEF Tick
  <2>2. Epoch(now) < ForkEpoch /\ Epoch(now') = Epoch(now) + 1
    BY <1>2, <1>4
  <2>3. f \in Nat /\ (f = 0 \/ f + 2 <= Epoch(now) + 1)
    <3> DEFINE x == Epoch(now') - 2
    <3>1. x \in Int /\ x + 2 = Epoch(now) + 1
      BY <1>2, <2>2
    <3> HIDE DEF x
    <3>2. \E m \in {x, finalized} : \A z \in {x, finalized} : m >= z
      BY <1>1, <3>1
    <3>3. Max({x, finalized}) \in {x, finalized} /\ Max({x, finalized}) >= finalized
      BY <3>2 DEF Max
    <3>4. f \in {x, finalized} /\ f >= finalized
      BY <1>1, <2>1, <3>3 DEF x
    <3>5. finalized = 0 \/ finalized + 2 <= Epoch(now) + 1
      BY <1>1, <1>2 DEF DepositInv
    <3> QED BY <1>1, <3>1, <3>4, <3>5
  <2>4. PICK n : n = Fits(Amounts(queue), 0, Final(f), dbtc + ChurnLimit)
    OBVIOUS
  <2>5. /\ n \in Nat /\ n <= Len(queue)
        /\ Processed(f).queue = SubSeq(queue, n + 1, Len(queue))
        /\ Processed(f).dbtc \in Nat /\ Takes(Amounts(queue), 0, dbtc, n, Processed(f).dbtc)
        /\ \A i \in 1 .. Len(queue) : queue[i].ours => n < i
        /\ ~Processed(f).drained
    BY <2>2, <2>3, <2>4, EpochProcessed
  <2>6. entry' # "validator"
    BY <2>1, <2>5 DEF DepositInv
  <2>7. stats'.epoch \in Nat /\ stats'.epoch <= Epoch(now)'
    BY <1>1, <1>2 DEF DepositInv
  <2>8. CASE Epoch(now') = ForkEpoch
    <3>1. queue' = <<>> /\ dbtc' = 0 /\ finalized' = 0
      BY <2>1, <2>8
    <3>2. CanLand' /\ ~(Epoch(now)' < ForkEpoch)
      BY <1>2, <2>8 DEF CanLand
    <3>3. queue' \in Seq(Entries)
      BY <3>1
    <3>4. HeadInv'
      BY <1>1, <1>2, <1>5, <3>2, HeadKept
    <3> QED BY <1>1, <2>6, <2>7, <3>1, <3>2, <3>3, <3>4 DEF DepositInv
  <2>9. CASE Epoch(now') # ForkEpoch
    <3> DEFINE r == SubSeq(queue, n + 1, Len(queue))
               left == Processed(f).dbtc
               T == ForkEpoch - Epoch(now)
    <3>1. queue' = r /\ dbtc' = left /\ finalized' = f
      BY <2>1, <2>5, <2>9
    <3>2. r \in Seq(Entries) /\ Len(r) = Len(queue) - n /\ \A i \in 1 .. Len(queue) - n : r[i] = queue[n + i]
      BY <1>1, <2>5, Remainder
    <3>3. T \in Nat /\ 0 < T /\ T <= ForkEpoch /\ T - 1 = ForkEpoch - Epoch(now')
      BY <1>2, <2>2
    <3>4. CanLand => CanLand'
      <4>1. CASE Epoch(now) + 1 >= ForkEpoch
        <5>1. Epoch(now)' + 1 >= ForkEpoch
          BY <1>2, <2>2, <4>1
        <5> QED BY <5>1 DEF CanLand
      <4>2. CASE DepositSurvives(Amounts(queue), dbtc, T)
        <5>1. DepositSurvives(Amounts(r), left, T - 1)
          BY <1>1, <2>5, <3>3, <4>2, SurvivesEpoch
        <5> QED BY <1>2, <3>1, <3>3, <5>1 DEF CanLand
      <4> QED BY <4>1, <4>2 DEF CanLand
    <3>5. ASSUME NEW i \in 1 .. Len(r), r[i].ours PROVE Shielded(i)'
      <4> DEFINE j == n + i
      <4>1. j \in 1 .. Len(queue) /\ i \in 1 .. Len(queue) - n /\ j - n = i
        BY <1>1, <2>5, <3>2
      <4>2. r[i] = queue[j]
        BY <3>2, <4>1
      <4> HIDE DEF j, r, left, T
      <4>3. Shielded(j)
        <5>1. \A k \in DOMAIN queue : queue[k].ours => Shielded(k)
          BY <2>2 DEF DepositInv
        <5>2. j \in DOMAIN queue
          BY <1>1, <4>1
        <5> QED BY <3>5, <4>2, <5>1, <5>2
      <4>4. CASE Late(queue[j].slot)
        BY <3>1, <4>2, <4>4 DEF Shielded, Late
      <4>5. CASE Simulated(Amounts(queue), j, dbtc)[T].head < j
        <5>1. Simulated(Amounts(r), j - n, left)[T - 1].head < j - n
          BY <1>1, <2>5, <3>3, <4>1, <4>5, EntrySurvivesEpoch DEF r, left
        <5> QED BY <1>2, <3>1, <3>3, <4>1, <5>1 DEF Shielded
      <4> QED BY <4>3, <4>4, <4>5 DEF Shielded, T
    <3>6. Epoch(now)' < ForkEpoch => \A i \in DOMAIN queue' : queue'[i].ours => Shielded(i)'
      <4>1. DOMAIN queue' = 1 .. Len(r)
        BY <3>1, <3>2
      <4> QED BY <3>1, <3>5, <4>1
    <3>7. finalized' = 0 \/ finalized' + 2 <= Epoch(now)'
      BY <1>2, <2>2, <2>3, <3>1
    <3>8. HeadInv'
      BY <1>1, <1>2, <1>5, <3>4, HeadKept
    <3> QED BY <1>1, <2>3, <2>5, <2>6, <2>7, <3>1, <3>2, <3>4, <3>6, <3>7, <3>8 DEF DepositInv
  <2> QED BY <2>8, <2>9
<1> QED BY <1>3, <1>4

\* A transaction is mined: a deposit lands only where it is not reached before the fork.
LEMMA MineDeposits ==
    ASSUME DepositInv, WalletInv, MineTx
    PROVE  DepositInv'
<1>1. /\ now' = now /\ dbtc' = dbtc /\ finalized' = finalized /\ stats' = stats /\ purpose' = purpose
      /\ headState' = Current'
      /\ now \in Nat /\ 0 < now /\ dbtc \in Nat /\ queue \in Seq(Entries) /\ ForkEpoch \in Nat
  BY LifecycleAssumption DEF MineTx, DepositInv
<1>2. Epoch(now)' = Epoch(now) /\ Epoch(now) \in Nat
  BY <1>1, EpochSteps DEF Epoch
<1> DEFINE e == [ours |-> TRUE, amount |-> Amount, slot |-> now]
<1>3. queue' = queue \/ (CanLand /\ queue' = Append(queue, e))
  <2>1. PICK ok \in BOOLEAN :
          /\ Mine(ok)
          /\ LET c == chain'[Len(chain')].of
                 what == IF c = Foreign \/ ~ok THEN "none" ELSE purpose[c]
             IN  queue' = IF what = "early" /\ now < ForkSlot THEN Append(queue, e) ELSE queue
    BY DEF MineTx
  <2>2. chain'[Len(chain')].of \in Calls \cup {Foreign}
    <3>1. chain \in Seq([of : Calls \cup {Foreign}, ok : BOOLEAN]) /\ pool[Confirmed] \in Calls \cup {Foreign}
      BY <2>1 DEF WalletInv, WalletTypeOK, Mine
    <3>2. chain' = Append(chain, [of |-> pool[Confirmed], ok |-> ok])
      BY <2>1 DEF Mine
    <3>3. chain'[Len(chain')] = [of |-> pool[Confirmed], ok |-> ok]
      BY <3>1, <3>2, AppendProperties
    <3> QED BY <3>1, <3>3
  <2> QED BY <2>1, <2>2 DEF DepositInv
<1>4. entry' # "validator"
  BY DEF MineTx, DepositInv
<1>5. CASE queue' = queue
  <2>1. CanLand' = CanLand /\ \A i : Shielded(i)' = Shielded(i)
    BY <1>1, <1>5 DEF CanLand, Shielded, Epoch
  <2>2. HeadInv'
    BY <1>1, <1>5, HeadNow
  <2> QED BY <1>1, <1>2, <1>4, <1>5, <2>1, <2>2 DEF DepositInv
<1>6. CASE CanLand /\ queue' = Append(queue, e)
  <2>1. e \in Entries /\ e.amount = Amount /\ e.slot = now
    BY <1>1, LifecycleAssumption DEF Entries
  <2> HIDE DEF e
  <2>2. /\ queue' \in Seq(Entries) /\ Len(queue') = Len(queue) + 1 /\ Len(queue) \in Nat
        /\ \A i \in 1 .. Len(queue) : queue'[i] = queue[i]
        /\ queue'[Len(queue) + 1] = e
    BY <1>1, <1>6, <2>1, AppendProperties
  <2>3. CanLand'
    <3>1. CASE Epoch(now) + 1 >= ForkEpoch
      BY <1>2, <3>1 DEF CanLand
    <3>2. CASE ~(Epoch(now) + 1 >= ForkEpoch)
      <4>1. ForkEpoch - Epoch(now) \in Nat /\ ForkEpoch - Epoch(now) <= ForkEpoch
        BY <1>1, <1>2, <3>2
      <4>2. DepositSurvives(Amounts(queue), dbtc, ForkEpoch - Epoch(now))
        BY <1>6, <3>2 DEF CanLand
      <4>3. DepositSurvives(Amounts(queue'), dbtc, ForkEpoch - Epoch(now))
        BY <1>1, <1>6, <2>1, <4>1, <4>2, SurvivesLonger
      <4> QED BY <1>1, <1>2, <4>3 DEF CanLand
    <3> QED BY <3>1, <3>2
  <2>4. ASSUME Epoch(now) < ForkEpoch, NEW i \in 1 .. Len(queue) + 1, queue'[i].ours PROVE Shielded(i)'
    <3> DEFINE T == ForkEpoch - Epoch(now)
               a == Amounts(queue)
               b == Amounts(queue')
    <3>1. T \in Nat /\ T <= ForkEpoch
      BY <1>1, <1>2, <2>4
    <3>2. /\ a \in Seq(Nat) /\ Len(a) = Len(queue) /\ \A k \in 1 .. Len(queue) : a[k] = queue[k].amount
      BY <1>1, AmountsFacts
    <3>3. /\ b \in Seq(Nat) /\ Len(b) = Len(queue) + 1 /\ \A k \in 1 .. Len(queue) + 1 : b[k] = queue'[k].amount
      BY <2>2, AmountsFacts
    <3>4. CASE i # Len(queue) + 1
      <4>1. i \in 1 .. Len(queue) /\ i \in DOMAIN queue
        BY <1>1, <2>2, <3>4
      <4>2. queue'[i] = queue[i]
        BY <2>2, <4>1
      <4>3. Shielded(i)
        BY <2>4, <4>1, <4>2 DEF DepositInv
      <4>4. CASE Late(queue[i].slot)
        BY <4>2, <4>4 DEF Shielded, Late
      <4>5. CASE Simulated(a, i, dbtc)[T].head < i
        <5>1. i \in Nat /\ i <= Len(a) /\ i <= i /\ i <= Len(b)
          BY <2>2, <3>2, <3>3, <4>1
        <5>2. \A k \in 1 .. i : b[k] = a[k]
          <6> SUFFICES ASSUME NEW k \in 1 .. i PROVE b[k] = a[k]
            OBVIOUS
          <6>1. k \in 1 .. Len(queue) /\ k \in 1 .. Len(queue) + 1
            BY <2>2, <4>1
          <6> QED BY <2>2, <3>2, <3>3, <6>1
        <5> HIDE DEF a, b, T
        <5>3. Simulated(b, i, dbtc)[T].head < i
          BY <1>1, <3>1, <3>2, <3>3, <4>5, <5>1, <5>2, LongerSpares
        <5> QED BY <1>1, <1>2, <5>3 DEF Shielded, T, b
      <4> QED BY <4>3, <4>4, <4>5 DEF Shielded
    <3>5. CASE i = Len(queue) + 1
      <4>1. CASE Epoch(now) + 1 >= ForkEpoch
        <5>1. SlotsPerEpoch \in Nat \ {0} /\ Epoch(now) = ForkEpoch - 1
          <6>1. SlotsPerEpoch \in Nat \ {0}
            BY LifecycleAssumption
          <6>2. \A x, y \in Nat : x < y /\ x + 1 >= y => x = y - 1
            OBVIOUS
          <6> QED BY <1>1, <1>2, <2>4, <4>1, <6>1, <6>2
        <5>2. Epoch(now) * SlotsPerEpoch <= now
          <6>1. /\ now \div SlotsPerEpoch \in Nat /\ now % SlotsPerEpoch \in 0 .. SlotsPerEpoch - 1
                /\ now = SlotsPerEpoch * (now \div SlotsPerEpoch) + (now % SlotsPerEpoch)
            BY <1>1, <5>1
          <6> QED BY <1>1, <5>1, <6>1 DEF Epoch
        <5>3. now >= (ForkEpoch - 1) * SlotsPerEpoch /\ now > 0
          <6>1. (ForkEpoch - 1) * SlotsPerEpoch <= now
            BY <5>1, <5>2
          <6>2. ForkEpoch - 1 \in Int /\ (ForkEpoch - 1) * SlotsPerEpoch \in Int
            BY <1>1, <5>1
          <6> QED BY <1>1, <6>1, <6>2
        <5>4. Late(e.slot)
          BY <2>1, <5>3 DEF Late
        <5> QED BY <2>2, <3>5, <5>4 DEF Shielded, Late
      <4>2. CASE DepositSurvives(Amounts(queue), dbtc, T)
        <5> DEFINE s == Append(a, Amount)
        <5>1. /\ s \in Seq(Nat) /\ Len(s) = Len(queue) + 1 /\ s[Len(queue) + 1] = Amount
              /\ \A k \in 1 .. Len(queue) : s[k] = a[k]
          BY <1>1, SimQueue
        <5>2. Simulated(s, Len(s), dbtc)[T].head < Len(s)
          BY <4>2 DEF DepositSurvives
        <5> HIDE DEF s, a, b, T
        <5>3. i \in Nat /\ i = Len(s) /\ i <= Len(s) /\ i <= i /\ i <= Len(b)
          BY <2>2, <3>3, <3>5, <5>1
        <5>4. \A k \in 1 .. i : b[k] = s[k]
          <6> SUFFICES ASSUME NEW k \in 1 .. i PROVE b[k] = s[k]
            OBVIOUS
          <6>1. k \in 1 .. Len(queue) + 1 /\ (k \in 1 .. Len(queue) \/ k = Len(queue) + 1)
            BY <2>2, <3>5
          <6> QED BY <2>1, <2>2, <3>2, <3>3, <5>1, <6>1
        <5>5. Simulated(b, i, dbtc)[T].head < i
          <6>1. Simulated(s, i, dbtc)[T].head < i
            BY <5>2, <5>3
          <6> QED BY <1>1, <3>1, <3>3, <5>1, <5>3, <5>4, <6>1, LongerSpares
        <5> QED BY <1>1, <1>2, <5>5 DEF Shielded, T, b
      <4> QED BY <1>6, <4>1, <4>2 DEF CanLand
    <3> QED BY <3>4, <3>5
  <2>5. DOMAIN queue' = 1 .. Len(queue) + 1
    BY <2>2
  <2>6. Epoch(now)' < ForkEpoch => \A i \in DOMAIN queue' : queue'[i].ours => Shielded(i)'
    BY <1>2, <2>4, <2>5
  <2>7. HeadInv'
    BY <1>1, <2>2, HeadNow
  <2> QED BY <1>1, <1>2, <1>4, <2>2, <2>3, <2>6, <2>7 DEF DepositInv
<1> QED BY <1>3, <1>5, <1>6

\* The manager hands over an early deposit, unless it does so blindly, only when it can
\* land.
LEMMA EarlyLands ==
    ASSUME MinEarlyOnboardSlots <= SlotsPerEpoch, DepositInv, Evaluation = "early", LastSafeEpoch \/ stats.fresh
    PROVE  CanLand
<1>1. ShouldDeposit /\ ~(Epoch(now) >= ForkEpoch)
  BY DEF Evaluation, EarlyOver
<1>2. /\ Epoch(now) \in Nat /\ ForkEpoch \in Nat /\ SlotsPerEpoch \in Nat \ {0} /\ MinEarlyOnboardSlots \in Nat
  BY LifecycleAssumption, EpochSteps DEF DepositInv
<1>3. CASE stats.survives /\ stats.fresh
  BY <1>3 DEF DepositInv
<1>4. CASE LastSafeEpoch
  <2> SUFFICES ASSUME ~(Epoch(now) + 1 >= ForkEpoch) PROVE FALSE
    BY DEF CanLand
  <2>1. PICK k \in Nat : ForkEpoch - Epoch(now) - 1 = 1 + k
    <3>1. ForkEpoch - Epoch(now) - 2 \in Nat /\ ForkEpoch - Epoch(now) - 1 = 1 + (ForkEpoch - Epoch(now) - 2)
      BY <1>2
    <3> QED BY <3>1
  <2>2. (1 + k) * SlotsPerEpoch = SlotsPerEpoch + k * SlotsPerEpoch /\ k * SlotsPerEpoch \in Nat
    BY <1>2
  <2>3. (1 + k) * SlotsPerEpoch < MinEarlyOnboardSlots
    BY <1>4, <2>1 DEF LastSafeEpoch, EpochsUntilFork
  <2> QED BY <1>2, <2>2, <2>3
<1> QED BY <1>1, <1>3, <1>4 DEF ShouldDeposit

\* The manager and the web UI: the stats they keep or load, and the calls they make.
LEMMA ThreadDeposits ==
    ASSUME MinEarlyOnboardSlots <= SlotsPerEpoch, DepositInv, ManagerInv, ManagerStep \/ UiStep, ~blind'
    PROVE  DepositInv'
<1>1. UNCHANGED chainVars
  BY DEF ManagerStep, UiStep, Start, TryEarlyOnboardOnce, NextEpoch, EarlyReturns, WaitForRegistration,
         EarlyWaitTimeout, WaitForGloasState, EnsureBuilderRegistered, DepositReturns, WaitTimeout,
         CheckAndTopup, TopupReturns, InitiateExit, ExitReturns, others
<1>2. stats' = stats \/ \E e \in Nat : e <= Epoch(now) /\ stats' = StatsAs(e)
  <2>1. stats' = stats \/ stats' = StatsAs(stats.epoch)
    BY DEF ManagerStep, UiStep, Start, TryEarlyOnboardOnce, NextEpoch, EarlyReturns, WaitForRegistration,
           EarlyWaitTimeout, WaitForGloasState, EnsureBuilderRegistered, DepositReturns, WaitTimeout,
           CheckAndTopup, TopupReturns, InitiateExit, ExitReturns, others
  <2>2. stats.epoch \in Nat /\ stats.epoch <= Epoch(now)
    BY DEF DepositInv
  <2> QED BY <2>1, <2>2
<1>3. \/ purpose' = purpose
      \/ \E t \in {"manager", "ui"}, what \in {"deposit", "topup", "exit"} : Hands(t, what)
      \/ TryEarlyOnboardOnce /\ Evaluation = "early" /\ Hands("manager", "early")
  <2>1. CASE ManagerStep
    BY <2>1 DEF ManagerStep, Start, TryEarlyOnboardOnce, NextEpoch, EarlyReturns, WaitForRegistration,
                EarlyWaitTimeout, WaitForGloasState, EnsureBuilderRegistered, DepositReturns, WaitTimeout,
                CheckAndTopup, TopupReturns, CreateEarlyDeposit, CreateDeposit, idle
  <2>2. CASE UiStep
    BY <2>2 DEF UiStep, EnsureBuilderRegistered, DepositReturns, WaitForRegistration, WaitTimeout,
                CheckAndTopup, TopupReturns, InitiateExit, ExitReturns, CreateDeposit, CreateExit, idle
  <2> QED BY <2>1, <2>2
<1>4. DOMAIN purpose' = Calls /\ \A c \in Calls : purpose'[c] = "early" => CanLand
  <2>1. CASE purpose' = purpose
    BY <2>1 DEF DepositInv
  <2>2. ASSUME NEW t \in {"manager", "ui"}, NEW what \in {"deposit", "topup", "exit"}, Hands(t, what)
        PROVE  DOMAIN purpose' = Calls /\ \A c \in Calls : purpose'[c] = "early" => CanLand
    <3>1. DOMAIN purpose' = Calls /\ \A c \in Calls : purpose'[c] = purpose[c] \/ purpose'[c] = what
      BY <2>2, HandsPurpose DEF DepositInv
    <3> QED BY <3>1 DEF DepositInv
  <2>3. CASE TryEarlyOnboardOnce /\ Evaluation = "early" /\ Hands("manager", "early")
    <3>1. DOMAIN purpose' = Calls
      BY <2>3, HandsPurpose DEF DepositInv
    <3>2. thread'["manager"].pc = "early"
      BY <2>3, HandsGoes
    <3>3. LastSafeEpoch \/ stats.fresh
      BY <2>3, <3>2 DEF TryEarlyOnboardOnce
    <3>4. CanLand
      BY <2>3, <3>3, EarlyLands
    <3> QED BY <3>1, <3>4
  <2> QED BY <1>3, <2>1, <2>2, <2>3
<1> QED BY <1>1, <1>2, <1>4, ProcessInv

\* A deposit that was decided blindly stays so.
LEMMA BlindStays ==
    ASSUME [Next]_vars, blind
    PROVE  blind'
BY DEF Next, vars, Tick, Block, MineTx, AccountStep, LoadStats, WalletActs, Restart, ManagerStep, UiStep, Start,
       TryEarlyOnboardOnce, NextEpoch, EarlyReturns, WaitForRegistration, EarlyWaitTimeout, WaitForGloasState,
       EnsureBuilderRegistered, DepositReturns, WaitTimeout, CheckAndTopup, TopupReturns, InitiateExit,
       ExitReturns, others

LEMMA DepositInvStep ==
    ASSUME MinEarlyOnboardSlots <= SlotsPerEpoch, DepositInv, ManagerInv, WalletInv, [Next]_vars, ~blind'
    PROVE  DepositInv'
<1>1. Epoch(now) \in Nat /\ Epoch(now) <= Epoch(now)
  BY EpochSteps DEF DepositInv
<1>2. CASE UNCHANGED vars
  BY <1>2, ProcessInv DEF vars, chainVars, DepositInv
<1>3. CASE Tick
  BY <1>3, TickDeposits
<1>4. CASE MineTx
  BY <1>4, MineDeposits
<1>5. CASE AccountStep \/ WalletActs
  <2>1. UNCHANGED chainVars /\ stats' = stats /\ purpose' = purpose
    BY <1>5 DEF AccountStep, WalletActs, others
  <2> QED BY <2>1, ProcessInv DEF DepositInv
<1>6. CASE LoadStats \/ Restart
  <2>1. /\ UNCHANGED chainVars /\ purpose' = purpose
        /\ stats' = StatsAs(Epoch(now)) \/ stats' = StatsAs(headState.epoch)
    BY <1>6 DEF LoadStats, Restart
  <2>2. headState.epoch \in Nat /\ headState.epoch <= Epoch(now)
    BY DEF DepositInv, HeadInv
  <2> QED BY <1>1, <2>1, <2>2, ProcessInv DEF DepositInv
<1>7. CASE ManagerStep \/ UiStep
  BY <1>7, ThreadDeposits
<1>8. CASE Block
  BY <1>8, BlockDeposits
<1> QED BY <1>2, <1>3, <1>4, <1>5, <1>6, <1>7, <1>8 DEF Next

LEMMA DepositInit ==
    ASSUME Init
    PROVE  DepositInv
<1>1. PICK q \in Queues : queue = [i \in DOMAIN q |-> [ours |-> FALSE, amount |-> q[i], slot |-> 0]]
  BY DEF Init
<1>2. /\ now = 0 /\ dbtc = 0 /\ finalized = 0 /\ entry = "none" /\ stats = StatsAs(0)
      /\ purpose = [c \in Calls |-> "none"] /\ headState = Current
  BY DEF Init
<1>3. q \in Seq(Nat)
  BY LifecycleAssumption
<1>4. /\ DOMAIN q = 1 .. Len(q) /\ Len(q) \in Nat /\ \A i \in 1 .. Len(q) : q[i] \in Nat
  BY <1>3
<1>5. queue \in Seq(Entries) /\ \A i \in DOMAIN queue : ~queue[i].ours
  <2>1. \A i \in 1 .. Len(q) : [ours |-> FALSE, amount |-> q[i], slot |-> 0] \in Entries
    BY <1>4 DEF Entries
  <2>2. queue \in Seq(Entries)
    BY <1>1, <1>4, <2>1, IsASeq
  <2> QED BY <1>1, <2>2
<1>6. Epoch(now) \in Nat /\ 0 <= Epoch(now) /\ now \in Nat /\ dbtc \in Nat
  <2>1. now \in Nat /\ dbtc \in Nat
    BY <1>2
  <2>2. Epoch(now) \in Nat
    BY <2>1, EpochSteps
  <2> QED BY <2>1, <2>2
<1>9. HeadInv
  <2>1. headState.epoch = Epoch(now) /\ headState.queue = queue /\ headState.dbtc = dbtc
    BY <1>2 DEF Current
  <2> QED BY <1>5, <1>6, <2>1 DEF HeadInv, CanLand
<1>7. stats.survives => CanLand
  <2>1. headState.epoch = Epoch(now)
    BY <1>2 DEF Current
  <2> QED BY <1>2, <1>6, <1>9, <2>1, StatsLand
<1>8. stats.epoch = 0
  BY <1>2 DEF StatsAs
<1> QED BY <1>2, <1>5, <1>6, <1>7, <1>8, <1>9 DEF DepositInv

\* Every early deposit of the manager that was not decided blindly, on a state filed under
\* a later epoch than its own, stays in the queue until the fork.  With an epoch at least
\* as long as minEarlyOnboardSlots, the last safe epoch is the last one before the fork;
\* in a shorter one lastSafeEpoch holds earlier too, and does not look at the queue.
THEOREM EarlyDepositsSurvive ==
    ASSUME MinEarlyOnboardSlots <= SlotsPerEpoch
    PROVE  FairSpec => []EarlyDepositSurvives
<1>1. Init => SightedInv
  BY DepositInit DEF SightedInv
<1>2. SightedInv /\ ManagerInv /\ WalletInv /\ [Next]_vars => SightedInv'
  BY DepositInvStep, BlindStays DEF SightedInv
<1>3. SightedInv => EarlyDepositSurvives
  BY DEF SightedInv, DepositInv, EarlyDepositSurvives
<1> QED BY <1>1, <1>2, <1>3, ManagerInvariant, WalletInvariant, PTL DEF FairSpec
=============================================================================
