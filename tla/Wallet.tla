------------------------------- MODULE Wallet -------------------------------
(***************************************************************************)
(* SendAndConfirm of pkg/wallet/wallet.go: a transaction is sent with a    *)
(* nonce read from the node, watched, and sent again when the node's state *)
(* shows that it can no longer be mined.  Calls of this process take       *)
(* turns; other instances send from the same account.                      *)
(*                                                                         *)
(*   call     each call: where it is, the nonce in use, the attempt, and   *)
(*            whether the last send returned an error                      *)
(*   chain    the account's mined transactions and whether each succeeded; *)
(*            the n-th has nonce n - 1                                     *)
(*   pool     the account's pending transactions, by nonce                 *)
(*   foreign  transactions other instances have sent                       *)
(*                                                                         *)
(* A transaction is the call it is of, Foreign for another instance's.     *)
(* One that left the pool without being mined is gone for good: the model  *)
(* leaves out a node that forgets what others still hold.                  *)
(***************************************************************************)
EXTENDS Integers, Sequences, FiniteSets, Functions, FiniteSetsExt

CONSTANTS
    Calls,         \* bound: the calls there can be, 1 .. n
    MaxAttempts,   \* txMaxAttempts (8)
    MaxForeign     \* bound: transactions of other instances

ASSUME WalletAssumption == Calls \subseteq Nat \ {0} /\ MaxAttempts \in Nat \ {0} /\ MaxForeign \in Nat

VARIABLES call, chain, pool, foreign

walletVars == <<call, chain, pool, foreign>>

Foreign == 0
Idle == [pc |-> "idle", nonce |-> 0, attempt |-> 0, err |-> FALSE]

WalletInit ==
    /\ call = [c \in Calls |-> Idle]
    /\ chain = <<>> /\ pool = <<>> /\ foreign = 0

-----------------------------------------------------------------------------
(* The node.                                                               *)

Confirmed == Len(chain)

\* The first nonce that nothing mined or pending has.
Pending == CHOOSE n \in Confirmed .. Confirmed + Cardinality(DOMAIN pool) :
             n \notin DOMAIN pool /\ \A k \in Confirmed .. n - 1 : k \in DOMAIN pool

\* nextNonce: the larger of the pending and the confirmed nonce.  Some nodes report a
\* pending nonce that lags behind.
NextNonces == {Confirmed, Pending}

Mined(c, n) == n < Confirmed /\ chain[n + 1].of = c
InPool(c, n) == n \in DOMAIN pool /\ pool[n] = c

\* Transaction t is pending at nonce n, in place of what was.
Enters(t, n) == pool' = [k \in DOMAIN pool \cup {n} |-> IF k = n THEN t ELSE pool[k]]

Mine(ok) ==
    /\ Confirmed \in DOMAIN pool
    /\ chain' = Append(chain, [of |-> pool[Confirmed], ok |-> ok])
    /\ pool' = Restrict(pool, DOMAIN pool \ {Confirmed})
    /\ UNCHANGED <<call, foreign>>

DropTx ==
    /\ \E n \in DOMAIN pool : pool' = Restrict(pool, DOMAIN pool \ {n})
    /\ UNCHANGED <<call, chain, foreign>>

ForeignTx ==
    /\ foreign < MaxForeign
    /\ foreign' = foreign + 1
    /\ \E n \in NextNonces : Enters(Foreign, n)
    /\ UNCHANGED <<call, chain>>

-----------------------------------------------------------------------------
(* SendAndConfirm.                                                         *)

Running(c) == call[c].pc \in {"build", "send", "poll", "gone"}
Waiting(c) == call[c].pc = "lock"
Returned(c) == call[c].pc \in {"included", "reverted", "failed"}

Sets(c, x) == call' = [call EXCEPT ![c] = x]
Ends(c, outcome) == Sets(c, [Idle EXCEPT !.pc = outcome])
rest == <<chain, pool, foreign>>

\* A call is made; it waits for txMu.
SendAndConfirm(c) == call[c].pc = "idle" /\ Sets(c, [Idle EXCEPT !.pc = "lock"]) /\ UNCHANGED rest

Lock(c) ==
    /\ Waiting(c) /\ \A d \in Calls : ~Running(d)
    /\ Sets(c, [call[c] EXCEPT !.pc = "build", !.attempt = 1])
    /\ UNCHANGED rest

\* buildAndSign: the nonce is read, or the node does not answer.
BuildAndSign(c) ==
    /\ call[c].pc = "build"
    /\ \/ \E n \in NextNonces : Sets(c, [call[c] EXCEPT !.pc = "send", !.nonce = n])
       \/ Ends(c, "failed")
    /\ UNCHANGED rest

\* SendTransaction: refused, or taken (for a nonce in the pool: as a replacement); the
\* error of a send says nothing about which.
SendTransaction(c) ==
    /\ call[c].pc = "send"
    /\ \E err \in BOOLEAN :
         /\ Sets(c, [call[c] EXCEPT !.pc = "poll", !.err = err])
         /\ \/ call[c].nonce >= Confirmed /\ Enters(c, call[c].nonce)
            \/ err /\ UNCHANGED pool
    /\ UNCHANGED <<chain, foreign>>

\* Mutant of Poll: whatever is not mined counts as gone.
PollImpatient(c) ==
    /\ call[c].pc = "poll"
    /\ IF Mined(c, call[c].nonce) THEN Ends(c, "included") ELSE Sets(c, [call[c] EXCEPT !.pc = "gone"])
    /\ UNCHANGED rest

\* resolve, its first two questions.  A look-up that fails is asked again.
Poll(c) ==
    /\ call[c].pc = "poll"
    /\ \/ /\ Mined(c, call[c].nonce)
          /\ Ends(c, IF chain[call[c].nonce + 1].ok THEN "included" ELSE "reverted")
       \/ /\ ~Mined(c, call[c].nonce) /\ ~InPool(c, call[c].nonce)
          /\ Sets(c, [call[c] EXCEPT !.pc = "gone"])
    /\ UNCHANGED rest

\* resolve, its last two: our nonce was taken, the send never took effect, or the
\* transaction was dropped.
Resolved(c, next) == IF next > call[c].nonce \/ ~call[c].err THEN "retry" ELSE "failed"

\* The loop of SendAndConfirm after outcomeRetry.
Retry(c) ==
    Sets(c, IF call[c].attempt < MaxAttempts
            THEN [call[c] EXCEPT !.pc = "build", !.attempt = @ + 1]
            ELSE [Idle EXCEPT !.pc = "failed"])

Resolve(c) ==
    /\ call[c].pc = "gone"
    /\ \E next \in NextNonces :
         IF Resolved(c, next) = "retry" THEN Retry(c) ELSE Ends(c, "failed")
    /\ UNCHANGED rest

\* Five minutes: whether the transaction is pending, mined or gone.
Timeout(c) ==
    /\ call[c].pc \in {"poll", "gone"}
    /\ Ends(c, "failed")
    /\ UNCHANGED rest

WalletStep(c) ==
    Lock(c) \/ BuildAndSign(c) \/ SendTransaction(c) \/ Poll(c) \/ Resolve(c) \/ Timeout(c)

\* The process stops; what it sent stays sent.
WalletStops ==
    /\ call' = [c \in Calls |-> IF Waiting(c) \/ Running(c) THEN [Idle EXCEPT !.pc = "failed"] ELSE call[c]]
    /\ UNCHANGED rest

-----------------------------------------------------------------------------
(* The wallet keeps the contract.                                          *)

Contract == INSTANCE TxCall WITH
    status <- [c \in Calls |-> IF Waiting(c) \/ Running(c) THEN "running" ELSE call[c].pc],
    landed <- [c \in Calls |-> Cardinality({n \in DOMAIN chain : chain[n].of = c})]

\* Every call to the wallet returns and gets its transaction mined at most once, however
\* nonces are taken by other instances, sends fail or seem to, transactions are dropped
\* or replaced and confirmations time out.
CallContract == Contract!Spec
=============================================================================
