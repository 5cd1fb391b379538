------------------------------- MODULE TxCall -------------------------------
(***************************************************************************)
(* What a caller of the wallet relies on.  A call is handed one            *)
(* transaction to get mined.  It returns; it returns "included" or         *)
(* "reverted" only when that transaction was mined; and whatever it tried  *)
(* in between, the transaction is mined at most once.  A call that failed  *)
(* promises nothing: its transaction may be mined later.                   *)
(*                                                                         *)
(*   status   of each call: idle, running, included, reverted, failed      *)
(*   landed   of each call: how often its transaction was mined            *)
(***************************************************************************)
EXTENDS Naturals

CONSTANT Calls

VARIABLES status, landed

txVars == <<status, landed>>

Init == status = [c \in Calls |-> "idle"] /\ landed = [c \in Calls |-> 0]

Call(c) ==
    /\ status[c] = "idle"
    /\ status' = [status EXCEPT ![c] = "running"]
    /\ UNCHANGED landed

Land(c) ==
    /\ status[c] # "idle" /\ landed[c] = 0
    /\ landed' = [landed EXCEPT ![c] = 1]
    /\ UNCHANGED status

Return(c) ==
    /\ status[c] = "running"
    /\ \E s \in {"failed"} \cup (IF landed[c] = 1 THEN {"included", "reverted"} ELSE {}) :
         status' = [status EXCEPT ![c] = s]
    /\ UNCHANGED landed

\* The program stops: whatever it was waiting for is out of its hands.
Abandon ==
    /\ status' = [c \in Calls |-> IF status[c] = "running" THEN "failed" ELSE status[c]]
    /\ UNCHANGED landed

Next == Abandon \/ \E c \in Calls : Call(c) \/ Land(c) \/ Return(c)

Spec == Init /\ [][Next]_txVars /\ \A c \in Calls : WF_txVars(Return(c))
=============================================================================
