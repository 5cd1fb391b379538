---------------------------- MODULE MCLifecycle ----------------------------
(* The early-onboarding window and the first slot of the fork. *)
EXTENDS Lifecycle

\* An empty queue, and three deposits that leave a balance to carry.
MCQueues == {<<>>, <<1, 2, 2>>}
=============================================================================
