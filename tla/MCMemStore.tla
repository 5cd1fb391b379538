----------------------------- MODULE MCMemStore -----------------------------
(* A small instance of MemStore for TLC. *)
EXTENDS MemStore

CONSTANTS k1, k2, v1, c1, c2

=============================================================================
