------------------------------ MODULE MCWebUi ------------------------------
(* A setting of the config and a toggle; one browser with one request after the other:  *)
(* requests share nothing but what the loop sends to all of them.                       *)
EXTENDS WebUi

CONSTANTS v0, v1

\* With and without a flag.
MCCommandLines == {[k \in Keys |-> IF k = 1 THEN v ELSE None] : v \in {None, v1}}
=============================================================================
