--------------------------- MODULE MCSlotResults ---------------------------
(* Five slots for TLC: two to build, one skipped, two nobody is active for. *)
EXTENDS SlotResults, TLC

MCDecision == 1 :> "build" @@ 2 :> "uninvolved" @@ 3 :> "skip" @@
              4 :> "uninvolved" @@ 5 :> "build"

=============================================================================
