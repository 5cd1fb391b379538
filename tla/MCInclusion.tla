---------------------------- MODULE MCInclusion ----------------------------
(* A block tree for TLC: slot 1 is ours; the chain builds on our payload (c),
   ignores it (d) or forks before it (e); slot 3 is ours on one branch. *)
EXTENDS Inclusion, TLC

CONSTANTS g, b, c, d, e, f, h

Blk(slot, parent, ours, base) == [slot |-> slot, parent |-> parent, ours |-> ours, base |-> base]

MCInfo ==
    g :> Blk(0, g, NoSlot, NoSlot) @@ b :> Blk(1, g, 1, NoSlot) @@
    c :> Blk(2, b, NoSlot, 1) @@ d :> Blk(2, b, NoSlot, NoSlot) @@
    e :> Blk(2, g, NoSlot, NoSlot) @@ f :> Blk(3, c, 3, NoSlot) @@
    h :> Blk(4, f, NoSlot, 3)

=============================================================================
