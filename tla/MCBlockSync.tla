---------------------------- MODULE MCBlockSync ----------------------------
(* A small network: a chain 1 - 2 - 3 and a block 4 of this node on top of *)
(* 2.  Blocks 3 and 4 finalize block 1.  A fork 5 - 6 from the anchor ends  *)
(* in the slot of block 1.                                                 *)
EXTENDS BlockSync

MCGenesis == 0
MCBlocks == 1 .. 6
MCParent == <<0, 1, 2, 2, 0, 5>>
MCSlotOf == [b \in 0 .. 6 |-> <<0, 2, 3, 5, 4, 1, 2>>[b + 1]]
MCFinalizes == [b \in 1 .. 6 |-> IF b \in {3, 4} THEN 1 ELSE 0]
MCNoFinality == [b \in 1 .. 6 |-> 0]
=============================================================================
