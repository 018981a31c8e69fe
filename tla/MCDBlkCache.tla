----------------------------- MODULE MCDBlkCache -----------------------------
(* Three blocks in two sets, so that blocks 0 and 2 conflict; two inodes in   *)
(* one block.                                                                 *)
EXTENDS DBlkCache

\* Two superblocks are enough to tell an old one from a new one.
TwoSuperBlocks == \A p, q \in Part : superblock[p] = superblock[q]
=============================================================================
