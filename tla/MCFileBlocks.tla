---------------------------- MODULE MCFileBlocks -----------------------------
(* FileBlocks with index blocks of two entries, one direct block, and blocks *)
(* of two bytes: file block 0 is direct, 1-2 single, 3-6 double, 7-14 triple *)
(* indirect.                                                                 *)
EXTENDS FileBlocks, TLC

\* Neither files nor blocks are told apart; to be symmetric in the blocks, the
\* free list may start in any order.
Symmetry  == Permutations(File) \union Permutations(Block)
AnyOrder  == SetToSeqs(Block)

\* The block that was taken last makes no difference while others are free.
LastTaken == <<free, IF free = <<>> THEN taken ELSE NoBlk, index, inode, dinode,
               holed, failed, wiped>>

\* In and across blocks, overwriting, appending, and leaving holes before the
\* single, the double and the triple indirect range.
MixedWrites  == {<<1, 4>>, <<5, 2>>, <<15, 1>>}
MixedLengths == {0, 3, 13}

\* One order, of numbered blocks; and the bound of the run that uses it: it
\* does not go on from a hole or a failed write.
Ascending == {[i \in 1 .. Cardinality(Block) |-> i]}
Dense     == ~holed /\ ~failed

\* Enough to grow two files densely, one of them to the end of the triple
\* indirect range, and to cut them at any length.
DenseWrites  == {0, 2, 3, 6, 11, 15, 20, 25} \X {1, 5}
DenseLengths == 0 .. 30

\* What that run tells states apart by: which block a file got from the free
\* list makes no difference to the steps that follow but for its name.
Shape == <<[f \in File |-> <<inode[f].filesize,
                            {k \in 0 .. LastFileBlk : FileBlk(f, k) # NoBlk},
                            Cardinality(IndexBlks(inode[f]))>>],
           inode = dinode, Len(free), holed, failed, wiped,
           free = <<>> /\ \E f \in File : taken \in IndexBlks(dinode[f])>>
=============================================================================
