------------------------------ MODULE MCFileIO -------------------------------
(* FileIO with blocks of two bytes and files of up to three blocks. *)
EXTENDS FileIO, TLC

Ascending == {[i \in 1 .. Cardinality(Block) |-> i]}

\* In one block, across blocks from the middle of one, and past a hole;
\* and all blocks.
MCWrites  == {<<1, <<1>>>>, <<1, <<2, 1, 2>>>>, <<4, <<2>>>>, <<0, <<1, 2, 1, 2, 2>>>>}
MCLengths == {0, 1, 4, 6}

Symmetry == Permutations(File)

\* States are told apart by what is in the blocks, not by which blocks these
\* are; a block that is neither free nor in a file is gone for good.
InBlk(b)  == IF b = NoBlk THEN Hole ELSE data[b]
IsTaken(b) == free = <<>> /\ b = taken
InFile(i) == <<i.filesize, [k \in FileBlk |-> InBlk(i.blk[k])]>>
Shape == <<[n \in DOMAIN free |-> InBlk(free[n])],
           [f \in File |-> <<InFile(inode[f]), InFile(dinode[f]),
                             {k \in FileBlk : inode[f].blk[k] = dinode[f].blk[k]},
                             {k \in FileBlk : IsTaken(inode[f].blk[k])},
                             {k \in FileBlk : IsTaken(dinode[f].blk[k])}>>]>>
=============================================================================
