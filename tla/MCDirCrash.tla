----------------------------- MODULE MCDirCrash ------------------------------
(* Constants for TLC, and where its runs stop. *)
EXTENDS DirCrash, TLC

CONSTANTS a, b

\* Every inode has a bin of the inode table to itself.
OwnBin == [i \in INode |-> i]

MCPath == {<<a>>, <<b>>, <<a, b>>, <<b, a>>}

Symmetry == Permutations({a, b}) \union Permutations(INode \ {Root, Zero})

\* With nothing but failed writes, and a crash.
Plain == odd \subseteq {"write_failed", "crash"}
=============================================================================
