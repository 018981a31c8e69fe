---------------------------- MODULE MCDirectories ----------------------------
(* Constants for TLC, and where its runs stop. *)
EXTENDS Directories, TLC

CONSTANTS a, b

\* Every inode has a bin of the inode table to itself.
OwnBin == [i \in INode |-> i]

MCPath == {<<a>>, <<b>>, <<a, b>>, <<b, a>>}

\* Or all share one.
OneBin == [i \in INode |-> 0]

\* A file below a directory that is renamed has a path before and after.
MovedPath == {<<a>>, <<b>>, <<a, b>>, <<b, b>>}

\* Neither inodes nor names are told apart.
Symmetry == Permutations({a, b}) \union Permutations(INode \ {Root, Zero})

\* With nothing but failed writes; or with any one oddity.
Plain == odd \subseteq {"write_failed"}
OneOddity == Cardinality(odd) <= 1
=============================================================================
