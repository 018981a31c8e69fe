---------------------------- MODULE MCINodeLists -----------------------------
(* Three inodes of one bin and one of another. *)
EXTENDS INodeLists, TLC

CONSTANT other

MCBin == [i \in INode |-> IF i = other THEN 1 ELSE 0]

Symmetry == Permutations(Entry) \union Permutations(INode \ {other})
=============================================================================
