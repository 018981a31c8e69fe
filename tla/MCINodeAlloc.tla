---------------------------- MODULE MCINodeAlloc -----------------------------
(* Six inodes and a stack of two: the stack runs empty and overflows. *)
EXTENDS INodeAlloc
=============================================================================
