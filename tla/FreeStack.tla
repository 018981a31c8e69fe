------------------------------ MODULE FreeStack ------------------------------
(***************************************************************************)
(* What layer 1 promises its callers about data blocks: the blocks nobody  *)
(* holds form one stack.  allocDBlk takes the block on top, freeDBlk puts  *)
(* a block a caller gives back on top, and nothing else (a write to a      *)
(* block, l2_unmount, l2_mount) is visible to the callers.                 *)
(*                                                                         *)
(* DBlkAlloc is shown to implement this module: its superblock, its cached *)
(* list block and its chain of list blocks on disk are one representation  *)
(* of the stack.                                                           *)
(***************************************************************************)
EXTENDS Sequences, SequencesExt

CONSTANT Block      \* the data blocks of the file system

VARIABLES
  stack,            \* the free blocks, the next one to be allocated first
  held              \* the blocks the callers hold

Init == /\ stack \in SetToSeqs(Block)
        /\ held = {}

\* allocDBlk, when it returns a block: the one on top of the stack.
Alloc == /\ stack # <<>>
         /\ held' = held \union {Head(stack)}
         /\ stack' = Tail(stack)

\* freeDBlk of a block some caller holds.
Free == \E b \in held : /\ held' = held \ {b}
                        /\ stack' = <<b>> \o stack

Next == Alloc \/ Free

Spec == Init /\ [][Next]_<<stack, held>>
=============================================================================
