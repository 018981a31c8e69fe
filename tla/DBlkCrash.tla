------------------------------ MODULE DBlkCrash ------------------------------
(***************************************************************************)
(* DBlkAlloc when the process dies without l2_unmount, or in the middle of *)
(* it.  Data blocks are written through, the superblock and the cached     *)
(* list block reach the disk only in l2_unmount, so the next l2_mount      *)
(* finds the free list of the last l2_mount or l2_unmount.                 *)
(*                                                                         *)
(* A crash after an allocation leaves that list naming a held block, which *)
(* the code has no way to notice; "damaged" records it and the behaviour   *)
(* ends there.  The module is about the crashes before that.               *)
(***************************************************************************)
EXTENDS DBlkAlloc

VARIABLES
  allocated,   \* ghost: a block was allocated since the last sync
  freed,       \* ghost: the blocks freed since the last sync
  lost,        \* ghost: the blocks that were in freed at a crash
  damaged      \* ghost: the last crash came after an allocation

ghosts == <<allocated, freed, lost, damaged>>
crashVars == <<vars, ghosts>>

CrashInit == /\ Init
             /\ allocated = FALSE /\ damaged = FALSE
             /\ freed = {} /\ lost = {}

Alloc == /\ AllocDBlk
         /\ allocated' = TRUE
         /\ UNCHANGED <<freed, lost, damaged>>

FreeOne(b) == /\ FreeDBlk(b)
              /\ freed' = freed \union {b}
              /\ UNCHANGED <<allocated, lost, damaged>>

Write(b, d) == WriteDBlk(b, d) /\ UNCHANGED ghosts

Sync == /\ Unmount \/ Mount
        /\ allocated' = FALSE
        /\ freed' = {}
        /\ UNCHANGED <<lost, damaged>>

\* The process dies: all that was in core is gone, the disk stays as it is.
Die == /\ mounted
       /\ mounted' = FALSE
       /\ damaged' = allocated
       /\ lost' = lost \union freed
       /\ UNCHANGED <<superblock, diskSB, owned, allocated, freed>>

Crash == Die /\ UNCHANGED dblk

\* The process dies in l2_unmount, after the write of the free block cache
\* and before the write of the superblock.
CrashInUnmount == Die /\ dblk' = [dblk EXCEPT ![pFreeDBlksHead] = freeDBlkCache]

CrashNext ==
  /\ ~damaged
  /\ \/ Alloc
     \/ \E b \in Blk : FreeOne(b)
     \/ \E b \in Blk, d \in Contents : Write(b, d)
     \/ Sync
     \/ Crash
     \/ CrashInUnmount

CrashSpec == CrashInit /\ [][CrashNext]_crashVars

-----------------------------------------------------------------------------
\* The blocks the coming allocations return, now or after the next l2_mount.
Listed == {AllocOrder[i] : i \in DOMAIN AllocOrder}

\* A crash before any block was allocated since the last sync never lists a
\* block that a caller holds, nor a block twice: the frees since the sync,
\* which may have spilled list blocks over the disk, do not touch the list
\* the old superblock describes.  (freeDBlk, l2_unmount, l2_mount.)
CrashKeepsListSound ==
  ~damaged => /\ Listed \subseteq Free
              /\ Cardinality(Listed) = Len(AllocOrder)

\* Such a crash costs exactly the blocks freed since the last sync, and they
\* stay lost: no later call ever lists them again.
CrashLosesOnlyFrees ==
  ~damaged => /\ Free = Listed \union lost
              /\ Listed \intersect lost = {}
=============================================================================
