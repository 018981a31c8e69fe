------------------------------ MODULE DBlkAlloc ------------------------------
(***************************************************************************)
(* The data block allocator of layer 1 (allocDBlk and freeDBlk in          *)
(* FileSystem.c), the free list makefs writes, and the part of l2_mount    *)
(* and l2_unmount that saves and restores it.                              *)
(*                                                                         *)
(* Free blocks are recorded in free blocks.  A list block holds CacheSize  *)
(* ids: slot 0 links to the next list block, the other slots are free      *)
(* blocks.  The list block in use is cached in the superblock              *)
(* (freeDBlkCache); slots 1..pNextFreeDBlk of the cache are live.  When    *)
(* only slot 0 is left, the list block itself is handed out and the next   *)
(* one is loaded.  When the cache is full, freeDBlk spills it to its block *)
(* and the block being freed becomes the new list block.                   *)
(*                                                                         *)
(* The block cache (DBlkCache) is transparent to this module: dblk is what *)
(* readDBlk returns.                                                       *)
(***************************************************************************)
EXTENDS Integers, Sequences, FiniteSets

CONSTANTS
  NDBlks,        \* number of data blocks (argument of makefs)
  CacheSize,     \* ids in a list block (FREE_DBLK_CACHE_SIZE)
  Contents       \* what a client may store in a block, read as a list block

Blk   == 0 .. NDBlks - 1
Slots == 0 .. CacheSize - 1

\* makefs refuses a file system with fewer blocks than one list block has
\* slots.  The ids of a list block are 64-bit integers, here any integer.
ASSUME SizesAssumption ==
  /\ CacheSize \in Nat /\ CacheSize >= 2
  /\ NDBlks \in Nat /\ NDBlks >= CacheSize
ASSUME ContentsAssumption == Contents # {} /\ Contents \subseteq [Slots -> Int]

VARIABLES
  mounted,          \* between makefs or l2_mount and l2_unmount
  nFreeDBlks,       \* in-core superblock: number of free blocks
  pFreeDBlksHead,   \* in-core superblock: the list block that is cached
  pNextFreeDBlk,    \* in-core superblock: the highest live slot of the cache
  freeDBlkCache,    \* in-core superblock: the cached list block
  diskSB,           \* the superblock on disk
  dblk,             \* contents of the data blocks
  owned             \* ghost: the blocks allocDBlk gave out and nobody freed

superblock == <<nFreeDBlks, pFreeDBlksHead, pNextFreeDBlk, freeDBlkCache>>
vars == <<mounted, superblock, diskSB, dblk, owned>>

-----------------------------------------------------------------------------
\* The list block makefs writes at block b: the slots enumerate the blocks
\* from b on, slot 0 linking to the next list block if there is one.  The
\* last list block may be short: its low slots are -1 and b itself is in the
\* first slot in use.
InitialList(b) ==
  LET rest == NDBlks - b
      off  == CacheSize - rest
  IN  [s \in Slots |-> IF rest > CacheSize
                         THEN IF s = 0 THEN b + CacheSize ELSE b + s
                         ELSE IF s < off THEN -1 ELSE b + s - off]

IsListBlk(b) == b % CacheSize = 0

FullSuperBlock ==
  [nFreeDBlks |-> NDBlks, pFreeDBlksHead |-> 0, pNextFreeDBlk |-> CacheSize - 1]

\* makefs.  The blocks that are not list blocks keep what the disk held.
Init ==
  /\ \E old \in Contents :
       dblk = [b \in Blk |-> IF IsListBlk(b) THEN InitialList(b) ELSE old]
  /\ diskSB = FullSuperBlock
  /\ nFreeDBlks = NDBlks
  /\ pFreeDBlksHead = 0
  /\ pNextFreeDBlk = CacheSize - 1
  /\ freeDBlkCache = dblk[0]
  /\ mounted = TRUE
  /\ owned = {}

-----------------------------------------------------------------------------
\* Mutant of TakeSlot: the stack pointer is not moved.
TakeSlotKeepsTop ==
  /\ pNextFreeDBlk # 0
  /\ owned' = owned \union {freeDBlkCache[pNextFreeDBlk]}
  /\ UNCHANGED <<pNextFreeDBlk, freeDBlkCache, pFreeDBlksHead, dblk>>

\* allocDBlk, taking the highest live slot of the cached list block.
TakeSlot ==
  /\ pNextFreeDBlk # 0
  /\ owned' = owned \union {freeDBlkCache[pNextFreeDBlk]}
  /\ freeDBlkCache' = [freeDBlkCache EXCEPT ![pNextFreeDBlk] = -1]
  /\ pNextFreeDBlk' = pNextFreeDBlk - 1
  /\ UNCHANGED <<pFreeDBlksHead, dblk>>

\* allocDBlk, handing out the list block itself: it is zeroed, and the next
\* list block, if more blocks are free, takes its place.
TakeHead ==
  LET zeros == [s \in Slots |-> 0]
      next  == freeDBlkCache[0]
  IN  /\ pNextFreeDBlk = 0
      /\ owned' = owned \union {pFreeDBlksHead}
      /\ dblk' = [dblk EXCEPT ![pFreeDBlksHead] = zeros]
      /\ IF nFreeDBlks > 1
           THEN /\ pFreeDBlksHead' = next
                /\ freeDBlkCache' = dblk'[next]
                /\ pNextFreeDBlk' = CacheSize - 1
           ELSE /\ freeDBlkCache' = zeros
                /\ UNCHANGED <<pFreeDBlksHead, pNextFreeDBlk>>

\* allocDBlk; with no free block it returns -1 and changes nothing.
AllocDBlk ==
  /\ mounted
  /\ nFreeDBlks # 0
  /\ TakeSlot \/ TakeHead
  /\ nFreeDBlks' = nFreeDBlks - 1
  /\ UNCHANGED <<mounted, diskSB>>

\* Mutant of FreeFirst: the head stays at a block that was handed out.
FreeFirstKeepsHead(b) ==
  /\ nFreeDBlks = 0
  /\ freeDBlkCache' = [freeDBlkCache EXCEPT ![0] = b]
  /\ pNextFreeDBlk' = 0
  /\ UNCHANGED <<pFreeDBlksHead, dblk>>

\* freeDBlk when no block is free: b is the list block and its only entry.
FreeFirst(b) ==
  /\ nFreeDBlks = 0
  /\ pFreeDBlksHead' = b
  /\ freeDBlkCache' = [freeDBlkCache EXCEPT ![0] = b]
  /\ pNextFreeDBlk' = 0
  /\ UNCHANGED dblk

\* Mutant of FreeSpill: the full cache is not written out.
FreeSpillNoWrite(b) ==
  /\ nFreeDBlks # 0
  /\ pNextFreeDBlk = CacheSize - 1
  /\ freeDBlkCache' = [s \in Slots |-> IF s = 0 THEN pFreeDBlksHead ELSE -1]
  /\ pNextFreeDBlk' = 0
  /\ pFreeDBlksHead' = b
  /\ UNCHANGED dblk

\* freeDBlk with a full cache: spill it; b becomes the list block.
FreeSpill(b) ==
  /\ nFreeDBlks # 0
  /\ pNextFreeDBlk = CacheSize - 1
  /\ dblk' = [dblk EXCEPT ![pFreeDBlksHead] = freeDBlkCache]
  /\ freeDBlkCache' = [s \in Slots |-> IF s = 0 THEN pFreeDBlksHead ELSE -1]
  /\ pNextFreeDBlk' = 0
  /\ pFreeDBlksHead' = b

\* Mutant of FreeSlot: the room is not checked.
FreeSlotUnchecked(b) ==
  /\ nFreeDBlks # 0
  /\ pNextFreeDBlk' = pNextFreeDBlk + 1
  /\ freeDBlkCache' = [freeDBlkCache EXCEPT ![pNextFreeDBlk + 1] = b]
  /\ UNCHANGED <<pFreeDBlksHead, dblk>>

\* freeDBlk with room in the cache.
FreeSlot(b) ==
  /\ nFreeDBlks # 0
  /\ pNextFreeDBlk # CacheSize - 1
  /\ pNextFreeDBlk' = pNextFreeDBlk + 1
  /\ freeDBlkCache' = [freeDBlkCache EXCEPT ![pNextFreeDBlk + 1] = b]
  /\ UNCHANGED <<pFreeDBlksHead, dblk>>

\* freeDBlk.  The callers free blocks they hold (FileBlocks checks that they
\* do).
FreeDBlk(b) ==
  /\ mounted
  /\ b \in owned
  /\ FreeFirst(b) \/ FreeSpill(b) \/ FreeSlot(b)
  /\ nFreeDBlks' = nFreeDBlks + 1
  /\ owned' = owned \ {b}
  /\ UNCHANGED <<mounted, diskSB>>

\* writeDBlk by the client that holds b.
WriteDBlk(b, d) ==
  /\ mounted
  /\ b \in owned
  /\ dblk' = [dblk EXCEPT ![b] = d]
  /\ UNCHANGED <<mounted, superblock, diskSB, owned>>

\* Mutant of Unmount: the cached list block is not written back.
UnmountSuperBlockOnly ==
  /\ mounted
  /\ mounted' = FALSE
  /\ diskSB' = [nFreeDBlks |-> nFreeDBlks, pFreeDBlksHead |-> pFreeDBlksHead,
                pNextFreeDBlk |-> pNextFreeDBlk]
  /\ UNCHANGED <<superblock, dblk, owned>>

\* l2_unmount: the cached list block, then the superblock, go to disk.
Unmount ==
  /\ mounted
  /\ mounted' = FALSE
  /\ dblk' = [dblk EXCEPT ![pFreeDBlksHead] = freeDBlkCache]
  /\ diskSB' = [nFreeDBlks |-> nFreeDBlks, pFreeDBlksHead |-> pFreeDBlksHead,
                pNextFreeDBlk |-> pNextFreeDBlk]
  /\ UNCHANGED <<superblock, owned>>

\* l2_mount: the superblock from disk, then the list block it names.
Mount ==
  /\ ~mounted
  /\ mounted' = TRUE
  /\ nFreeDBlks' = diskSB.nFreeDBlks
  /\ pFreeDBlksHead' = diskSB.pFreeDBlksHead
  /\ pNextFreeDBlk' = diskSB.pNextFreeDBlk
  /\ freeDBlkCache' = dblk[diskSB.pFreeDBlksHead]
  /\ UNCHANGED <<diskSB, dblk, owned>>

Next ==
  \/ AllocDBlk
  \/ \E b \in Blk : FreeDBlk(b)
  \/ \E b \in Blk, d \in Contents : WriteDBlk(b, d)
  \/ Unmount
  \/ Mount

Spec == Init /\ [][Next]_vars

-----------------------------------------------------------------------------
(* The free list as the next allocations will see it: the in-core one while *)
(* mounted, the one on disk otherwise; and the blocks it should hold.       *)
Free == Blk \ owned

InCore == [free |-> Free, count |-> nFreeDBlks, head |-> pFreeDBlksHead,
           next |-> pNextFreeDBlk, cache |-> freeDBlkCache, lists |-> dblk]

OnDisk == [free |-> Free, count |-> diskSB.nFreeDBlks,
           head |-> diskSB.pFreeDBlksHead, next |-> diskSB.pNextFreeDBlk,
           cache |-> dblk[diskSB.pFreeDBlksHead], lists |-> dblk]

View == IF mounted THEN InCore ELSE OnDisk

\* The variables have the types the C declarations give them; ids that are
\* dereferenced are ids of blocks.
TypeOK ==
  /\ mounted \in BOOLEAN
  /\ nFreeDBlks \in 0 .. NDBlks
  /\ pFreeDBlksHead \in Blk
  /\ pNextFreeDBlk \in Slots
  /\ freeDBlkCache \in [Slots -> Int]
  /\ diskSB \in [nFreeDBlks : 0 .. NDBlks, pFreeDBlksHead : Blk,
                 pNextFreeDBlk : Slots]
  /\ dblk \in [Blk -> [Slots -> Int]]
  /\ owned \subseteq Blk

(* The chain of list blocks c[1] (the oldest) .. c[n] (the cached one) of a  *)
(* view v, the cells of theirs that hold free blocks, and the block in each. *)
ListOf(v, n, c, i)   == IF i = n THEN v.cache ELSE v.lists[c[i]]
TopOf(v, n, i)       == IF i = n THEN v.next ELSE CacheSize - 1
BottomOf(base, i)    == IF i = 1 THEN base ELSE 0
Cells(v, n, base)    == {p \in (1 .. n) \X Slots :
                           BottomOf(base, p[1]) <= p[2] /\ p[2] <= TopOf(v, n, p[1])}
CellBlk(v, n, c, p)  == IF p[1] # 1 /\ p[2] = 0 THEN c[p[1]]
                                                ELSE ListOf(v, n, c, p[1])[p[2]]

Linked(v, n, c, base) ==
  /\ c[n] = v.head
  /\ \A i \in 2 .. n : ListOf(v, n, c, i)[0] = c[i - 1]
  /\ ListOf(v, n, c, 1)[base] = c[1]
  /\ n = 1 => base <= v.next

CellsExact(v, n, c, base) ==
  /\ \A p \in Cells(v, n, base) : CellBlk(v, n, c, p) \in v.free
  /\ \A p, q \in Cells(v, n, base) :
       CellBlk(v, n, c, p) = CellBlk(v, n, c, q) => p = q
  /\ \A b \in v.free : \E p \in Cells(v, n, base) : CellBlk(v, n, c, p) = b

IsChain(v, n, c, base) == Linked(v, n, c, base) /\ CellsExact(v, n, c, base)

Exact(v) ==
  /\ v.count = Cardinality(v.free)
  /\ v.free # {} =>
       \E n \in 1 .. NDBlks : \E c \in [1 .. n -> Blk], base \in Slots :
         IsChain(v, n, c, base)

\* The superblock counts the free blocks exactly, and unless there is none,
\* a chain of list blocks ends in the cached one and holds every free block
\* in exactly one live cell and nothing else.  (makefs, allocDBlk, freeDBlk,
\* l2_unmount, l2_mount.)
ChainInv == Exact(View)

\* No allocation returns a block that some caller still holds, or an id that
\* is not a block (allocDBlk; Layer1CombinedTest.c asks for unique ids).
AllocFresh ==
  [][AllocDBlk => \E b \in Free : owned' = owned \union {b}]_vars

\* Neither allocating and freeing blocks nor an unmount changes the contents of a
\* block that a caller holds before and after: list blocks are written only to
\* blocks that are free (the writeDBlk calls of allocDBlk, freeDBlk and l2_unmount).
\* On a full disk l2_unmount does write the list to a block that is held.
AllocatorKeepsClientData ==
  [][/\ mounted
     /\ nFreeDBlks' # nFreeDBlks \/ (~mounted' /\ nFreeDBlks > 0)
     => \A b \in owned \intersect owned' : dblk'[b] = dblk[b]]_vars

(* The blocks that successive allocations return, for the refinement: after *)
(* k of them, at[k] is the list block and its highest live slot.            *)
ListAt(v, h) == IF h = v.head THEN v.cache
                ELSE IF h \in Blk THEN v.lists[h] ELSE [s \in Slots |-> -1]

BlkAt(v) == [p \in Int \X Int |-> IF p[2] # 0 THEN ListAt(v, p[1])[p[2]] ELSE p[1]]

Below(v) == [p \in Int \X Int |-> IF p[2] # 0 THEN <<p[1], p[2] - 1>>
                                  ELSE <<ListAt(v, p[1])[0], CacheSize - 1>>]

OrderOf(v) ==
  LET at[k \in 0 .. v.count] == IF k = 0 THEN <<v.head, v.next>> ELSE Below(v)[at[k - 1]]
  IN  [k \in 1 .. v.count |-> BlkAt(v)[at[k - 1]]]

AllocOrder == OrderOf(View)

Abstract == INSTANCE FreeStack WITH Block <- Blk, stack <- AllocOrder, held <- owned

\* The allocator is a stack: the superblock, its cache and the list blocks
\* on disk change together, so that every call and every remount leaves the
\* order of the coming allocations what FreeStack says.
ImplementsFreeStack == Abstract!Spec
=============================================================================
