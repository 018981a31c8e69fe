----------------------------- MODULE INodeAlloc ------------------------------
(***************************************************************************)
(* The inode allocator of layer 1 (allocINode and freeINode in             *)
(* FileSystem.c), what makefs sets up for it, and its part of l2_mount and *)
(* l2_unmount.                                                             *)
(*                                                                         *)
(* An inode is free when its type on disk is FREE.  The superblock counts  *)
(* the free inodes and caches up to CacheSize of their ids as a stack;     *)
(* free inodes may be missing from it, because freeINode does not add to a *)
(* full stack.  When the stack is empty, allocINode fills it again with    *)
(* the first free inodes it finds on disk.                                 *)
(*                                                                         *)
(* What an inode holds besides its type is the matter of FileBlocks.       *)
(***************************************************************************)
EXTENDS Integers, FiniteSets

CONSTANTS
  NINodes,     \* number of inodes (argument of makefs)
  CacheSize,   \* size of the stack (FREE_INODE_CACHE_SIZE)
  UINTSize     \* number of values of an unsigned int (2^32)

\* makefs refuses a file system with fewer inodes than the stack has places.
ASSUME SizesAssumption ==
  /\ CacheSize \in Nat \ {0} /\ NINodes \in Nat /\ NINodes >= CacheSize
  /\ UINTSize \in Nat /\ UINTSize >= 2 * NINodes + 2

INode == 0 .. NINodes - 1
Slots == 0 .. CacheSize - 1

VARIABLES
  mounted,         \* between makefs or l2_mount and l2_unmount
  nFreeINodes,     \* in-core superblock: number of free inodes
  pNextFreeINode,  \* in-core superblock: top of the stack, -1 if it is empty
  freeINodeCache,  \* in-core superblock: the stack
  diskSB,          \* the superblock on disk
  itype,           \* the types of the inodes on disk
  returned         \* ghost: the inodes allocINode returned and nobody freed

superblock == <<nFreeINodes, pNextFreeINode, freeINodeCache>>
vars == <<mounted, superblock, diskSB, itype, returned>>

\* The conversions of an int to an unsigned int and back.  Mutant of the
\* second: the top of the stack stays unsigned.
ToUINT(i) == i % UINTSize
StaysUINT(u) == u
ToINT(u)  == IF 2 * u >= UINTSize THEN u - UINTSize ELSE u

\* makefs: all inodes are free, the first ones are in the stack.
Init ==
  /\ mounted = TRUE
  /\ nFreeINodes = NINodes
  /\ pNextFreeINode = CacheSize - 1
  /\ freeINodeCache = [s \in Slots |-> s]
  /\ diskSB = [nFreeINodes |-> NINodes, pNextFreeINode |-> CacheSize - 1,
               freeINodeCache |-> freeINodeCache]
  /\ itype = [i \in INode |-> "FREE"]
  /\ returned = {}

OnDiskFree == {i \in INode : itype[i] = "FREE"}

\* The scan of allocINode: the k-th free inode of the disk goes to place k,
\* until the stack is full or the disk is read.
Rank(i) == Cardinality({j \in OnDiskFree : j < i})
Scanned == {i \in OnDiskFree : Rank(i) < CacheSize}
ScannedCache ==
  [s \in Slots |-> IF \E i \in Scanned : Rank(i) = s
                     THEN CHOOSE i \in Scanned : Rank(i) = s
                     ELSE freeINodeCache[s]]

\* Mutant of Take: the inode is not written to disk.
TakeInCore(c, p) ==
  /\ returned' = returned \union {c[p]}
  /\ freeINodeCache' = [c EXCEPT ![p] = -1]
  /\ pNextFreeINode' = p - 1
  /\ nFreeINodes' = nFreeINodes - 1
  /\ UNCHANGED <<mounted, diskSB, itype>>

\* allocINode takes the id at place p of stack c and marks it used on disk.
\* (INIT; the caller gives it its real type.)
Take(c, p) ==
  /\ itype' = [itype EXCEPT ![c[p]] = "USED"]
  /\ returned' = returned \union {c[p]}
  /\ freeINodeCache' = [c EXCEPT ![p] = -1]
  /\ pNextFreeINode' = p - 1
  /\ nFreeINodes' = nFreeINodes - 1
  /\ UNCHANGED <<mounted, diskSB>>

\* allocINode; with no free inode it returns -1 and changes nothing.
AllocINode ==
  /\ mounted
  /\ nFreeINodes # 0
  /\ IF pNextFreeINode < 0
       THEN Take(ScannedCache, pNextFreeINode + Cardinality(Scanned))
       ELSE Take(freeINodeCache, pNextFreeINode)

\* Mutants of FreeINode: the stack overflows by one; only an inode that goes
\* to the stack is counted.
FreeINodeOverflow(i) ==
  /\ mounted
  /\ i \in returned
  /\ IF pNextFreeINode <= CacheSize - 1
       THEN /\ freeINodeCache' = [freeINodeCache EXCEPT ![pNextFreeINode + 1] = i]
            /\ pNextFreeINode' = pNextFreeINode + 1
       ELSE UNCHANGED <<freeINodeCache, pNextFreeINode>>
  /\ itype' = [itype EXCEPT ![i] = "FREE"]
  /\ nFreeINodes' = nFreeINodes + 1
  /\ returned' = returned \ {i}
  /\ UNCHANGED <<mounted, diskSB>>

FreeINodeCountsPushed(i) ==
  /\ mounted
  /\ i \in returned
  /\ IF pNextFreeINode < CacheSize - 1
       THEN /\ freeINodeCache' = [freeINodeCache EXCEPT ![pNextFreeINode + 1] = i]
            /\ pNextFreeINode' = pNextFreeINode + 1
            /\ nFreeINodes' = nFreeINodes + 1
       ELSE UNCHANGED superblock
  /\ itype' = [itype EXCEPT ![i] = "FREE"]
  /\ returned' = returned \ {i}
  /\ UNCHANGED <<mounted, diskSB>>

\* freeINode.  The callers (l2_unlink, l2_close) free an inode they hold.
FreeINode(i) ==
  /\ mounted
  /\ i \in returned
  /\ IF pNextFreeINode < CacheSize - 1
       THEN /\ freeINodeCache' = [freeINodeCache EXCEPT ![pNextFreeINode + 1] = i]
            /\ pNextFreeINode' = pNextFreeINode + 1
       ELSE UNCHANGED <<freeINodeCache, pNextFreeINode>>
  /\ itype' = [itype EXCEPT ![i] = "FREE"]
  /\ nFreeINodes' = nFreeINodes + 1
  /\ returned' = returned \ {i}
  /\ UNCHANGED <<mounted, diskSB>>

\* l2_unmount: blockify writes the superblock, the top of the stack as an
\* unsigned int.
Unmount ==
  /\ mounted
  /\ mounted' = FALSE
  /\ diskSB' = [nFreeINodes |-> nFreeINodes,
                pNextFreeINode |-> ToUINT(pNextFreeINode),
                freeINodeCache |-> freeINodeCache]
  /\ UNCHANGED <<superblock, itype, returned>>

\* l2_mount: unblockify reads it back.
Mount ==
  /\ ~mounted
  /\ mounted' = TRUE
  /\ nFreeINodes' = diskSB.nFreeINodes
  /\ pNextFreeINode' = ToINT(diskSB.pNextFreeINode)
  /\ freeINodeCache' = diskSB.freeINodeCache
  /\ UNCHANGED <<diskSB, itype, returned>>

Next ==
  \/ AllocINode
  \/ \E i \in INode : FreeINode(i)
  \/ Unmount
  \/ Mount

Spec == Init /\ [][Next]_vars

-----------------------------------------------------------------------------
\* The superblock as the next allocation will see it.
ViewCount == IF mounted THEN nFreeINodes ELSE diskSB.nFreeINodes
ViewTop   == IF mounted THEN pNextFreeINode ELSE ToINT(diskSB.pNextFreeINode)
ViewCache == IF mounted THEN freeINodeCache ELSE diskSB.freeINodeCache

TypeOK ==
  /\ mounted \in BOOLEAN
  /\ nFreeINodes \in 0 .. NINodes
  /\ pNextFreeINode \in -1 .. CacheSize - 1
  /\ freeINodeCache \in [Slots -> INode \union {-1}]
  /\ diskSB \in [nFreeINodes : 0 .. NINodes, pNextFreeINode : 0 .. UINTSize - 1,
                 freeINodeCache : [Slots -> INode \union {-1}]]
  /\ itype \in [INode -> {"FREE", "USED"}]
  /\ returned \subseteq INode

\* The types on disk say exactly which inodes are in use, and the superblock,
\* in core or on disk, counts the others exactly: a scan never comes back
\* with nothing when the count says there is a free inode.
FreeCountExact ==
  /\ OnDiskFree = INode \ returned
  /\ ViewCount = Cardinality(OnDiskFree)

\* The stack holds free inodes, each once: a free inode pushed by freeINode
\* is never there already, also after a scan found it on disk.
StackSound ==
  /\ ViewTop \in -1 .. CacheSize - 1
  /\ \A s \in 0 .. ViewTop : ViewCache[s] \in OnDiskFree
  /\ \A s, t \in 0 .. ViewTop : ViewCache[s] = ViewCache[t] => s = t

\* allocINode, when the count allows it, returns an inode that nobody holds,
\* also when the stack is empty and the disk has to be read, and whatever
\* was freed while the stack was full ("allocate a free inode",
\* FileSystem.c:197).
INodeFresh ==
  [][AllocINode => \E i \in INode \ returned : returned' = returned \union {i}]_vars
=============================================================================
