------------------------------ MODULE DBlkCache ------------------------------
(***************************************************************************)
(* Blocks on their way to the disk: where the superblock, the inodes and   *)
(* the data blocks are on it (makefs, l2_mount, DiskEmulator.c), the cache *)
(* of data blocks (DBlkCache.c), and the functions of FileSystem.c and     *)
(* Directories.c that read and write them: readDBlk, writeDBlk, their      *)
(* variants with an offset, freeDBlk, readINode and writeINode, l2_mount   *)
(* and l2_unmount.                                                         *)
(*                                                                         *)
(* The cache is direct-mapped and written through: block b can only be in  *)
(* set b % SetNum, and a write goes to the set and to the disk.  An inode  *)
(* is written by reading its block, changing one position and writing the  *)
(* block back.  (Directories has the copies of inodes in core.)            *)
(***************************************************************************)
EXTENDS Integers, FiniteSets

CONSTANTS
  NINodes,   \* number of inodes
  NDBlks,    \* number of data blocks
  SetNum,    \* number of sets (DBLK_CACHE_SET_NUM)
  BlkSize,   \* number of positions in a block (BLK_SIZE / INODE_SIZE)
  Byte       \* what a position holds: bytes of a data block, or one inode

\* makefs refuses other numbers of inodes; and more than fit on a disk of
\* MAX_FS_SIZE, below which no size overflows, are not modelled.
ASSUME SizesAssumption ==
  /\ NDBlks \in Nat \ {0} /\ SetNum \in Nat \ {0} /\ BlkSize \in Nat \ {0}
  /\ NINodes \in Nat \ {0} /\ NINodes % BlkSize = 0
ASSUME ByteAssumption == 0 \in Byte

INode == 0 .. NINodes - 1
Blk   == 0 .. NDBlks - 1
Sets  == 0 .. SetNum - 1
Part  == 0 .. BlkSize - 1
Data  == [Part -> Byte]
Span(off, len) == off .. off + len - 1

INodesPerBlk       == BlkSize
diskINodeBlkOffset == 1
diskDBlkOffset     == diskINodeBlkOffset + NINodes \div INodesPerBlk

\* fs->nBytes, in positions; the disk's number of blocks.
nBytes == BlkSize + NINodes + NDBlks * BlkSize
numBlk == nBytes \div BlkSize

VARIABLES
  diskFile,    \* the blocks on disk
  dCache,      \* the sets: _dblk_id and _data_blk of each
  dCacheSize,  \* _dCache_size
  last         \* the last read or write: of what, and the bytes read or written

vars == <<diskFile, dCache, dCacheSize, last>>

\* The data blocks, the inodes and the superblock on disk.
disk == [b \in Blk |-> diskFile[diskDBlkOffset + b]]

INodeBlk(i) == diskINodeBlkOffset + i \div INodesPerBlk
inodes      == [i \in INode |-> diskFile[INodeBlk(i)][i % INodesPerBlk]]
superblock  == diskFile[0]

EmptyEntry == [id |-> -1, data |-> [p \in Part |-> 0]]

\* makefs and l2_mount on a disk with anything on it, after initDBlkCache.
Init == /\ diskFile \in [0 .. numBlk - 1 -> Data]
        /\ dCache = [s \in Sets |-> EmptyEntry]
        /\ dCacheSize = 0
        /\ last = [op |-> "none", blk |-> -1, bytes |-> [p \in {} |-> 0]]

\* writeBlk: beyond the end of the disk it does nothing.
WriteBlk(bid, d) ==
  diskFile' = IF bid > numBlk - 1 THEN diskFile ELSE [diskFile EXCEPT ![bid] = d]

SetOf(b) == b % SetNum

\* Mutant of Hit: any block in the set counts.
HitAnyBlock(b) == dCache[SetOf(b)].id # -1

\* hasDBlkCacheEntry.
Hit(b) == dCache[SetOf(b)].id = b

\* Mutant of PutEntry: replacing a block counts as one more.
PutEntryCountsAll(b, d) ==
  /\ dCache' = [dCache EXCEPT ![SetOf(b)] = [id |-> b, data |-> d]]
  /\ dCacheSize' = dCacheSize + 1

\* putDBlkCacheEntry: the block that was in the set is dropped.
PutEntry(b, d) ==
  /\ dCache' = [dCache EXCEPT ![SetOf(b)] = [id |-> b, data |-> d]]
  /\ dCacheSize' = IF dCache[SetOf(b)].id = -1 THEN dCacheSize + 1 ELSE dCacheSize

\* The buffer readDBlk fills.
Lookup(b) == IF Hit(b) THEN dCache[SetOf(b)].data ELSE disk[b]

\* readDBlk, and readDBlkOffset of the positions ps.
ReadDBlk(b, ps) ==
  /\ last' = [op |-> "read", blk |-> b, bytes |-> [p \in ps |-> Lookup(b)[p]]]
  /\ IF Hit(b) THEN UNCHANGED <<dCache, dCacheSize>> ELSE PutEntry(b, disk[b])
  /\ UNCHANGED diskFile

\* Mutant of StoreBlk: a write that hits stays in the cache.
StoreBlkBack(b, d) ==
  /\ PutEntry(b, d)
  /\ IF Hit(b) THEN UNCHANGED diskFile ELSE WriteBlk(diskDBlkOffset + b, d)

\* What writeDBlk does: the block goes to its set and to the disk.
StoreBlk(b, d) == PutEntry(b, d) /\ WriteBlk(diskDBlkOffset + b, d)

\* writeDBlk called by a client.
WriteDBlk(b, d) ==
  /\ StoreBlk(b, d)
  /\ last' = [op |-> "write", blk |-> b, bytes |-> d]

\* writeDBlkOffset: readDBlk, a change of the positions ps, writeDBlk.
Merged(b, ps, d) == [p \in Part |-> IF p \in ps THEN d[p] ELSE Lookup(b)[p]]
WriteDBlkOffset(b, ps, d) ==
  /\ StoreBlk(b, Merged(b, ps, d))
  /\ last' = [op |-> "write", blk |-> b, bytes |-> [p \in ps |-> d[p]]]

\* Mutant of FreeDBlk: whatever is in the set is dropped.
FreeDBlkAnyBlock(b) ==
  /\ dCache' = [dCache EXCEPT ![SetOf(b)] = EmptyEntry]
  /\ dCacheSize' = dCacheSize - 1
  /\ UNCHANGED <<diskFile, last>>

\* freeDBlk drops the block from the cache (removeDBlkCacheEntry).
FreeDBlk(b) ==
  /\ Hit(b)
  /\ dCache' = [dCache EXCEPT ![SetOf(b)] = EmptyEntry]
  /\ dCacheSize' = dCacheSize - 1
  /\ UNCHANGED <<diskFile, last>>

\* readINode of an inode that is not in core, readINodeNoCache.
ReadINode(i) ==
  /\ last' = [op |-> "readINode", blk |-> i, bytes |-> [p \in {0} |-> inodes[i]]]
  /\ UNCHANGED <<diskFile, dCache, dCacheSize>>

\* Mutant of WriteINode: the other inodes of the block are not read before.
WriteINodeAlone(i, node) ==
  /\ WriteBlk(INodeBlk(i), [p \in Part |-> IF p = i % INodesPerBlk THEN node ELSE 0])
  /\ last' = [op |-> "writeINode", blk |-> i, bytes |-> [p \in {0} |-> node]]
  /\ UNCHANGED <<dCache, dCacheSize>>

\* writeINode: the block is read, changed and written.
WriteINode(i, node) ==
  /\ WriteBlk(INodeBlk(i), [diskFile[INodeBlk(i)] EXCEPT ![i % INodesPerBlk] = node])
  /\ last' = [op |-> "writeINode", blk |-> i, bytes |-> [p \in {0} |-> node]]
  /\ UNCHANGED <<dCache, dCacheSize>>

\* l2_unmount writes a superblock (and the free block cache, by writeDBlk).
Unmount(sb) ==
  /\ WriteBlk(0, sb)
  /\ last' = [op |-> "unmount", blk |-> 0, bytes |-> sb]
  /\ UNCHANGED <<dCache, dCacheSize>>

\* The process ends, after l2_unmount or without, and l2_mount starts over.
Mount ==
  /\ dCache' = [s \in Sets |-> EmptyEntry]
  /\ dCacheSize' = 0
  /\ last' = [op |-> "mount", blk |-> 0, bytes |-> superblock]
  /\ UNCHANGED diskFile

Next ==
  \/ \E b \in Blk, off \in Part : \E len \in 1 .. BlkSize - off :
       \/ ReadDBlk(b, Span(off, len))
       \/ \E d \in Data : WriteDBlkOffset(b, Span(off, len), d)
  \/ \E b \in Blk, d \in Data : WriteDBlk(b, d)
  \/ \E b \in Blk : FreeDBlk(b)
  \/ \E i \in INode : ReadINode(i) \/ \E node \in Byte : WriteINode(i, node)
  \/ \E sb \in Data : Unmount(sb)
  \/ Mount

Spec == Init /\ [][Next]_vars

-----------------------------------------------------------------------------
InUse == {s \in Sets : dCache[s].id # -1}

TypeOK ==
  /\ diskFile \in [0 .. numBlk - 1 -> Data]
  /\ dCache \in [Sets -> [id : Blk \union {-1}, data : Data]]
  /\ dCacheSize \in 0 .. SetNum

\* A set holds a block that belongs there, and what is on disk for it.
Coherent == \A s \in InUse : /\ SetOf(dCache[s].id) = s
                             /\ dCache[s].data = disk[dCache[s].id]

\* _dCache_size, an unsigned counter, is exact: conflicts in a set, frees and
\* remounts neither make it drift nor take it below zero.
\* (putDBlkCacheEntry, removeDBlkCacheEntry.)
SizeExact == dCacheSize = Cardinality(InUse)

Store == INSTANCE BlockStore WITH contents <- disk

\* The disk behaves as three stores that do not disturb each other: data blocks,
\* inodes and a superblock.  Through conflicts of blocks in one set of the cache,
\* frees and remounts, a hit is never stale, a write of some positions of a block
\* or of one inode of a block keeps the others, and nothing is written beyond
\* the end of its area or of the disk (readDBlk, writeDBlk, readINode,
\* writeINode, readBlk, writeBlk, the offsets that makefs and l2_mount compute).
ImplementsBlockStore == Store!Spec
=============================================================================
