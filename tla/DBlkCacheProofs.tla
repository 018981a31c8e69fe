--------------------------- MODULE DBlkCacheProofs ---------------------------
(***************************************************************************)
(* Proofs about DBlkCache for every number of blocks, inodes and sets and  *)
(* every block size: a cached block is what the disk holds, the size       *)
(* counter is exact, and the whole implements BlockStore.                  *)
(***************************************************************************)
EXTENDS DBlkCache, FiniteSetTheorems, TLAPS

IInv == TypeOK /\ Coherent /\ SizeExact

-----------------------------------------------------------------------------
(* The layout of the disk.                                                  *)

\* The inodes fill L blocks.
LEMMA INodeBlks ==
  /\ NINodes \div BlkSize \in Nat
  /\ NINodes = BlkSize * (NINodes \div BlkSize)
BY SizesAssumption

\* The size of the disk is the sum of its areas: the division leaves no rest.
LEMMA AreasFillDisk ==
  /\ diskDBlkOffset = 1 + NINodes \div BlkSize
  /\ numBlk = diskDBlkOffset + NDBlks
<1> DEFINE L == NINodes \div BlkSize
           m == 1 + L + NDBlks
<1>1. L \in Nat /\ NINodes = BlkSize * L
  BY INodeBlks
<1>2. diskDBlkOffset = 1 + L
  BY DEF diskDBlkOffset, diskINodeBlkOffset, INodesPerBlk
<1>3. m \in Nat /\ BlkSize \in Nat \ {0} /\ NDBlks \in Nat
  BY <1>1, SizesAssumption
<1> HIDE DEF L
<1>4. nBytes = BlkSize * m
  BY <1>1, <1>3 DEF nBytes
<1> HIDE DEF m
<1>5. (BlkSize * m) \div BlkSize = m
  BY <1>3
<1>6. numBlk = m
  BY <1>4, <1>5 DEF numBlk
<1> QED
  BY <1>1, <1>2, <1>3, <1>6 DEF L, m

\* An inode is in a block of the inode area; its number is that block and a
\* position.
LEMMA INodePlace ==
  ASSUME NEW i \in INode
  PROVE  /\ INodeBlk(i) \in 1 .. diskDBlkOffset - 1
         /\ i % INodesPerBlk \in Part
         /\ i = (BlkSize * (INodeBlk(i) - 1)) + (i % INodesPerBlk)
<1> DEFINE L == NINodes \div BlkSize
           q == i \div BlkSize
           r == i % BlkSize
<1>1. L \in Nat /\ NINodes = BlkSize * L /\ BlkSize \in Nat \ {0}
  BY INodeBlks, SizesAssumption
<1>2. i \in Nat /\ i < NINodes
  BY SizesAssumption DEF INode
<1>3. q \in Int /\ r \in 0 .. BlkSize - 1 /\ i = (BlkSize * q) + r
  BY <1>1, <1>2
<1> HIDE DEF L, q, r
<1>4. 0 <= q
  <2>1. CASE q <= -1
    <3>1. BlkSize * q <= -BlkSize
      BY <1>1, <1>3, <2>1
    <3> QED
      BY <1>1, <1>2, <1>3, <3>1
  <2> QED
    BY <1>3, <2>1
<1>5. q < L
  <2>1. CASE q >= L
    <3>1. BlkSize * q >= BlkSize * L
      BY <1>1, <1>3, <2>1
    <3> QED
      BY <1>1, <1>2, <1>3, <3>1
  <2> QED
    BY <1>1, <1>3, <2>1
<1>6. INodeBlk(i) = 1 + q /\ diskDBlkOffset = 1 + L /\ i % INodesPerBlk = r
  BY AreasFillDisk DEF INodeBlk, diskINodeBlkOffset, INodesPerBlk, L, q, r
<1>7. INodeBlk(i) - 1 = q /\ INodeBlk(i) \in 1 .. diskDBlkOffset - 1
  BY <1>1, <1>3, <1>4, <1>5, <1>6
<1>8. i = (BlkSize * (INodeBlk(i) - 1)) + (i % INodesPerBlk)
  BY <1>3, <1>6, <1>7
<1> QED
  BY <1>3, <1>6, <1>7, <1>8 DEF Part

\* Two inodes are not in the same place.
LEMMA INodesApart ==
  ASSUME NEW i \in INode, NEW j \in INode, INodeBlk(i) = INodeBlk(j),
         i % INodesPerBlk = j % INodesPerBlk
  PROVE  i = j
BY INodePlace

Disk == [0 .. numBlk - 1 -> Data]

LEMMA AreasType ==
  ASSUME diskFile \in Disk
  PROVE  /\ disk \in [Blk -> Data]
         /\ inodes \in [INode -> Byte]
         /\ superblock \in Data
<1>1. /\ diskDBlkOffset \in Nat \ {0} /\ NDBlks \in Nat \ {0}
      /\ numBlk = diskDBlkOffset + NDBlks
  BY AreasFillDisk, INodeBlks, SizesAssumption
<1>2. ASSUME NEW b \in Blk PROVE diskFile[diskDBlkOffset + b] \in Data
  BY <1>1 DEF Disk, Blk
<1>3. ASSUME NEW i \in INode PROVE diskFile[INodeBlk(i)][i % INodesPerBlk] \in Byte
  <2>1. INodeBlk(i) \in 1 .. diskDBlkOffset - 1 /\ i % INodesPerBlk \in Part
    BY INodePlace
  <2>2. diskFile[INodeBlk(i)] \in Data
    BY <1>1, <2>1 DEF Disk
  <2> QED
    BY <2>1, <2>2 DEF Data
<1>4. superblock \in Data
  BY <1>1 DEF Disk, superblock
<1> QED
  BY <1>2, <1>3, <1>4 DEF disk, inodes

\* A write of a data block changes that block and nothing else.
LEMMA DBlkWritten ==
  ASSUME diskFile \in Disk, NEW b \in Blk, NEW d \in Data,
         WriteBlk(diskDBlkOffset + b, d)
  PROVE  /\ diskFile' \in Disk
         /\ disk' = [disk EXCEPT ![b] = d]
         /\ UNCHANGED <<inodes, superblock>>
<1>1. /\ diskDBlkOffset \in Nat \ {0} /\ NDBlks \in Nat \ {0} /\ b \in 0 .. NDBlks - 1
      /\ numBlk = diskDBlkOffset + NDBlks
  BY AreasFillDisk, INodeBlks, SizesAssumption DEF Blk
<1>2. diskFile' = [diskFile EXCEPT ![diskDBlkOffset + b] = d]
  BY <1>1 DEF WriteBlk
<1>3. diskFile' \in Disk
  BY <1>2 DEF Disk
<1>4. ASSUME NEW c \in Blk
      PROVE  diskFile'[diskDBlkOffset + c] =
               IF c = b THEN d ELSE diskFile[diskDBlkOffset + c]
  BY <1>1, <1>2 DEF Disk, Blk
<1>5. disk' = [disk EXCEPT ![b] = d]
  BY <1>4 DEF disk
<1>6. ASSUME NEW i \in INode PROVE diskFile'[INodeBlk(i)] = diskFile[INodeBlk(i)]
  <2>1. INodeBlk(i) \in 1 .. diskDBlkOffset - 1
    BY INodePlace
  <2> QED
    BY <1>1, <1>2, <2>1 DEF Disk
<1>7. diskFile'[0] = diskFile[0]
  BY <1>1, <1>2 DEF Disk
<1> QED
  BY <1>3, <1>5, <1>6, <1>7 DEF inodes, superblock

\* A write of an inode, by way of its block, changes that inode and nothing else.
LEMMA INodeWritten ==
  ASSUME diskFile \in Disk, NEW i \in INode, NEW node \in Byte, WriteINode(i, node)
  PROVE  /\ diskFile' \in Disk
         /\ inodes' = [inodes EXCEPT ![i] = node]
         /\ UNCHANGED <<disk, superblock>>
<1> DEFINE bid == INodeBlk(i)
           pos == i % INodesPerBlk
           buf == [diskFile[bid] EXCEPT ![pos] = node]
<1>1. /\ diskDBlkOffset \in Nat \ {0} /\ NDBlks \in Nat \ {0}
      /\ numBlk = diskDBlkOffset + NDBlks
  BY AreasFillDisk, INodeBlks, SizesAssumption
<1>2. bid \in 1 .. diskDBlkOffset - 1 /\ pos \in Part
  BY INodePlace
<1>3. diskFile[bid] \in Data /\ bid \in 0 .. numBlk - 1
  BY <1>1, <1>2 DEF Disk
<1>4. buf \in Data
  BY <1>2, <1>3 DEF Data
<1>5. diskFile' = [diskFile EXCEPT ![bid] = buf]
  <2>1. WriteBlk(bid, buf)
    BY DEF WriteINode
  <2>2. ~(bid > numBlk - 1)
    BY <1>1, <1>2
  <2> HIDE DEF bid, buf
  <2> QED
    BY <2>1, <2>2 DEF WriteBlk
<1> HIDE DEF bid, pos, buf
<1>6. diskFile' \in Disk
  BY <1>3, <1>4, <1>5 DEF Disk
<1>7. ASSUME NEW j \in INode
      PROVE  diskFile'[INodeBlk(j)][j % INodesPerBlk] =
               IF j = i THEN node ELSE diskFile[INodeBlk(j)][j % INodesPerBlk]
  <2>1. INodeBlk(j) \in 1 .. diskDBlkOffset - 1 /\ j % INodesPerBlk \in Part
    BY INodePlace
  <2>2. INodeBlk(j) \in 0 .. numBlk - 1
    BY <1>1, <2>1
  <2>3. CASE INodeBlk(j) # bid
    <3>1. diskFile'[INodeBlk(j)] = diskFile[INodeBlk(j)]
      BY <1>5, <2>2, <2>3 DEF Disk
    <3> QED
      BY <2>3, <3>1 DEF bid
  <2>4. CASE INodeBlk(j) = bid
    <3>1. diskFile'[INodeBlk(j)] = buf
      BY <1>3, <1>5, <2>4 DEF Disk
    <3>2. j = i <=> j % INodesPerBlk = pos
      BY <2>4, INodesApart DEF bid, pos
    <3>3. buf[j % INodesPerBlk] =
            IF j % INodesPerBlk = pos THEN node ELSE diskFile[bid][j % INodesPerBlk]
      BY <1>3, <2>1 DEF buf, Data
    <3> QED
      BY <2>4, <3>1, <3>2, <3>3
  <2> QED
    BY <2>3, <2>4
<1>8. inodes' = [inodes EXCEPT ![i] = node]
  BY <1>7 DEF inodes
<1>9. ASSUME NEW c \in Blk
      PROVE  diskFile'[diskDBlkOffset + c] = diskFile[diskDBlkOffset + c]
  BY <1>1, <1>2, <1>5 DEF Disk, Blk
<1>10. diskFile'[0] = diskFile[0]
  BY <1>1, <1>2, <1>5 DEF Disk
<1> QED
  BY <1>6, <1>8, <1>9, <1>10 DEF disk, superblock

\* A write of the superblock changes nothing else.
LEMMA SuperblockWritten ==
  ASSUME diskFile \in Disk, NEW sb \in Data, WriteBlk(0, sb)
  PROVE  /\ diskFile' \in Disk
         /\ superblock' = sb
         /\ UNCHANGED <<disk, inodes>>
<1>1. /\ diskDBlkOffset \in Nat \ {0} /\ NDBlks \in Nat \ {0}
      /\ numBlk = diskDBlkOffset + NDBlks
  BY AreasFillDisk, INodeBlks, SizesAssumption
<1>2. diskFile' = [diskFile EXCEPT ![0] = sb]
  BY <1>1 DEF WriteBlk
<1>3. diskFile' \in Disk /\ diskFile'[0] = sb
  BY <1>1, <1>2 DEF Disk
<1>4. ASSUME NEW c \in Blk
      PROVE  diskFile'[diskDBlkOffset + c] = diskFile[diskDBlkOffset + c]
  BY <1>1, <1>2 DEF Disk, Blk
<1>5. ASSUME NEW i \in INode PROVE diskFile'[INodeBlk(i)] = diskFile[INodeBlk(i)]
  <2>1. INodeBlk(i) \in 1 .. diskDBlkOffset - 1
    BY INodePlace
  <2> QED
    BY <1>1, <1>2, <2>1 DEF Disk
<1> QED
  BY <1>3, <1>4, <1>5 DEF disk, inodes, superblock

\* What is not written stays.
LEMMA AreasStay ==
  ASSUME UNCHANGED diskFile PROVE UNCHANGED <<disk, inodes, superblock>>
BY DEF disk, inodes, superblock

-----------------------------------------------------------------------------
(* The cache.                                                               *)

\* A set number is in range.
LEMMA SetOfInSets == ASSUME NEW b \in Blk PROVE SetOf(b) \in Sets /\ b # -1
BY SizesAssumption DEF SetOf, Sets, Blk

LEMMA InUseFinite ==
  /\ IsFiniteSet(InUse) /\ Cardinality(InUse) \in 0 .. SetNum
  /\ IsFiniteSet(InUse') /\ Cardinality(InUse') \in 0 .. SetNum
<1>1. IsFiniteSet(Sets) /\ Cardinality(Sets) = SetNum
  <2>1. 0 \in Int /\ SetNum - 1 \in Int /\ SetNum \in Nat \ {0}
    BY SizesAssumption
  <2>2. IsFiniteSet(0 .. SetNum - 1) /\
        Cardinality(0 .. SetNum - 1) = IF 0 > SetNum - 1 THEN 0
                                       ELSE SetNum - 1 - 0 + 1
    BY <2>1, FS_Interval
  <2> QED
    BY <2>1, <2>2 DEF Sets
<1>2. ASSUME NEW S \in SUBSET Sets
      PROVE  IsFiniteSet(S) /\ Cardinality(S) \in 0 .. SetNum
  <2>1. IsFiniteSet(S) /\ Cardinality(S) <= SetNum
    BY <1>1, FS_Subset
  <2>2. Cardinality(S) \in Nat
    BY <2>1, FS_CardinalityType
  <2> QED
    BY <2>1, <2>2, SizesAssumption
<1>3. InUse \subseteq Sets /\ InUse' \subseteq Sets
  BY DEF InUse
<1> QED
  BY <1>2, <1>3

LEMMA EmptyEntryType == EmptyEntry \in [id : Blk \union {-1}, data : Data]
BY ByteAssumption DEF EmptyEntry, Data

\* What a read returns is what is on disk.
LEMMA LookupIsDisk ==
  ASSUME TypeOK, Coherent, NEW b \in Blk
  PROVE  Lookup(b) = disk[b] /\ disk[b] \in Data
<1>0. disk[b] \in Data
  BY AreasType DEF TypeOK, Disk
<1>1. SetOf(b) \in Sets /\ b # -1
  BY SetOfInSets
<1>2. CASE Hit(b)
  <2>1. SetOf(b) \in InUse
    BY <1>1, <1>2 DEF Hit, InUse
  <2> QED
    BY <1>0, <1>2, <2>1 DEF Coherent, Lookup, Hit
<1>3. CASE ~Hit(b)
  BY <1>0, <1>3 DEF Lookup
<1> QED
  BY <1>2, <1>3

\* A put keeps the invariant if what it puts is what the disk then holds and
\* no other block changed on disk.
LEMMA PutKeepsInv ==
  ASSUME IInv, NEW b \in Blk, NEW d \in Data, PutEntry(b, d),
         diskFile' \in Disk, disk' = [disk EXCEPT ![b] = d]
  PROVE  IInv'
<1>0. disk \in [Blk -> Data]
  BY AreasType DEF IInv, TypeOK, Disk
<1> DEFINE s == SetOf(b)
           e == [id |-> b, data |-> d]
<1>1. s \in Sets /\ b # -1 /\ b \in Int
  BY SetOfInSets, SizesAssumption DEF Blk
<1>2. dCache' = [dCache EXCEPT ![s] = e]
  BY DEF PutEntry
<1>3. e \in [id : Blk \union {-1}, data : Data] /\ e.id = b /\ e.data = d
  OBVIOUS
<1>4. InUse' = InUse \union {s}
  BY <1>1, <1>2, <1>3 DEF InUse, IInv, TypeOK
<1>5. dCacheSize' = IF s \in InUse THEN dCacheSize ELSE dCacheSize + 1
  BY <1>1 DEF PutEntry, InUse
<1>6. SizeExact'
  <2>1. CASE s \in InUse
    BY <1>4, <1>5, <2>1 DEF IInv, SizeExact
  <2>2. CASE s \notin InUse
    <3>1. Cardinality(InUse \union {s}) = Cardinality(InUse) + 1
      BY <2>2, InUseFinite, FS_AddElement
    <3> QED
      BY <1>4, <1>5, <2>2, <3>1 DEF IInv, SizeExact
  <2> QED
    BY <2>1, <2>2
<1>7. TypeOK'
  <2>1. dCacheSize' \in 0 .. SetNum
    BY <1>6, InUseFinite DEF SizeExact
  <2> QED
    BY <1>1, <1>2, <1>3, <2>1 DEF IInv, TypeOK, Disk
<1>8. Coherent'
  <2> SUFFICES ASSUME NEW t \in InUse'
               PROVE  /\ SetOf(dCache'[t].id) = t
                      /\ dCache'[t].data = disk'[dCache'[t].id]
    BY DEF Coherent, SetOf
  <2>1. CASE t = s
    <3>1. dCache'[t] = e
      BY <1>1, <1>2, <2>1 DEF IInv, TypeOK
    <3>2. disk'[b] = d
      BY <1>0
    <3> QED
      BY <1>3, <2>1, <3>1, <3>2
  <2>2. CASE t # s
    <3>1. t \in InUse /\ t \in Sets
      BY <1>4, <2>2 DEF InUse
    <3>2. dCache'[t] = dCache[t]
      BY <1>2, <2>2, <3>1 DEF IInv, TypeOK
    <3>3. SetOf(dCache[t].id) = t /\ dCache[t].data = disk[dCache[t].id]
      BY <3>1 DEF IInv, Coherent
    <3>4. dCache[t].id # b
      BY <2>2, <3>3
    <3>5. dCache[t].id \in Blk
      BY <3>1 DEF InUse, IInv, TypeOK
    <3> QED
      BY <1>0, <3>2, <3>3, <3>4, <3>5
  <2> QED
    BY <2>1, <2>2
<1> QED
  BY <1>6, <1>7, <1>8 DEF IInv

\* What leaves the cache alone and the data blocks on disk too keeps it.
LEMMA SameCacheKeepsInv ==
  ASSUME IInv, UNCHANGED <<disk, dCache, dCacheSize>>, diskFile' \in Disk
  PROVE  IInv'
BY DEF IInv, TypeOK, Coherent, SizeExact, InUse, SetOf, Disk

LEMMA ReadKeepsInv ==
  ASSUME IInv, NEW b \in Blk, NEW ps, ReadDBlk(b, ps)
  PROVE  IInv'
<1>1. disk' = disk /\ diskFile \in Disk /\ diskFile' \in Disk
  BY AreasStay DEF ReadDBlk, IInv, TypeOK, Disk
<1>2. CASE Hit(b)
  BY <1>1, <1>2, SameCacheKeepsInv DEF ReadDBlk
<1>3. CASE ~Hit(b)
  <2>1. PutEntry(b, disk[b])
    BY <1>3 DEF ReadDBlk
  <2>2. disk[b] \in Data /\ disk' = [disk EXCEPT ![b] = disk[b]]
    BY <1>1, AreasType
  <2> QED
    BY <1>1, <2>1, <2>2, PutKeepsInv
<1> QED
  BY <1>2, <1>3

LEMMA WriteKeepsInv ==
  ASSUME IInv, NEW b \in Blk, NEW d \in Data, StoreBlk(b, d)
  PROVE  IInv'
<1>1. diskFile' \in Disk /\ disk' = [disk EXCEPT ![b] = d]
  BY DBlkWritten DEF StoreBlk, IInv, TypeOK, Disk
<1> QED
  BY <1>1, PutKeepsInv DEF StoreBlk

LEMMA FreeKeepsInv ==
  ASSUME IInv, NEW b \in Blk, FreeDBlk(b)
  PROVE  IInv'
<1> DEFINE s == SetOf(b)
<1>1. s \in Sets /\ b # -1
  BY SetOfInSets
<1>2. dCache' = [dCache EXCEPT ![s] = EmptyEntry] /\ disk' = disk
  BY AreasStay DEF FreeDBlk
<1>3. s \in InUse
  BY <1>1 DEF FreeDBlk, Hit, InUse
<1>4. InUse' = InUse \ {s}
  BY <1>1, <1>2 DEF InUse, EmptyEntry, IInv, TypeOK
<1>5. SizeExact'
  <2>1. Cardinality(InUse \ {s}) = Cardinality(InUse) - 1
    BY <1>3, InUseFinite, FS_RemoveElement
  <2> QED
    BY <1>4, <2>1 DEF FreeDBlk, IInv, SizeExact
<1>6. TypeOK'
  BY <1>1, <1>2, <1>5, EmptyEntryType, InUseFinite
  DEF FreeDBlk, IInv, TypeOK, SizeExact
<1>7. Coherent'
  <2> SUFFICES ASSUME NEW t \in InUse'
               PROVE  /\ SetOf(dCache'[t].id) = t
                      /\ dCache'[t].data = disk'[dCache'[t].id]
    BY DEF Coherent, SetOf
  <2>1. t \in InUse /\ t # s
    BY <1>4
  <2>2. dCache'[t] = dCache[t]
    BY <1>2, <2>1 DEF IInv, TypeOK, InUse
  <2> QED
    BY <1>2, <2>1, <2>2 DEF IInv, Coherent
<1> QED
  BY <1>5, <1>6, <1>7 DEF IInv

\* initDBlkCache establishes the invariant on any disk.
LEMMA EmptyCacheInv ==
  ASSUME diskFile \in Disk, dCache = [s \in Sets |-> EmptyEntry],
         dCacheSize = 0
  PROVE  IInv
<1>1. InUse = {}
  BY DEF InUse, EmptyEntry
<1>2. TypeOK
  BY EmptyEntryType, SizesAssumption DEF TypeOK, Disk
<1> QED
  BY <1>1, <1>2, FS_EmptySet DEF IInv, Coherent, SizeExact

LEMMA MountKeepsInv ==
  ASSUME IInv, Mount
  PROVE  IInv'
<1>1. InUse' = {}
  BY DEF Mount, InUse, EmptyEntry
<1>2. TypeOK'
  BY EmptyEntryType, SizesAssumption DEF Mount, IInv, TypeOK
<1>3. dCacheSize' = 0
  BY DEF Mount
<1> QED
  BY <1>1, <1>2, <1>3, FS_EmptySet DEF IInv, Coherent, SizeExact

LEMMA INodeKeepsInv ==
  ASSUME IInv, NEW i \in INode, NEW node \in Byte, WriteINode(i, node)
  PROVE  IInv'
<1>1. diskFile' \in Disk /\ disk' = disk
  BY INodeWritten DEF IInv, TypeOK, Disk
<1> QED
  BY <1>1, SameCacheKeepsInv DEF WriteINode

LEMMA UnmountKeepsInv ==
  ASSUME IInv, NEW sb \in Data, Unmount(sb)
  PROVE  IInv'
<1>1. diskFile' \in Disk /\ disk' = disk
  BY SuperblockWritten DEF IInv, TypeOK, Disk, Unmount
<1> QED
  BY <1>1, SameCacheKeepsInv DEF Unmount

LEMMA MergedType ==
  ASSUME IInv, NEW b \in Blk, NEW ps, NEW d \in Data
  PROVE  Merged(b, ps, d) \in Data
<1>1. Lookup(b) \in Data
  BY LookupIsDisk DEF IInv
<1> QED
  BY <1>1 DEF Merged, Data

\* The invariant holds in every reachable state.
THEOREM Invariance == Spec => []IInv
<1>1. Init => IInv
  BY EmptyCacheInv DEF Init, Disk
<1>2. IInv /\ [Next]_vars => IInv'
  <2> SUFFICES ASSUME IInv, [Next]_vars PROVE IInv'
    OBVIOUS
  <2>1. CASE \E b \in Blk, off \in Part : \E len \in 1 .. BlkSize - off :
               ReadDBlk(b, Span(off, len))
    BY <2>1, ReadKeepsInv
  <2>2. CASE \E b \in Blk, off \in Part : \E len \in 1 .. BlkSize - off :
               \E d \in Data : WriteDBlkOffset(b, Span(off, len), d)
    <3>1. PICK b \in Blk, off \in Part : \E len \in 1 .. BlkSize - off :
                 \E d \in Data : WriteDBlkOffset(b, Span(off, len), d)
      BY <2>2
    <3>2. PICK len \in 1 .. BlkSize - off, d \in Data :
                 WriteDBlkOffset(b, Span(off, len), d)
      BY <3>1
    <3>3. Merged(b, Span(off, len), d) \in Data
      BY MergedType
    <3> QED
      BY <3>2, <3>3, WriteKeepsInv DEF WriteDBlkOffset
  <2>3. CASE \E b \in Blk, d \in Data : WriteDBlk(b, d)
    BY <2>3, WriteKeepsInv DEF WriteDBlk
  <2>4. CASE \E b \in Blk : FreeDBlk(b)
    BY <2>4, FreeKeepsInv
  <2>5. CASE \E i \in INode : ReadINode(i)
    <3>1. UNCHANGED <<diskFile, disk, dCache, dCacheSize>>
      BY <2>5, AreasStay DEF ReadINode
    <3> QED
      BY <3>1, SameCacheKeepsInv DEF IInv, TypeOK, Disk
  <2>6. CASE \E i \in INode, node \in Byte : WriteINode(i, node)
    BY <2>6, INodeKeepsInv
  <2>7. CASE \E sb \in Data : Unmount(sb)
    BY <2>7, UnmountKeepsInv
  <2>8. CASE Mount
    BY <2>8, MountKeepsInv
  <2>9. CASE UNCHANGED vars
    <3>1. UNCHANGED <<diskFile, disk, dCache, dCacheSize>>
      BY <2>9, AreasStay DEF vars
    <3> QED
      BY <3>1, SameCacheKeepsInv DEF IInv, TypeOK, Disk
  <2> QED
    BY <2>1, <2>2, <2>3, <2>4, <2>5, <2>6, <2>7, <2>8, <2>9 DEF Next
<1> QED
  BY <1>1, <1>2, PTL DEF Spec

\* The variables keep their types.
THEOREM TypeCorrect == Spec => []TypeOK
<1>1. IInv => TypeOK
  BY DEF IInv
<1> QED
  BY <1>1, Invariance, PTL

\* A cached block is in its set and is what the disk holds.
THEOREM CacheCoherent == Spec => []Coherent
<1>1. IInv => Coherent
  BY DEF IInv
<1> QED
  BY <1>1, Invariance, PTL

\* The size counter is the number of sets in use.
THEOREM SizeCounted == Spec => []SizeExact
<1>1. IInv => SizeExact
  BY DEF IInv
<1> QED
  BY <1>1, Invariance, PTL

-----------------------------------------------------------------------------
\* The positions an offset and a length stand for are positions of a block.
LEMMA SpanInBlk ==
  ASSUME NEW off \in Part, NEW len \in 1 .. BlkSize - off
  PROVE  Span(off, len) \in SUBSET Part
BY SizesAssumption DEF Span, Part

LEMMA ReadRefines ==
  ASSUME IInv, NEW b \in Blk, NEW off \in Part, NEW len \in 1 .. BlkSize - off,
         ReadDBlk(b, Span(off, len))
  PROVE  Store!Next
<1>1. PICK ps \in SUBSET Part : ps = Span(off, len)
  BY SpanInBlk
<1>2. Lookup(b) = disk[b]
  BY LookupIsDisk DEF IInv
<1>3. UNCHANGED <<disk, inodes, superblock>>
  BY AreasStay DEF ReadDBlk
<1>4. Store!Read(b, ps)
  BY <1>1, <1>2, <1>3 DEF ReadDBlk, Store!Read
<1> QED
  BY <1>1, <1>4 DEF Store!Next

LEMMA WriteRefines ==
  ASSUME IInv, NEW b \in Blk, NEW d \in Data, WriteDBlk(b, d)
  PROVE  Store!Next
<1>1. d = [p \in Part |-> IF p \in Part THEN d[p] ELSE disk[b][p]]
  BY DEF Data
<1>2. disk' = [disk EXCEPT ![b] = d] /\ UNCHANGED <<inodes, superblock>>
  BY DBlkWritten DEF WriteDBlk, StoreBlk, IInv, TypeOK, Disk
<1>3. last' = [op |-> "write", blk |-> b, bytes |-> [p \in Part |-> d[p]]]
  BY DEF WriteDBlk, Data
<1>4. Store!Write(b, Part, d)
  BY <1>1, <1>2, <1>3 DEF Store!Write
<1> QED
  BY <1>4 DEF Store!Next, Store!Data, Data

LEMMA WriteOffsetRefines ==
  ASSUME IInv, NEW b \in Blk, NEW off \in Part, NEW len \in 1 .. BlkSize - off,
         NEW d \in Data, WriteDBlkOffset(b, Span(off, len), d)
  PROVE  Store!Next
<1>1. PICK ps \in SUBSET Part : ps = Span(off, len)
  BY SpanInBlk
<1>2. Lookup(b) = disk[b]
  BY LookupIsDisk DEF IInv
<1>3. Merged(b, ps, d) = [p \in Part |-> IF p \in ps THEN d[p] ELSE disk[b][p]]
  BY <1>2 DEF Merged
<1>4. Merged(b, ps, d) \in Data
  BY MergedType
<1>5. StoreBlk(b, Merged(b, ps, d))
  BY <1>1 DEF WriteDBlkOffset
<1>6. disk' = [disk EXCEPT ![b] = Merged(b, ps, d)] /\ UNCHANGED <<inodes, superblock>>
  BY <1>4, <1>5, DBlkWritten DEF StoreBlk, IInv, TypeOK, Disk
<1>7. Store!Write(b, ps, d)
  BY <1>1, <1>3, <1>6 DEF WriteDBlkOffset, Store!Write
<1> QED
  BY <1>1, <1>7 DEF Store!Next, Store!Data, Data

LEMMA INodeRefines ==
  ASSUME IInv, NEW i \in INode, NEW node \in Byte, WriteINode(i, node)
  PROVE  Store!Next
<1>1. inodes' = [inodes EXCEPT ![i] = node] /\ UNCHANGED <<disk, superblock>>
  BY INodeWritten DEF IInv, TypeOK, Disk
<1>2. Store!WriteINode(i, node)
  BY <1>1 DEF WriteINode, Store!WriteINode
<1> QED
  BY <1>2 DEF Store!Next

LEMMA UnmountRefines ==
  ASSUME IInv, NEW sb \in Data, Unmount(sb)
  PROVE  Store!Next
<1>1. superblock' = sb /\ UNCHANGED <<disk, inodes>>
  BY SuperblockWritten DEF IInv, TypeOK, Disk, Unmount
<1>2. Store!Unmount(sb)
  BY <1>1 DEF Unmount, Store!Unmount
<1> QED
  BY <1>2 DEF Store!Next, Store!Data, Data

\* The disk and the cache together are the three stores that BlockStore
\* describes, for every size of the cache and of the areas.
THEOREM CacheIsTransparent == Spec => ImplementsBlockStore
<1> DEFINE abstract == <<disk, inodes, superblock, last>>
<1>1. Init => Store!Init
  BY AreasType DEF Init, Store!Init, Store!Data, Data, Disk
<1>2. IInv /\ [Next]_vars => [Store!Next]_abstract
  <2> SUFFICES ASSUME IInv, [Next]_vars
               PROVE  Store!Next \/ UNCHANGED abstract
    OBVIOUS
  <2>1. CASE \E b \in Blk, off \in Part : \E len \in 1 .. BlkSize - off :
               ReadDBlk(b, Span(off, len))
    BY <2>1, ReadRefines
  <2>2. CASE \E b \in Blk, off \in Part : \E len \in 1 .. BlkSize - off :
               \E d \in Data : WriteDBlkOffset(b, Span(off, len), d)
    BY <2>2, WriteOffsetRefines
  <2>3. CASE \E b \in Blk, d \in Data : WriteDBlk(b, d)
    BY <2>3, WriteRefines
  <2>4. CASE \E b \in Blk : FreeDBlk(b)
    BY <2>4, AreasStay DEF FreeDBlk
  <2>5. CASE \E i \in INode : ReadINode(i)
    BY <2>5, AreasStay DEF ReadINode, Store!Next, Store!ReadINode
  <2>6. CASE \E i \in INode, node \in Byte : WriteINode(i, node)
    BY <2>6, INodeRefines
  <2>7. CASE \E sb \in Data : Unmount(sb)
    BY <2>7, UnmountRefines
  <2>8. CASE Mount
    BY <2>8, AreasStay DEF Mount, Store!Next, Store!Mount
  <2>9. CASE UNCHANGED vars
    BY <2>9, AreasStay DEF vars
  <2> QED
    BY <2>1, <2>2, <2>3, <2>4, <2>5, <2>6, <2>7, <2>8, <2>9 DEF Next
<1> QED
  BY <1>1, <1>2, Invariance, PTL DEF Spec, ImplementsBlockStore, Store!Spec
=============================================================================
