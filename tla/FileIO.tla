------------------------------- MODULE FileIO --------------------------------
(***************************************************************************)
(* What files contain: readINodeData and writeINodeData (FileSystem.c) and *)
(* their callers l2_read, l2_write, l2_truncate and l2_unlink, over blocks *)
(* of bytes.                                                               *)
(*                                                                         *)
(* Both functions go through the range in chunks: the rest of the first    *)
(* block if the offset is inside a block, then block by block.  A read     *)
(* takes zeros where a file has no block; a write takes a free block, whose *)
(* other bytes stay what they were unless allocDBlk wiped it (it wipes the *)
(* blocks that hold the free list).  When no block is left the chunks      *)
(* before are written, but not the inode.                                  *)
(*                                                                         *)
(* l2_unmount writes the cached part of the free list to the block that    *)
(* pFreeDBlksHead names.  When no block is free that is the block that was *)
(* handed out last, and the cache is all zeros: what a file had there is   *)
(* lost.                                                                   *)
(*                                                                         *)
(* Files stay in the range of the direct blocks; FileBlocks shows that the *)
(* index blocks keep a map from file blocks to blocks just the same.  The  *)
(* block cache is left out: DBlkCacheProofs shows that it makes no         *)
(* difference.                                                             *)
(***************************************************************************)
EXTENDS Integers, Sequences, FiniteSets, SequencesExt

CONSTANTS
  File,       \* the files; each has one inode
  Block,      \* the data blocks
  FreeOrders, \* the orders in which the free blocks may be stacked at first
  NoBlk,      \* the id -1 in an inode
  Hole,       \* stands for the zeros of a file block without a block
  BlkSize,    \* BLK_SIZE, in bytes
  MaxBlks,    \* bound: the blocks of a file
  Byte,       \* the values of a byte
  Writes,     \* the <<offset, bytes>> pairs l2_write is called with
  Lengths     \* the lengths l2_truncate is called with

ASSUME ContentAssumption ==
  /\ BlkSize \in Nat \ {0} /\ MaxBlks \in Nat \ {0}
  /\ NoBlk \notin Block /\ Hole \notin Byte /\ 0 \in Byte
  /\ \A s \in FreeOrders : s \in Seq(Block) /\ IsInjective(s) /\ ToSet(s) = Block
  /\ \A w \in Writes : /\ w[1] \in Nat /\ w[2] \in Seq(Byte) \ {<<>>}
                       /\ w[1] + Len(w[2]) <= MaxBlks * BlkSize
  /\ Lengths \subseteq 0 .. MaxBlks * BlkSize

VARIABLES
  free,       \* the stack of free blocks
  taken,      \* the block that was handed out last
  inode,      \* the inodes in core
  dinode,     \* the inodes on disk
  data        \* the bytes of each block

vars == <<free, taken, inode, dinode, data>>

Offset  == 0 .. BlkSize - 1
FileBlk == 0 .. MaxBlks - 1

EmptyINode == [filesize |-> 0, blk |-> [k \in FileBlk |-> NoBlk]]
Zeros      == [o \in Offset |-> 0]

\* A disk file that is new, or that was used before.
Init == /\ free \in FreeOrders
        /\ taken = NoBlk
        /\ inode = [f \in File |-> EmptyINode]
        /\ dinode = inode
        /\ \E x \in Byte : data = [b \in Block |-> [o \in Offset |-> x]]

-----------------------------------------------------------------------------
NBlks(bytes) == (bytes + BlkSize - 1) \div BlkSize

Smaller(m, n) == IF m < n THEN m ELSE n
Larger(m, n)  == IF m < n THEN n ELSE m

\* The chunks of len bytes from off on: the bytes "from" up to "to" of file
\* block k are those of the buffer after the first "at".
Chunks(off, len) ==
  LET start == off % BlkSize
      head  == IF start = 0 THEN 0 ELSE Smaller(len, BlkSize - start)
      first == off \div BlkSize + (IF start = 0 THEN 0 ELSE 1)
      rest  == len - head
  IN  {[k |-> off \div BlkSize, from |-> start, to |-> start + head, at |-> 0] :
         x \in {start} \ {0}}
      \union
      {[k |-> first + j, from |-> 0, to |-> Smaller(BlkSize, rest - j * BlkSize),
        at |-> head + j * BlkSize] : j \in 0 .. NBlks(rest) - 1}

\* Byte o of file block k.
ByteAt(i, k, o) == IF i.blk[k] = NoBlk THEN Hole ELSE data[i.blk[k]][o]

\* The length of a read is cut at the end of the file.  Its mutant does not.
CutNowhere(i, off, len) == Smaller(len, MaxBlks * BlkSize - off)

Cut(i, off, len) == Smaller(len, i.filesize - off)

\* readINodeData: memset or readDBlkOffset for each chunk.
ReadINodeData(i, off, len) ==
  IF off >= i.filesize THEN <<>>
  ELSE LET n      == Cut(i, off, len)
           chunks == Chunks(off, n)
       IN  [p \in 1 .. n |->
              LET c == CHOOSE c \in chunks : p \in c.at + 1 .. c.at + c.to - c.from
                  x == ByteAt(i, c.k, c.from + p - c.at - 1)
              IN  IF x = Hole THEN 0 ELSE x]

-----------------------------------------------------------------------------
WriteINode(f) == dinode' = [dinode EXCEPT ![f] = inode'[f]]

\* The place of k in S, smallest first.
Rank(S, k) == Cardinality({j \in S : j <= k})

\* Chunks of a buffer written to the blocks of a file.
Stored(bytes, blk, chunks, buf) ==
  [b \in Block |->
     [o \in Offset |->
        LET into == {c \in chunks : blk[c.k] = b /\ c.from <= o /\ o < c.to}
        IN  IF into = {} THEN bytes[b][o]
            ELSE LET c == CHOOSE c \in into : TRUE IN buf[c.at + o - c.from + 1]]]

\* l2_write with writeINodeData: the missing blocks come off the free list in
\* order until it is empty; the chunks before the first block that is still
\* missing are written.  The size grows, and the inode is written, only if
\* none is missing (else -EDQUOT).  Some of the new blocks are wiped.
Write(f, off, buf) ==
  \E i \in {inode[f]}, chunks \in {Chunks(off, Len(buf))} :
  \E missing \in {{c.k : c \in {c \in chunks : i.blk[c.k] = NoBlk}}} :
  \E got \in {{k \in missing : Rank(missing, k) <= Len(free)}} :
  \E blk \in {[k \in FileBlk |-> IF k \in got THEN free[Rank(got, k)] ELSE i.blk[k]]},
     done \in {{c \in chunks : \A k \in missing \ got : c.k < k}} :
    LET size == IF got # missing THEN i.filesize
                ELSE Larger(i.filesize, off + Len(buf))
    IN  /\ free' = SubSeq(free, Cardinality(got) + 1, Len(free))
        /\ taken' = IF got = {} THEN taken ELSE free[Cardinality(got)]
        /\ \E wiped \in SUBSET {blk[k] : k \in got} :
             data' = Stored([b \in Block |-> IF b \in wiped THEN Zeros
                                             ELSE data[b]], blk, done, buf)
        /\ inode' = [inode EXCEPT ![f] = [filesize |-> size, blk |-> blk]]
        /\ IF got = missing THEN WriteINode(f) ELSE UNCHANGED dinode

\* bfree of the file blocks ks, the last one first: the blocks that go to the
\* free list, and the map without them.  The mutants release file blocks that
\* have no block, and keep the map.
ReleasedAll(i, ks) ==
  [n \in 1 .. Cardinality(ks) |-> i.blk[CHOOSE k \in ks : Rank(ks, k) = n]]

Released(i, ks) ==
  LET gone == {k \in ks : i.blk[k] # NoBlk}
  IN  [n \in 1 .. Cardinality(gone) |-> i.blk[CHOOSE k \in gone : Rank(gone, k) = n]]

UnmappedNot(i, ks) == i.blk

Unmapped(i, ks) == [k \in FileBlk |-> IF k \in ks THEN NoBlk ELSE i.blk[k]]

\* l2_truncate.  Growing sets the size only.  Shrinking releases the last
\* block if the number of blocks changes, then one more for each whole block
\* left of the difference.
Truncate(f, length) ==
  LET i    == inode[f]
      last == NBlks(i.filesize) - 1
      more == (last * BlkSize - length) \div BlkSize
      ks   == IF length < i.filesize /\ NBlks(length) <= last
                THEN last - more .. last ELSE {}
  IN  /\ free' = Released(i, ks) \o free
      /\ inode' = [inode EXCEPT ![f] = [filesize |-> length, blk |-> Unmapped(i, ks)]]
      /\ WriteINode(f)
      /\ UNCHANGED <<taken, data>>

\* l2_unlink: freeINode goes down from the size; the inode is then as good as
\* a new file's.
Unlink(f) ==
  LET ks == {k \in FileBlk : k <= NBlks(inode[f].filesize)}
  IN  /\ free' = Released(inode[f], ks) \o free
      /\ inode' = [inode EXCEPT ![f] = EmptyINode]
      /\ WriteINode(f)
      /\ UNCHANGED <<taken, data>>

\* l2_read writes the inode back, for its access time.
Read(f) == /\ dinode[f] # inode[f]
           /\ UNCHANGED <<free, taken, inode, data>>
           /\ WriteINode(f)

\* l2_unmount, l2_mount: the in-core inodes are forgotten.  On a full disk
\* the block that was handed out last is cleared.
Remount == /\ inode' = dinode
           /\ data' = IF free = <<>> THEN [data EXCEPT ![taken] = Zeros] ELSE data
           /\ UNCHANGED <<free, taken, dinode>>

Next ==
  \/ \E f \in File, w \in Writes : Write(f, w[1], w[2])
  \/ \E f \in File, length \in Lengths : Truncate(f, length)
  \/ \E f \in File : Unlink(f)
  \/ \E f \in File : Read(f)
  \/ Remount

Spec == Init /\ [][Next]_vars

-----------------------------------------------------------------------------
\* The bytes of a file, up to its size.
Bytes(i) == [n \in 1 .. i.filesize |->
               ByteAt(i, (n - 1) \div BlkSize, (n - 1) % BlkSize)]

INodes == {inode[f] : f \in File} \union {dinode[f] : f \in File}

\* Type invariant.  Nothing but blocks comes onto the free list: bfree leaves
\* alone a file block that has none.
TypeOK ==
  /\ free \in Seq(Block)
  /\ taken \in Block \union {NoBlk}
  /\ \A i \in INodes : /\ i.filesize \in 0 .. MaxBlks * BlkSize
                       /\ i.blk \in [FileBlk -> Block \union {NoBlk}]
  /\ data \in [Block -> [Offset -> Byte]]

\* readINodeData returns the bytes of the file from any offset on, at most as
\* many as asked for and none past its end, in whichever way offset and length
\* cut blocks, with zeros for holes.
ReadsContent ==
  \A f \in File : \E all \in {Bytes(inode[f])} :
    \A off, len \in 0 .. MaxBlks * BlkSize :
      ReadINodeData(inode[f], off, len) =
        [p \in 1 .. Len(SubSeq(all, off + 1, Smaller(off + len, Len(all)))) |->
           IF all[off + p] = Hole THEN 0 ELSE all[off + p]]

\* Files keep what is written to them (l2_read, l2_write, l2_truncate): what
\* is done to a file shows in that file only and in the bytes the call names,
\* whatever blocks the files used before; a call that runs out of space has no
\* effect but for a beginning of what it was to write.  A remount undoes no
\* call that succeeded; it clears one block, of one file, if no block is free
\* (l2_unmount), and nothing if one is.
Files == INSTANCE ByteFile WITH content <- [f \in File |-> Bytes(inode[f])],
                                stored  <- [f \in File |-> Bytes(dinode[f])],
                                full    <- free = <<>>

ImplementsByteFile == Files!Spec
=============================================================================
