----------------------------- MODULE FileBlocks ------------------------------
(***************************************************************************)
(* How files hold data blocks: bmap, balloc and bfree (FileSystem.c) and   *)
(* the operations that call them, l2_write, l2_truncate, the release of an *)
(* inode by l2_unlink (freeINode), l2_read's write-back of the inode, and  *)
(* a remount.                                                              *)
(*                                                                         *)
(* An inode has NDirect direct blocks and one single, one double and one   *)
(* triple indirect block.  An index block has Entries entries.  A write    *)
(* allocates the blocks it covers one at a time and gives up when the disk *)
(* is full, leaving what it allocated in the in-core inode only.           *)
(*                                                                         *)
(* l2_unmount writes the cached part of the free list to the block that    *)
(* pFreeDBlksHead names.  When no block is free that is the block that was *)
(* handed out last, and the cache is all zeros.  If it is an index block,  *)
(* its entries lead to block 0 then, and the module follows the files no   *)
(* further (wiped).                                                        *)
(*                                                                         *)
(* The free blocks are the stack FreeStack describes, which DBlkAlloc      *)
(* implements.  A call runs to its end before the next one starts: the     *)
(* daemon is run single-threaded (fuseDaemon, option -s).                  *)
(***************************************************************************)
EXTENDS Integers, Sequences, FiniteSets, SequencesExt

CONSTANTS
  File,       \* the files; each has one inode
  Block,      \* the data blocks
  FreeOrders, \* the orders in which the free blocks may be stacked at first
  NoBlk,      \* the id -1 in an inode or an index block
  NDirect,    \* INODE_NUM_DIRECT_BLKS
  Entries,    \* ids in an index block (BLK_SIZE / sizeof(LONG))
  BlkSize,    \* BLK_SIZE, in bytes
  Writes,     \* the <<offset, length>> pairs l2_write is called with
  Lengths     \* the lengths l2_truncate is called with

ASSUME GeometryAssumption ==
  /\ NDirect \in Nat \ {0} /\ Entries \in Nat \ {0} /\ BlkSize \in Nat \ {0}
  /\ NoBlk \notin Block
  /\ IsFiniteSet(Block)
  /\ \A s \in FreeOrders : s \in Seq(Block) /\ IsInjective(s) /\ ToSet(s) = Block
  /\ Writes \subseteq (Nat \X (Nat \ {0})) /\ Lengths \subseteq Nat

VARIABLES
  free,       \* the stack of free blocks
  taken,      \* the block that was handed out last
  index,      \* the blocks read as index blocks
  inode,      \* the inodes in core (inode table or inode cache)
  dinode,     \* the inodes on disk
  holed,      \* ghost: some file was given a hole
  failed,     \* ghost: some write ran out of blocks
  wiped       \* ghost: an unmount overwrote an index block of a file

vars == <<free, taken, index, inode, dinode, holed, failed, wiped>>

Entry == 0 .. Entries - 1

EmptyINode == [filesize |-> 0,
               direct   |-> [k \in 0 .. NDirect - 1 |-> NoBlk],
               indirect |-> [level \in 1 .. 3 |-> NoBlk]]

\* An index block as balloc initialises it; and what a block that is free or
\* holds file data reads as, here as ids no inode may ever follow.
BlankIndex == [e \in Entry |-> NoBlk]
Junk(b)    == [e \in Entry |-> b]

Init == /\ free \in FreeOrders
        /\ taken = NoBlk
        /\ index = [b \in Block |-> Junk(b)]
        /\ inode = [f \in File |-> EmptyINode]
        /\ dinode = inode
        /\ holed = FALSE /\ failed = FALSE /\ wiped = FALSE

-----------------------------------------------------------------------------
(* The places that hold block ids: a field of an inode or an entry of an    *)
(* index block.  m is a record of free, index and the inode in core.        *)

DirectCell(k)   == [kind |-> "direct", at |-> k]
RootCell(level) == [kind |-> "root", at |-> level]
EntryCell(b, e) == [kind |-> "entry", blk |-> b, at |-> e]

Get(m, cell) == CASE cell.kind = "direct" -> m.inode.direct[cell.at]
                  [] cell.kind = "root"   -> m.inode.indirect[cell.at]
                  [] cell.kind = "entry"  -> m.index[cell.blk][cell.at]

Put(m, cell, b) ==
  CASE cell.kind = "direct" -> [m EXCEPT !.inode.direct[cell.at] = b]
    [] cell.kind = "root"   -> [m EXCEPT !.inode.indirect[cell.at] = b]
    [] cell.kind = "entry"  -> [m EXCEPT !.index[cell.blk][cell.at] = b]

LastFileBlk == NDirect + Entries + Entries * Entries
               + Entries * Entries * Entries - 1

\* The way from the inode to file block k: the cell in the inode, then the
\* entry to take in each index block.
Route(k) ==
  LET s == k - NDirect
      d == s - Entries
      t == d - Entries * Entries
  IN  IF s < 0 THEN [start |-> DirectCell(k), path |-> <<>>]
      ELSE IF d < 0 THEN [start |-> RootCell(1), path |-> <<s>>]
      ELSE IF t < 0
        THEN [start |-> RootCell(2), path |-> <<d \div Entries, d % Entries>>]
      ELSE [start |-> RootCell(3),
            path  |-> <<t \div (Entries * Entries),
                        (t \div Entries) % Entries, t % Entries>>]

\* The blocks on the way, as bmap follows them, up to the first missing one.
Way(m, k) ==
  LET path == Route(k).path
      b[n \in 0 .. Len(path)] == IF n = 0 THEN Get(m, Route(k).start)
                                 ELSE IF b[n - 1] = NoBlk THEN NoBlk
                                 ELSE m.index[b[n - 1]][path[n]]
  IN  b

\* bmap: the block of file block k, or NoBlk if it has none or k is beyond
\* the largest file.
Bmap(m, k) == IF k > LastFileBlk THEN NoBlk ELSE Way(m, k)[Len(Route(k).path)]

\* Fill a cell with a new block, an index block or a data block; ok tells
\* whether allocDBlk had one.
Fill(m, cell, use) ==
  IF m.free = <<>> THEN [m |-> m, cell |-> cell, ok |-> FALSE]
  ELSE LET b == Head(m.free)
           entries == IF use = "index" THEN BlankIndex ELSE Junk(b)
       IN  [m    |-> [Put(m, cell, b) EXCEPT !.free = Tail(m.free), !.index[b] = entries],
            cell |-> cell, ok |-> TRUE]

\* One step of balloc down the route: allocate the index block of the cell
\* if it is missing, then go to entry e of it.
Descend(a, e) ==
  LET with == IF a.ok /\ Get(a.m, a.cell) = NoBlk
                THEN Fill(a.m, a.cell, "index") ELSE a
  IN  IF with.ok
        THEN [m |-> with.m, cell |-> EntryCell(Get(with.m, a.cell), e), ok |-> TRUE]
        ELSE with

\* balloc down to the cell for the id of file block k.
Descent(m, k) ==
  LET path == Route(k).path
      a[n \in 0 .. Len(path)] ==
        IF n = 0 THEN [m |-> m, cell |-> Route(k).start, ok |-> TRUE]
        ELSE Descend(a[n - 1], path[n])
  IN  a[Len(path)]

\* Mutants of Balloc: nobody looks whether there was a block; a file block that exists gets a new block.
BallocUnchecked(m, k) ==
  IF Bmap(m, k) # NoBlk THEN [m |-> m, ok |-> TRUE]
  ELSE LET a == Descent(m, k)
           z == IF a.ok THEN Fill(a.m, a.cell, "data") ELSE a
       IN  [m |-> z.m, ok |-> TRUE]

BallocAnew(m, k) ==
  LET a == Descent(m, k)
      z == IF a.ok THEN Fill(a.m, a.cell, "data") ELSE a
  IN  [m |-> z.m, ok |-> z.ok]

\* balloc: a block for file block k, unless it has one; what was allocated
\* before the disk was found full stays.
Balloc(m, k) ==
  IF Bmap(m, k) # NoBlk THEN [m |-> m, ok |-> TRUE]
  ELSE LET a == Descent(m, k)
           z == IF a.ok THEN Fill(a.m, a.cell, "data") ELSE a
       IN  [m |-> z.m, ok |-> z.ok]

\* Mutants of Release: the cell keeps the block; the cell is cleared before
\* its block is read.
ReleaseKeepsCell(m, cell) ==
  LET b == Get(m, cell)
  IN  [m EXCEPT !.free = <<b>> \o m.free, !.index[b] = Junk(b)]

ReleaseCleared(m, cell) ==
  LET n == Put(m, cell, NoBlk)
      b == Get(n, cell)
  IN  [n EXCEPT !.free = <<b>> \o n.free]

\* freeDBlk of the block in a cell, and -1 in the cell.
Release(m, cell) ==
  LET b == Get(m, cell)
      n == Put(m, cell, NoBlk)
  IN  [n EXCEPT !.free = <<b>> \o n.free, !.index[b] = Junk(b)]

\* The cell at place n of the way to file block k.
CellOn(m, k, n) ==
  IF n = 0 THEN Route(k).start
           ELSE EntryCell(Way(m, k)[n - 1], Route(k).path[n])

\* Mutant of Bfree: index blocks stay.
BfreeDataOnly(m, k) ==
  IF Bmap(m, k) = NoBlk THEN m
  ELSE Release(m, CellOn(m, k, Len(Route(k).path)))

\* bfree: release file block k if it has a block; an index block goes when
\* its entry 0 is released, whatever its other entries hold.
Bfree(m, k) ==
  IF Bmap(m, k) = NoBlk THEN m
  ELSE LET path == Route(k).path
           last == Len(path)
           n[i \in 0 .. last + 1] ==
             IF i = 0 THEN m
             ELSE IF \A j \in last + 2 - i .. last : path[j] = 0
               THEN Release(n[i - 1], CellOn(m, k, last + 1 - i)) ELSE n[i - 1]
       IN  n[last + 1]

\* bfree of the file blocks from "from" down to "to".
BfreeDown(m, from, to) ==
  LET n[i \in 0 .. from - to + 1] == IF i = 0 THEN m
                                     ELSE Bfree(n[i - 1], from + 1 - i)
  IN  IF from < to THEN m ELSE n[from - to + 1]

-----------------------------------------------------------------------------
\* The index blocks of an inode, by height.
EntriesOf(blks) == {index[b][e] : b \in blks, e \in Entry} \ {NoBlk}
Root(i, level)  == {i.indirect[level]} \ {NoBlk}

IndexBlks(i) == LET h3 == Root(i, 3)
                    h2 == Root(i, 2) \union EntriesOf(h3)
                    h1 == Root(i, 1) \union EntriesOf(h2)
                IN  h1 \union h2 \union h3

CoreOf(f) == [free |-> free, index |-> index, inode |-> inode[f]]

Apply(f, m) == /\ free' = m.free
               /\ index' = m.index
               /\ inode' = [inode EXCEPT ![f] = m.inode]

\* writeINode: the in-core inode goes to disk.
WriteINode(f) == dinode' = [dinode EXCEPT ![f] = inode'[f]]

NBlks(bytes) == (bytes + BlkSize - 1) \div BlkSize

\* writeINodeData: the blocks the write covers, in order, until one fails.
WriteData(m, off, len) ==
  LET first == off \div BlkSize
      count == NBlks(off + len) - first
      a[i \in 0 .. count] == IF i = 0 THEN [m |-> m, ok |-> TRUE]
                             ELSE IF a[i - 1].ok THEN Balloc(a[i - 1].m, first + i - 1)
                             ELSE a[i - 1]
  IN  a[count]

\* l2_write on an open file (within MAX_FILE_SIZE, an assertion of
\* writeINodeData): on success the size grows and the inode is
\* written; on failure (-EDQUOT) neither happens.
Write(f, off, len) ==
  LET a   == WriteData(CoreOf(f), off, len)
      end == off + len
  IN  /\ NBlks(end) - 1 <= LastFileBlk
      /\ taken' = IF a.m.free = free THEN taken ELSE free[Len(free) - Len(a.m.free)]
      /\ UNCHANGED wiped
      /\ IF a.ok
           THEN /\ Apply(f, IF end > a.m.inode.filesize
                              THEN [a.m EXCEPT !.inode.filesize = end] ELSE a.m)
                /\ WriteINode(f)
                /\ holed' = (holed \/ off \div BlkSize > NBlks(inode[f].filesize))
                /\ UNCHANGED failed
           ELSE /\ Apply(f, a.m)
                /\ failed' = TRUE
                /\ UNCHANGED <<dinode, holed>>

\* Mutants of Truncate: the block with the new end goes too; the last block
\* stays.
TruncateTooFar(f, length) ==
  LET size == inode[f].filesize
      last == NBlks(size) - 1
      cut  == IF length < size
                THEN BfreeDown(CoreOf(f), last, length \div BlkSize)
                ELSE CoreOf(f)
  IN  /\ Apply(f, [cut EXCEPT !.inode.filesize = length])
      /\ WriteINode(f)
      /\ holed' = (holed \/ NBlks(length) > NBlks(size))
      /\ UNCHANGED <<taken, failed, wiped>>

TruncateKeepsLast(f, length) ==
  LET size == inode[f].filesize
      last == NBlks(size) - 1
      cut  == IF length < size
                THEN BfreeDown(CoreOf(f), last - 1, NBlks(length))
                ELSE CoreOf(f)
  IN  /\ Apply(f, [cut EXCEPT !.inode.filesize = length])
      /\ WriteINode(f)
      /\ holed' = (holed \/ NBlks(length) > NBlks(size))
      /\ UNCHANGED <<taken, failed, wiped>>

\* l2_truncate.  Growing only sets the size.  Shrinking releases the last
\* block if the number of blocks changes, then one more for each whole block
\* left of the difference.
Truncate(f, length) ==
  LET m    == CoreOf(f)
      size == inode[f].filesize
      last == NBlks(size) - 1
      more == (last * BlkSize - length) \div BlkSize
      cut  == IF length < size /\ NBlks(length) # NBlks(size)
                THEN BfreeDown(m, last, last - more) ELSE m
  IN  /\ Apply(f, [cut EXCEPT !.inode.filesize = length])
      /\ WriteINode(f)
      /\ holed' = (holed \/ NBlks(length) > NBlks(size))
      /\ UNCHANGED <<taken, failed, wiped>>

\* l2_unlink of a closed file, or the last l2_close of an unlinked one:
\* freeINode.  The inode is then as good as a new file's.
Unlink(f) ==
  LET m == BfreeDown(CoreOf(f), NBlks(inode[f].filesize), 0)
  IN  /\ Apply(f, [m EXCEPT !.inode = EmptyINode])
      /\ WriteINode(f)
      /\ UNCHANGED <<taken, holed, failed, wiped>>

\* l2_read writes the inode back (for its access time).
ReadBack(f) == /\ dinode[f] # inode[f]
               /\ UNCHANGED <<free, taken, index, inode, holed, failed, wiped>>
               /\ WriteINode(f)

\* l2_unmount, l2_mount: the in-core inodes are forgotten.  On a full disk
\* the block that was handed out last is cleared.  Which of the blocks is
\* block 0 is left open.
Remount ==
  /\ inode' = dinode
  /\ wiped' = (free = <<>> /\ \E f \in File : taken \in IndexBlks(dinode[f]))
  /\ \E zero \in Block :
       index' = IF wiped' THEN [index EXCEPT ![taken] = [e \in Entry |-> zero]] ELSE index
  /\ UNCHANGED <<free, taken, dinode, holed, failed>>

Next ==
  /\ ~wiped
  /\ \/ \E f \in File, w \in Writes : Write(f, w[1], w[2])
     \/ \E f \in File, length \in Lengths : Truncate(f, length)
     \/ \E f \in File : Unlink(f)
     \/ \E f \in File : ReadBack(f)
     \/ Remount

Spec == Init /\ [][Next]_vars

-----------------------------------------------------------------------------
(* What inodes hold: the cells of an inode and of its index blocks, and     *)
(* what is in them.                                                         *)

CellsOf(i) == {DirectCell(k) : k \in DOMAIN i.direct}
              \union {RootCell(level) : level \in 1 .. 3}
              \union {EntryCell(b, e) : b \in IndexBlks(i), e \in Entry}

InCell(i, cell) == Get([free |-> free, index |-> index, inode |-> i], cell)

Holding(inodes) == {x \in UNION {{f} \X CellsOf(inodes[f]) : f \in File} :
                      InCell(inodes[x[1]], x[2]) # NoBlk}
Held(inodes)    == {InCell(inodes[x[1]], x[2]) : x \in Holding(inodes)}

FileBlk(f, k) == Bmap(CoreOf(f), k)

TypeOK ==
  /\ free \in Seq(Block)
  /\ taken \in Block \union {NoBlk}
  /\ index \in [Block -> [Entry -> Block \union {NoBlk}]]
  /\ \A i \in {inode[f] : f \in File} \union {dinode[f] : f \in File} :
       /\ i.filesize \in Nat
       /\ i.direct \in [0 .. NDirect - 1 -> Block \union {NoBlk}]
       /\ i.indirect \in [1 .. 3 -> Block \union {NoBlk}]
  /\ holed \in BOOLEAN /\ failed \in BOOLEAN /\ wiped \in BOOLEAN

\* Every block is in at most one place: one cell of one file or one position
\* of the free list, through any mix of writes, holes, failed writes,
\* truncations and unlinks; and the same holds for what the inodes on disk
\* lead to, which is what the next mount will see.  It ends when an unmount
\* overwrites an index block.  (balloc, bfree.)
NoAliasing ==
  ~wiped =>
    /\ \A inodes \in {inode, dinode} :
         /\ Cardinality(Held(inodes)) = Cardinality(Holding(inodes))
         /\ Held(inodes) \intersect ToSet(free) = {}
    /\ IsInjective(free)

\* And that happens only after a write ran out of blocks: one that succeeds
\* takes the block for the data last, so that the unmount of a disk that it
\* filled overwrites file data, and no index block.  (balloc, l2_unmount.)
WipedOnlyIfFailed == wiped => failed

\* As long as no file was given a hole and no write ran out of space, a file
\* has exactly the blocks its size calls for.  (l2_write, l2_truncate.)
SizeCoversBlocks ==
  ~holed /\ ~failed =>
    \A f \in File, k \in 0 .. LastFileBlk :
      FileBlk(f, k) # NoBlk <=> k < NBlks(inode[f].filesize)

\* Under the same condition no block is lost: each is free or in a file, so
\* bfree gives index blocks back as well as data blocks.
NoLeak ==
  ~holed /\ ~failed => Held(inode) \union ToSet(free) = Block

\* A call that makes a file shorter (l2_truncate, or l2_unlink down to
\* nothing) takes away the blocks past the new end, leaves the others where
\* they are, holes included, and touches no other file ("free the data blocks
\* and blocks in the inodes", Directories.c:900).
ShrinkExact ==
  [][\A f \in File :
       inode'[f].filesize < inode[f].filesize =>
         \A g \in File : \A k \in 0 .. NBlks(inode[g].filesize) - 1 :
           FileBlk(g, k)' = IF g = f /\ k >= NBlks(inode'[f].filesize)
                              THEN NoBlk ELSE FileBlk(g, k)]_vars

\* A block inside a file stays that file's block at that place until the
\* file is cut below it, whatever is done to it or to other files; only a
\* remount after a failed write may forget one, or overwrite the index block
\* that leads to it.  (balloc, bfree, writeINode, l2_unmount.)
MappingKept ==
  [][\A f \in File, k \in 0 .. LastFileBlk :
       \/ k >= NBlks(inode[f].filesize) \/ k >= NBlks(inode'[f].filesize)
       \/ FileBlk(f, k) = NoBlk
       \/ FileBlk(f, k)' = FileBlk(f, k)
       \/ failed /\ inode' = dinode]_vars
=============================================================================
