# A TLA+ model of the CS270 file system

This directory holds TLA+ modules that model the file system of this repository, TLC
configurations that check them on small instances, and TLAPS proofs of the main
properties for every instance. The modules are written from the C source; a definition
keeps the name of the function or variable it stands for where TLA+ allows it, and
`PROJECT.json` ("map") gives the lines each definition stands for.

- [1. The system](#1-the-system)
- [2. Modules](#2-modules)
- [3. Runs](#3-runs)
- [4. Proofs](#4-proofs)
- [5. What the checks found](#5-what-the-checks-found)
- [6. What is not modelled](#6-what-is-not-modelled)
- [7. Plan](#7-plan)

## 1. The system

A Unix-like file system in a disk file, in three layers, mounted through FUSE.

    fuseDaemon.c / InitFS.c          callbacks of FUSE, mkfs
    Directories.c        (layer 2)   l2_mount, l2_mkdir, l2_open, l2_read, l2_write, ...
    FileSystem.c         (layer 1)   makefs, inodes, data blocks, bmap / balloc / bfree
      SuperBlock.c  INode*.c  OpenFileTable.c  DBlkCache.c   the in-core structures
    DiskEmulator.c       (layer 0)   one lseek and one read or write of a block

The disk is a superblock, an array of inodes and an array of data blocks. The daemon is
started with `-s` (`README.md`, "How to run on FUSE"): the callbacks run one after the
other in one thread, and each runs to its end. So no two calls interleave, and there is no
lock in the code; the one thing that spans several calls, and so sees other programs' calls
in between, is the listing of a directory. What makes this code hard is the number of
places that record the same fact (an inode exists in the inode table, the inode cache, the
disk and the superblock's stack; a free block in the superblock, a cached list block and
list blocks on disk), long sequences of legal calls, calls that fail half-way (a full disk
is the usual case), remounts, and the death of the process, since the superblock is written
only by l2_unmount. Unmounting can do damage too: on a full disk it clears a block in use.

### Components

| component | state | operations | correct when |
|---|---|---|---|
| Data block allocator (FileSystem.c, SuperBlock.c) | in the superblock: count of free blocks, head of a chain of list blocks, the cached list block and its top; the list blocks themselves, which are free data blocks | makefs, allocDBlk, freeDBlk, l2_mount, l2_unmount | each block is free or held, never both, and none is lost; list blocks are never written over a block somebody holds |
| Data block cache and block I/O (DBlkCache.c, readDBlk, writeDBlk and their offset variants, readINode and writeINode at the disk) | 1024 direct-mapped sets and a size counter; on disk a superblock, blocks of inodes and data blocks | read, write, write part of a block, drop on free, read and write one inode of a block, l2_mount, l2_unmount | the cache is invisible: a read returns what was last written; the three areas of the disk do not disturb each other |
| Inode allocator (allocINode, freeINode, SuperBlock.c) | count of free inodes, a stack of up to four ids, the types of the inodes on disk | makefs, allocINode (scans the disk when the stack is empty), freeINode (drops the id when the stack is full), l2_mount, l2_unmount | no inode is given out twice, none is lost, whatever went through the stack |
| File block map (bmap, balloc, bfree, writeINodeData, l2_write, l2_truncate) | direct, single, double and triple indirect block ids of an inode, index blocks, file size, in core and on disk | write, truncate, unlink, read (writes the inode back), remount | a block is in one place of one file; a file has the blocks its size calls for; shortening a file releases exactly what it should |
| Open files (OpenFileTable.c, INodeTable.c, INodeCache.c) | open file table by path, inode table by id with reference counts, cache of inodes with no reference, link counts | l2_open, l2_close, readINode, writeINode, l2_unlink of an open file | the in-core inode is the newest; an unlinked file lives until its last close and no longer; the chains of the table and the list of the cache, which share the links of their entries, stay apart |
| Namespace (Directories.c) | directory files: entries of a name and an inode id, removed ones marked with id -1 | l2_initfs, l2_mkdir, l2_mknod, l2_unlink, l2_rename, l2_readdir, l2_namei | a tree; every entry leads to an inode in use and every inode in use has as many entries as links |
| File contents (readINodeData, writeINodeData) | bytes of the data blocks, the map of an inode, file size | l2_read, l2_write, l2_truncate, l2_unlink, a remount | a read returns what was written, zeros in holes, and never what another file left in a block where this one wrote; a call that fails changes nothing but a part of the range it names |
| Attributes | mode, owner, times | l2_getattr, l2_chmod, l2_chown, l2_utimens | single assignments |
| FUSE daemon (fuseDaemon.c) | none between calls; the kernel keeps the offset of a listing | l3_readdir; the other callbacks call one function of layer 2 | a listing returns each name that stays once, and ends |
| Disk emulator (DiskEmulator.c) | the disk file, its number of blocks | initDisk, openDisk, readBlk, writeBlk | nothing beyond the end is written |
| messages, tests | - | - | - |

How they interact: layer 2 calls layer 1 only through functions. freeDBlk and allocDBlk
are called by balloc and bfree (FileBlocks) and nowhere else, besides l2_unmount and
l2_mount, which read and write the same superblock fields. Every access to a data block,
list blocks included, goes through the block cache. allocINode reads the types from the
disk, behind the inode table and cache; it relies on freeINode and writeINode writing
them through.

### Hazards

`PROJECT.json` ("hazards") lists them with their lines: what a long sequence of calls, a
full structure, a boundary between two levels of index blocks, a failed write, a
remount or a crash can break, and which property looks at it. Those without a property
say why.

## 2. Modules

    FreeStack  <--refines-- DBlkAlloc   <--extends-- DBlkCrash
                                                         ^
                                                         +-- DBlkAllocProofs
    BlockStore <--refines-- DBlkCache   <-- DBlkCacheProofs
                            INodeAlloc  <-- INodeAllocProofs
                            FileBlocks  <-- FileBlocksProofs
                               |           (its free blocks are the stack of FreeStack)
    ByteFile   <--refines-- FileIO      <-- FileIOProofs
                               |           (its blocks are the contents of BlockStore)
    FileTree   <--refines-- Directories <--extends-- DirCrash
                            |  |    ^      (its inodes are given out as in INodeAlloc)
                            |  |    |      (its inode table and cache are the lists of INodeLists)
                            |  |    +-- DirectoriesProofs <-- FileTreeProofs
                            DirSlots
                               |
                            Readdir     <-- ReaddirProofs
                            INodeLists
    MC<module>              constants for TLC, with one or more .cfg files

Recursion is written as recursive functions and folds, never as RECURSIVE operators, so that
every module of the model can be proved about.

The modules meet at what they promise each other. DBlkCache implements BlockStore, an array of
blocks and an array of inodes, so the other modules use plain functions for the data blocks
and for the inodes on disk. DBlkAlloc implements FreeStack, so FileBlocks uses a sequence for
the free blocks. FileBlocks checks that nobody frees a block twice, which DBlkAlloc takes as
the guard of freeDBlk (`b \in owned`), and that the index blocks keep the map of a file, so
FileIO has a plain function from file blocks to blocks. INodeAlloc shows that allocINode
returns any inode that is FREE on disk, so Directories takes one.

**DBlkAlloc.** The variables are the fields of the superblock with their C names, in
core and on disk (`diskSB`), and the data blocks read as list blocks (`dblk`). `owned`
is a ghost: the blocks callers hold. AllocDBlk is allocDBlk: TakeSlot takes the top of
the cached list block, TakeHead hands out the list block itself, zeroes it and loads the
next one. FreeDBlk is freeDBlk with its three branches, FreeFirst (no block is free),
FreeSpill (the cache is full and goes to its block) and FreeSlot. WriteDBlk is a caller
that writes to a block it holds, with contents that may read as a list block. Unmount
writes the cached list block and the superblock, Mount reads them. `Init` is makefs,
which chains the blocks at multiples of `CacheSize`; the last one may be short.

What the list is, is said of a record with the fields of the superblock, the blocks and the
set of free blocks: `InCore` for the superblock in core, `OnDisk` for the one on disk, `View`
for whichever of them counts. **FreeStack** is what callers see of it: a stack. The
refinement mapping (`AllocOrder`, the `OrderOf` of the view) walks the chain from the head and
lists the blocks in the order in which allocDBlk would return them.

**DBlkCrash** extends DBlkAlloc with the death of the process at any point between two
calls, and in l2_unmount between its two writes. Data blocks are written through, the
superblock is not, so the next mount sees the superblock of the last l2_mount or l2_unmount.
After an allocation that list names a held block, and nothing in the code notices; this
is recorded in `damaged`, where the behaviour stops. The module is about all the other
crashes: frees may have spilled list blocks over the disk, and the old list must still
be whole.

**DBlkCache** has the whole disk as an array of blocks (`diskFile`), the sets of the
cache, the size counter and a client's last call (`last`: of what, which bytes it read or
wrote). Without `last` the refinement would be hollow: a read of the wrong block would
pass for a read of the other block. ReadDBlk covers readDBlk and readDBlkOffset,
WriteDBlkOffset is the read-modify-write of writeDBlkOffset. FreeDBlk is the part of
freeDBlk that drops the block; it is not tied to who holds the block, so the module allows
more than the program. ReadINode and WriteINode are the parts of readINode and writeINode
that go to the disk: an inode is one position of an inode block, which WriteINode reads,
changes and writes back. Where the three areas begin and how long the disk is, is computed
as makefs and l2_mount do (`diskINodeBlkOffset`, `diskDBlkOffset`, `nBytes`, `numBlk`), and
WriteBlk has writeBlk's check of the block id: a disk that were too short would lose
writes without an error. Unmount and Mount write and read the superblock. **BlockStore** is
what that amounts to: data blocks, inodes and a superblock, three stores without a
connection.

**INodeAlloc** has the count, the stack and its top, the superblock on disk, and a type
per inode on disk (`FREE` or `USED`, which stands for INIT, REGULAR_FILE and the like).
AllocINode fills an empty stack by the scan of allocINode (`Scanned`, `ScannedCache`:
the k-th free inode goes to place k), takes the top and marks the inode on disk. The top
of the stack is a signed int in core and an unsigned int on disk (`ToUINT`, `ToINT`):
an empty stack is -1 and goes through 2^32 - 1.

**FileBlocks** has the inodes in core and on disk (`inode`, `dinode`), the blocks read as
index blocks (`index`) and the free blocks. A *cell* is a place for a block id: a direct
block, one of the three indirect roots, or an entry of an index block; `Route(k)` is the way
from the inode to file block k. Bmap follows it; Balloc fills the empty cells on it, one
allocDBlk at a time, the data block last, and leaves what it has done when the disk is full;
Bfree releases the block at its end and then, as the code does, each index block whose entry 0
was the one released. Write, Truncate, Unlink (freeINode), ReadBack (l2_read writes the inode
back) and Remount are the callers. On success Write puts the inode on disk, on failure only
the in-core inode knows of the new blocks. Remount is l2_unmount and l2_mount: if no block is
free, the unmount clears the block that was handed out last (`taken`). When that is an index
block of a stored inode, its entries lead to block 0 from then on; this is recorded in
`wiped`, where the behaviour stops. A block that is free or holds data reads as ids no inode
may follow (`Junk`), so that a stale index block shows up as aliasing. Paths, descriptors and
permissions are left out: each file is one inode, always reachable.

**FileIO** is about bytes: `data` has the bytes of each block, and an inode is a size and a
map from file blocks to blocks, in core and on disk. `Chunks` is the way readINodeData and
writeINodeData cut a range: the rest of the first block if the offset is inside a block,
then block by block. ReadINodeData is the pure function that l2_read returns. Write takes
blocks off the free list where the file has none; what such a block held before stays in
the bytes that are not written, unless allocDBlk wiped it (`wiped`: it wipes the blocks
that hold the free list). Without enough blocks the chunks before the first missing one
are written, the inode is not, and the caller gets an error. Truncate, Unlink and Read are
l2_truncate, freeINode and the write-back of l2_read. Remount is l2_unmount and l2_mount,
and clears the block that was handed out last (`taken`) if no block is free. Writes of no
bytes are left out.
**ByteFile** is the abstract file: a sequence of bytes as reads see it, and one that the
next mount will find. It says where old bytes may show up: in a hole of a block that a
write reaches, and in what a file grows over. All other bytes are the ones last written, but
for one block that a remount of a full disk may clear.

**DirSlots** has what the calls do to the slots of one directory: find a name, take the
first removed slot or append one, write over all slots of a name.

**Directories** is layer 2 with the in-core inodes. `dir` has the slots of each directory, a
name and an id, where a removed slot has id -1 and, after an unlink, still its name. An inode
is in `disk` and possibly in `table` (INodeTable.c, with its reference count) or in `cache`
(INodeCache.c); `open` is the open file table in the order of its list. In the code table and
cache are linked lists that share the links of their entries. That they can be taken for two
functions holds until an inode that has others behind it in its chain goes to the cache, at
the last l2_close of a file whose id equals that of an earlier opened one modulo 1024. Close
is every other l2_close; CloseRunsOn is that one, after which those others are found in the
cache as well (`same_bin`), and the module ends. What a file or an attribute holds is one bit
(`mark`). A call goes through many functions that each change several of these, so they are
operators on a record of the state (`State`), and a call ends in `Become`. Namei, Walk and
WalkStep are l2_namei, which asks the open file table first and leaves in the inode cache what
it reads on the way. Create is l2_mknod and l2_mkdir, Unlink is l2_unlink with its recursion
(`UnlinkEntry`), which is one level deep because the directories below the root hold only
files (`PathAssumption`). Rename, Open, Close, Read, Write, Chmod (for l2_chown, l2_utimens
and l2_truncate too: read an inode, change it, write it) and Mount are one call each. Mount is
the end of the daemon through l2_unmount, which FUSE calls at the end of its loop, also after
a signal and with files open, and the next l2_mount. MountWipes is the same on a full disk,
when l2_unmount clears the block that was handed out last: a run of slots of a directory reads
as zeros, or what a file holds has changed (`wiped`), and the module ends. A death without
l2_unmount is in DirCrash. GetAttr stands for every call that only looks paths up, those that
return early included. The calls are made as the kernel makes them: it opens files and no
directories, renames what is listed and moves nothing below itself. An assertion that fails
ends the process (`aborted`).
**FileTree** is what a caller sees of all this: a function from paths to files, the files
that are open under a path, and a node (type and contents) per file, now and as the next
mount will find it. Slots, tables, link counts and the freeing of inodes do not show in it.
Two ghosts of Directories: `newest` is what was last stored in each inode; `odd` collects
the circumstances (`Oddities`) in which the code does not do what one would like. The
properties say which of them they exclude. After the fatal ones (`Fatal`: `same_bin`,
`wiped`, and the `crash` of DirCrash) the module takes no step, and its properties promise
nothing.

**INodeLists** has the lists themselves: entries with an inode id and the link `next`
(`heap`), the first entry of each bin of the inode table (`hashQ`), head, tail and length of
the inode cache. PutINodeEntry, RemoveINodeEntry, CacheINodeEntry and RemoveINodeCacheEntry
are the functions of INodeTable.c and INodeCache.c of these names. The actions are what
the calls do to one inode: Read (a lookup comes across it), Open and Close (the first and
the last one of an inode; the others only count), Unlink (read it, free it unless it is in the
inode table, free its entry in the cache), Create and Mount. What an inode holds and where its
names are does not matter here. `open` keeps the entries that the open file table points to
and, as a ghost, whose they were. The behaviour stops where a list runs into freed memory or
a circle (`Proper`).

**DirCrash** lets the process of Directories die, between two calls or inside l2_mknod,
l2_mkdir, l2_unlink or l2_rename after some of their writes; the pieces of those calls are the
operators of Directories (`Initialised`, `Entered`, `TakeLink`, `UnlinkAll`, `FreeUnlessOpen`,
`TakeName`). A slot of 260 bytes may lie in two blocks and is then two writes: the process may
die with the name written and the id not (`EnteredHalf`, and in l2_rename the name cleared and
the id not). The behaviour stops at the crash: the superblock on disk, with the stack of free
inodes and the list of free blocks, is then older than the inodes, nothing at l2_mount
compares them, and so nothing can be promised of the calls after it. What remains in the data
blocks of a directory that was being freed is not modelled.

**Readdir** is a listing: l3_readdir gets an offset, l2_readdir finds the directory by its
path and reads one slot at a time, removed ones are skipped, one entry goes back with the
offset after it. `listing` and `offset` belong to the program that lists and to the kernel;
between two of its calls others create, unlink and rename entries, move them in and out,
and remove or make the directory itself. An entry's inode does not matter. A full buffer of
the kernel is left out: l3_readdir returns one entry per call, which fits. The error past
the last slot is what ends a listing. What is promised is about names: a file that is
renamed during a listing may be returned under both names or under neither.

## 3. Runs

Only Readdir assumes fairness, of the listing itself: WF_vars(Read) says that a program
which lists a directory goes on calling, and that the daemon, which handles one call after
the other and waits for nothing, answers. Nothing is assumed of the other programs, which
may change the directory forever. Elsewhere there is no liveness property: each call runs
to its end by itself, nothing waits, and no call is promised to be made.

| run | configuration | properties |
|---|---|---|
| dblk_alloc | MCDBlkAlloc.cfg: 5 blocks, 2 slots, callers' data that looks like a list | TypeOK, ChainInv, AllocFresh, AllocatorKeepsClientData, ImplementsFreeStack |
| dblk_crash | MCDBlkCrash.cfg: 4 blocks, 2 slots | CrashKeepsListSound, CrashLosesOnlyFrees |
| dblk_cache | MCDBlkCache.cfg: 3 blocks, 2 sets, 2 positions, bytes 0 and 1, 2 inodes in one block | Coherent, SizeExact, ImplementsBlockStore |
| inode_alloc | MCINodeAlloc.cfg: 6 inodes, stack of 2, 4-bit unsigned ints | TypeOK, FreeCountExact, StackSound, INodeFresh |
| file_blocks | MCFileBlocks.cfg: 2 files, 5 blocks, 1 direct block, 2 entries, 2-byte blocks | TypeOK, NoAliasing, ShrinkExact, MappingKept, WipedOnlyIfFailed |
| file_blocks_dense | MCFileBlocksDense.cfg: the same with 28 blocks, no holes | SizeCoversBlocks, NoLeak |
| open_files | MCOpenFiles.cfg: 2 inodes besides the root, in one bin, 2 names, 3 opens | TypeOK, OpenFilesAgree, NewestINode, TableOrCache, WrittenThrough |
| inode_lists | MCINodeLists.cfg: 3 inodes of one bin and one of another, 4 entries | ListsInOrder, RunsOnIntoChain |
| namespace | MCNamespace.cfg: 3 inodes besides the root, 2 names, 1 open, a crash at any point | Tree, Freed, OpenFileStays, ImplementsFileTree, CrashImage, CrashIsLocal |
| file_io | MCFileIO.cfg: 2 files of up to 3 blocks, 3 blocks of 2 bytes, byte values 0 to 2 | TypeOK, ReadsContent, ImplementsByteFile |
| readdir | Readdir.cfg: 3 names besides "." and "..", 5 slots | TypeOK, ListedOnce, ListingEnds |
| rename_above_open_file | MCRenameOpen.cfg | OpenCountsMatch, violated |

**The block allocator.** ChainInv says what the free list is: the count is the number of
free blocks, and there is a chain of list blocks, from the oldest to the cached one,
whose live cells hold every free block once and nothing else. The oldest list block may
be short at makefs, hence the `base` slot it starts at. AllocFresh and
AllocatorKeepsClientData are what callers need, ImplementsFreeStack what they see, with
remounts invisible. With 5 blocks and 2 slots the chain has up to three list blocks, the
oldest of them short at makefs, so that a spill happens on top of a spilled list; each of
the five branches of allocDBlk and freeDBlk happens with and without a remount before it.
What callers write reads as a list of low block ids, the worst case for a stale head.

**Crashes.** CrashKeepsListSound: the list of the last sync never names a block that
somebody holds or a block twice. CrashLosesOnlyFrees: what it lacks is exactly the
blocks that were freed since a sync and then lost by a crash. CHECK_DEADLOCK is off since
a damaging crash ends a behaviour.

**The block cache and the disk.** Blocks 0 and 2 share a set, the two inodes share a block.
Coherent is the invariant behind ImplementsBlockStore; SizeExact is about the unsigned
counter, which wraps if a block that is not cached is counted out. The run looks at two
superblocks only (`TwoSuperBlocks`), which is enough to tell an old one from a new one;
the proofs are about all, and about every layout of the disk.

**The inode allocator.** Six inodes and a stack of two are enough for a stack that
overflows (ids dropped), runs empty with two, one and no free inode left on disk, and
is filled from disk after frees in any order. Four bits are the
smallest width that `SizesAssumption` allows for six inodes.

**File blocks.** One direct block and two entries per index block put file block 0 in
the direct range, 1-2 in the single, 3-6 in the double, 7-14 in the triple one. *file_blocks*
mixes writes in and across blocks, holes before each range, failed writes (five blocks
are soon used up), truncations, unlinks and remounts. It is symmetric in files and
blocks: no action compares either, and the free list starts in any order (`AnyOrder`),
since a fixed one would break the symmetry. *file_blocks_dense* has blocks enough for
two files to grow through all the ranges. It leaves behaviours at the first hole or
failed write (`Dense`), where its properties promise nothing, and identifies states that
differ only in which block is where (`Shape`): for a dense file, the sizes determine the
set of file blocks and the number of index blocks, and renaming the blocks maps steps to
steps. Both properties are invariant under such a renaming.
ShrinkExact and MappingKept are action properties over all files, not only the one
the call is for: no other file may lose or move a block. Five blocks are full after a few
writes, also by writes that fail with an index block as the last one they got, so that
remounts of full disks happen with each kind of block. WipedOnlyIfFailed says when such a
remount does more harm than to clear file data.

**File contents.** Blocks of two bytes are the smallest that a range can cut. The writes of
MCFileIO are one inside a block, one from the middle of a block across two boundaries, one
past a hole and one that covers three blocks in part; three blocks for two files of three run
out soon. ReadsContent compares ReadINodeData with the bytes of the file for all offsets and
lengths; ImplementsByteFile is about what each call does to both files, in core and on disk.
Three blocks are full soon, and the remount of a full disk is among the steps; ByteFile says
what it may clear. States are told apart by what blocks contain and not by their ids
(`Shape`): no action compares ids, and renaming the blocks maps steps to steps.

**Listings.** Five slots hold "." and ".." and all three names, with removed slots before,
between and behind them. ListedOnce is about the names in `stayed`, those that were in the
directory from the beginning of the listing on. ListingEnds holds since each call moves
the offset and a directory has at most MaxSlots slots: l2_mknod and l2_mkdir use a removed
slot before they make it longer, and refuse one of MAX_FILE_NUM_IN_DIR slots.

**Directories.** Both passing runs continue after failed writes and stop at any other
oddity (`Plain`); the state with the oddity is still checked. *open_files*: three opens
let one file be open twice, for different operations, while another is open too, and two
inodes let one of them be unlinked while open and its name be used again. They share a bin of
the inode table, so that CloseRunsOn happens, after opens and closes in every order. The run
stops there, but a file that is closed while another is open is still met: when it was opened
first. With a bin for each inode the run has 51271 states, with one bin 49599. OpenFilesAgree
is what the assertions in l2_open and l2_close rest on, and more: the open file table
answers a lookup as the directories would. WrittenThrough is about the process ending
between two calls. *namespace*: three inodes are a directory with two files or a file
beside it; two names give every order of removed and live slots in a directory of two (a
directory grows only when it has no removed slot, so it never needs a third here: with
MaxSlots = 3 the states are the same). Freed and OpenFileStays are the two sides of
unlinking an open file. ImplementsFileTree says of each step without an oddity that it is
one of FileTree under the mapping in Directories, which reads the paths off the slots
(`PathsTo`), the nodes off the newest copy of an inode and the handles off the open file
table. Names and inodes are symmetric: they are only compared for equality, and inode 0 is
a constant of its own, which the runs leave out. CHECK_DEADLOCK is off since a failed
assertion and a fatal oddity end a behaviour.

**Inode lists.** Three inodes in one bin give chains in which the entry that leaves is the
first, the last or one between; the fourth stands beside them in the cache and has a chain of its
own. Four entries are one for each inode. ListsInOrder says that the lists are what Directories
takes them for, to the order of the entries (ChainsAreOpen, CacheIsList), and that no open
inode is freed, until an entry with others behind it goes to the cache; RunsOnIntoChain says
what the lists are then, which is what CloseRunsOn of Directories has. The run goes on from
there, to the states of section 5. CHECK_DEADLOCK is off since a circle ends a behaviour.

**Crashes in a call.** *namespace* runs DirCrash: from each of its states the process may die,
between two calls or inside one, and that ends the behaviour. CrashIsLocal compares the disk
after the crash with what was last stored before it: all but the inodes of the interrupted
call are as they were. CrashImage says what those are like: see section 5. After a failed
write it is only about the entries, since the disk is then behind; with other oddities nothing
is said.

Every property has a mutant in `PROJECT.json`: a change to a definition as a plausible
bug would make it, under which the run must find the property violated. The mutants are
the operators beside the definitions they change ("Mutant of ...").

## 4. Proofs

Checked by TLAPS for every value of the constants that satisfies the assumptions, which
are those makefs asserts (at least as many blocks as a list block has slots, at least as
many inodes as the stack has places, inodes that fill their blocks), the sizes being positive,
and room in a directory for "." and ".."; for FileIO also writes and lengths within the largest
file. `ContentsAssumption` and `ByteAssumption` only say what a block may hold.

| module | theorems |
|---|---|
| DBlkAllocProofs | TypeCorrect, FreeListExact (ChainInv), NoDoubleAllocation (AllocFresh), ClientDataKept (AllocatorKeepsClientData), IsFreeStack (ImplementsFreeStack), CrashSafe (CrashKeepsListSound), CrashCost (CrashLosesOnlyFrees) |
| DBlkCacheProofs | TypeCorrect, CacheCoherent, SizeCounted, CacheIsTransparent (ImplementsBlockStore) |
| INodeAllocProofs | TypeCorrect, FreeINodesCounted, StackHoldsFree, NoDoubleINode (INodeFresh) |
| FileBlocksProofs | TypeCorrect, OnePlace (NoAliasing), SizeCovers (SizeCoversBlocks), Shrinks (ShrinkExact), KeepsMapping (MappingKept), NoneLost (NoLeak), WipedIfFailed (WipedOnlyIfFailed) |
| FileIOProofs | TypeCorrect, Reads (ReadsContent), IsByteFile (ImplementsByteFile) |
| DirectoriesProofs | TypeCorrect, Newest (NewestINode), OneInCore (TableOrCache), Through (WrittenThrough), OpenStays (OpenFileStays), CountsMatch, TreeKept (Tree), OpenAgrees (OpenFilesAgree), AllFreed (Freed) |
| FileTreeProofs | IsFileTree (ImplementsFileTree) |
| ReaddirProofs | TypeCorrect, NamesListedOnce (ListedOnce) |

*The block allocator.* The inductive invariant is `TypeOK /\ ChainInv`: ChainInv is
already what each branch needs to know, since it says where every free block is. The
existential chain is the witness to follow: taking a slot and filling one remove or add a
cell at the top (DropCell, AddCell), taking the head drops the last list block of the
chain, a spill appends one, the first free starts a chain of length one. That a new chain
has at most `NDBlks` list blocks follows from their being different (ChainLength). The
five branches are stated as relations of a record before and one after (TakesSlot,
TakesHead, AddsFirst, AddsSpill, AddsSlot), so that the same lemmas serve the list in core
and the one on disk. The other actions change no live list block (SameList); for WriteDBlk
this is where `owned` and the cells being free blocks come together. Init is the longest
part: it maps the blocks of the disk to the cells of the chain makefs writes, by division
with remainder. ClientDataKept needs that the cached list block is itself free (HeadFree),
which holds in l2_unmount too as long as a block is free, and fails there on a full disk
(section 5).

That the allocator is a stack (IsFreeStack) says more than that it keeps the free blocks: it
says in which order they come back. AllocOrder follows the chain downwards. The cells are
numbered from the oldest one (CellNumbers); along a chain, the k-th entry of AllocOrder is
what is in the k-th cell from the top (OrderOfChain, by induction over k). A branch then
either takes away the last cell or adds one, and leaves what is in the others (PopCell),
so it is a pop or a push of FreeStack; an unmount, a mount and the writes of callers leave
every cell (SameOrder). `Len(AllocOrder)` is the count of free blocks, so both fail to find
a block at the same time.

*Crashes.* The property is about the list which the next allocations come from; the inductive
invariant (CrashInv) is about two lists at once. As long as nothing was allocated since the
last sync, (1) the list in use is sound for the free blocks that were not lost in earlier
crashes, and (2) the list on disk is sound for those that were free at the sync already.
Freeing keeps (2) although it writes to the disk: the list block that a spill writes is
either one that was freed since the sync, and so is not in the old list, or the one that was
cached at the sync with what the old superblock says was in it (SpillIsSafe). The same fact
covers a crash between the two writes of l2_unmount. A crash makes (2) the list in use; the
five branches and the other steps are the same lemmas as before.

*The block cache and the disk.* The inductive invariant is TypeOK, Coherent and SizeExact.
A read returns what is on disk (LookupIsDisk), from which each step is a read, a write or a
stutter of BlockStore. The rest is the arithmetic of the layout: the superblock, the
blocks of inodes and the data blocks follow each other without a gap or an overlap and
fill the disk (INodeBlks, AreasFillDisk), so that writeBlk never refuses one of them, and
two inodes differ in their block or in their position (INodePlace, INodesApart). From that,
a write to one area is the write of BlockStore there (DBlkWritten, INodeWritten,
SuperblockWritten) and leaves the other two alone (AreasStay).

*Listings.* The inductive invariant says that live names are in one slot each (Good), and
that the names which stay have been returned once if their slot is before the offset and
not yet if it is behind (Passed). A call keeps Passed because what is live after it was in
the same slot before, or is new (Follows; PutSlotGood and OverwriteGood for the two ways to
write slots). That PutSlot finds a *first* removed slot is WellOrdered.

*File blocks.* NoAliasing counts the places of a block. The proof does not count: it gives
each block a label, the cell that holds it, with the file the cell belongs to and its
height above the data, or none. The invariant (IInv) is that there is one labelling for all
files such that what a cell of an in-core inode holds has this cell for its label (Forest);
a block in two cells would need two labels. Free blocks have none, and the free list has
no block twice. An inode on disk has the direct blocks and roots of the in-core one or fewer
(Under), so that what is in core speaks for the disk too. Filling a cell labels a block
that had no label (FillForest). Releasing one takes its label away, and with an index block
the labels of what is below (ReleaseForest). Bfree releases an index block when its entry 0
was the block released, while other entries may still lead to blocks: their labels have
the cell of a block that is free, and the heights are what tells this apart from a label
that is in use. The loops over levels and blocks (Descend, Bfree, BfreeDown, WriteData)
each keep an invariant of their own (OnTheWay, Unfreed), by induction over the steps of the
loop (UpTo).

*The places of file blocks.* SizeCoversBlocks, ShrinkExact and MappingKept say which block is
where. Bmap follows a route, the digits of the block number; no two numbers have the same
one (`OneWay` and the lemmas on routes before it). With the labels of the last paragraph, two
ways that meet in a cell are the same way from the root to there, so a store in a cell
changes what is at the places whose way passes through it and nothing else. So balloc gives a
block to one place of one file, and what it adds when it fails is at no place at all
(BallocMaps); bfree takes the block from its place, and with an index block, which goes only
if the rest of the route is zeros, it takes those behind it (RouteLeast), which BfreeDown has
emptied before (BfreeDownMaps). A call then either adds places up to its end (Wrote) or takes
the places from the new end on (Cut). A remount brings back the inodes on disk: the invariant
(MInv) also says that those are the ones in core unless a write failed, and that the sizes
agree always (Synced).

*The block a full disk loses.* The invariants of the last two paragraphs hold as long as no
index block was cleared. That l2_unmount clears data only, unless a write failed, is
WipedOnlyIfFailed. The last block that a write gets, if it succeeds, is one for data, which in
the model reads as itself. As long as the disk stays full it does so (LastIsData): a call that
frees nothing writes to no block but those it gets. And an index block in use does not read as
itself, since its entries hold blocks whose label has a smaller height than its own.

*No block is lost.* NoLeak needs what IInv does not have: a block is free or in a cell (Owned),
and an index block has its entry 0 in use (Rooted), for as long as no file was given a hole
and no write failed. Without holes the file blocks are used from the first one on and given
back from the last one on. So the first missing block has zeros on its route behind the
last index block that is there (FirstMissing), and balloc, when it adds an index block, goes on
into its entry 0; while it is on its way, Rooted has one exception, the index block it
has just added (OnSound). When bfree releases the last file block and the rest of its route is
zeros, the other entries of the index block are empty, since behind any of them would be a
way of zeros to a file block further up (ZeroWay, EntriesGone), so nothing is cut off. Then
the cell that holds a block is one its file's inode leads to (CellReached).

*File contents.* The inductive invariant says that no block is in two places of the in-core
inodes and the free list (Apart), and that an inode on disk has the size of the one in core
and of its blocks all or fewer (Under), since a write that runs out of blocks does not store
the inode. The rest is arithmetic: a position in a file is one offset in one block (PlaceOf,
Placed), and the chunks of a range have each of its bytes once, at that place (ChunksAre,
ChunksCover, HasPlace), from which a read returns the bytes of the file (ReadIs). A write
changes what its chunks have and keeps the rest but for the bytes of blocks that are new
(WriteMoves, Moved). If all blocks were found, that is ByteFile's Written. If not, the chunks
that were written are those before the first block that is still missing, and bring exactly a
beginning of the buffer (BroughtBefore, WrittenPart); of these bytes the inode on disk leads
to some (WrittenSome). The n-th missing block gets the n-th free one, so two of them never get
the same (RankFields, TakenApart). A cut releases no block with a byte that stays
(CutBlksAre).

*Directories.* A call is a composition of a dozen operators on the state, and so are the
proofs: each operator has a lemma about what it leaves (the ...Fields lemmas) and one that it
Keeps the state Sound. Sound says that inode table and inode cache share no inode, that the
open file table agrees with the reference counts of the inode table, and that an inode in core
is `newest`. After a fatal oddity nothing is claimed but TypeOK, and the module takes no step,
so the invariant of the specification is `IInv \/ Ended`; the actions that end it are
CloseRunsOn and MountWipes. Keeps is transitive, so a call keeps what all of its parts keep,
in every order, also in the recursion of l2_unlink and the loop of l2_rename. Opening and
closing change the counts and have a relation of their own (Moves). What the disk has is
`newest` as long as no write failed since the last mount (StoredUnlessFailed). CountsMatch is
about every state, those with other oddities included: an open file has as many operations as
its inode has references, which is the assertion of l2_close. The assertion of l2_open can
fail (section 5).

*Names.* Tree is not inductive, and neither is OpenFilesAgree: whether a path that is open
still leads to its file depends on what the directories have, and whether an inode may be
freed on who has it open. The inductive invariant (NInv) adds to IInv, as long as nothing
but harmless oddities has happened, that the names are in order (Named) and agree with the
open files (OpenNamed), and, as long as no process ended with files open, that nothing
is kept without need (NoneKept). Named has four parts: a name is once in a directory and an
inode in one directory at most (OneEntry), an entry is in a directory in use and leads to an
inode in use (EntriesInUse), what is in use has an entry (AllEntered), and has one link
(OneLink). They speak of the entries of a directory as a set (At), not of its slots, and of
paths as a relation (LeadsTo), which l2_namei's walk computes (WalkLeads): from there on the
order of the slots and removed ones do not matter. Four lemmas say what a change of the entries
does to Named and OpenNamed: a new entry (EnterNamed), one that goes (UnlinkNamed), one that
moves (MoveNamed), and none (SameNamed). The rest of a call's proof says which of them the call
amounts to, from the ...Fields lemmas; for l2_unlink of a directory it is an induction
over the slots, in which what is left of the directory is described after each of them
(UnlinkBelow), and every open file below it has lost its path at the end (BelowLost).
Each call ends with a lemma that it Settles, that is, restores the invariant; l2_open also needs
OpenNamed to show that its assertion holds: an inode that is open has no second path
(PathOne), so there is no second entry in the open file table with fewer operations.
A call that fails for lack of a block, or another oddity, promises nothing of names; the
theorems TypeCorrect to CountsMatch hold then too.

*What a caller sees.* IsFileTree says that Directories implements FileTree. What FileTree
keeps is a function of the state: the names are the paths that lead to an inode (NamesOf), the
nodes are `newest` and what the disk has of it, where there is a link or a reference (NodesOf,
StoredOf), the handles are the open file table (HandlesOf). The mapping by which Directories
instantiates FileTree reads the paths off the slots; that this gives the same names follows
from OneEntry, by which each path has one inode (NamesOfIs, LeadsInIs). The invariant (FInv)
adds to NInv that a directory is on disk as it was last written (DirsStored): l2_write with no
block left keeps a file from the disk and is harmless, but a remount must bring back a
directory as what it is. A call is then a step of FileTree by the lemmas that NInv rests on:
Created, Unlinked and MovedTo say what it does to At and LeadsTo, Opened, Closed and Marked
what it does to inodes and tables, so what remains is to read that as a change of the four
functions. When l2_rename moves a directory, all paths below it change at once, as in
FileTree's Rename (RelinkedLeads, RelinkedOnly); l2_unlink of a directory takes the names
below it and frees what is not open (UnlinkedNames). A step that only moves an inode between
the inode table, the cache and the disk changes none of the four functions (AllSameShown).

*Induction.* The library's theorems on induction take an operator as a parameter, which the
provers cannot instantiate. The modules of proofs begin with what they need of two facts in a
form with sets: a set of numbers has a smallest one (WellOrdered), from the library's theorem
on minimal elements of a well-founded relation, and what holds of 0 and goes from n to n + 1
holds up to N (UpTo). A proof takes the set of the numbers for which its formula holds.

*The inode allocator.* The inductive invariant is TypeOK, FreeCountExact and
StackSound. The work is in the scan: the rank of a free inode is its place in the
stack, different free inodes have different ranks (RankInjective), and every rank below
the count occurs (RankOnto, by counting), so the scan fills the stack from the bottom
without a gap. ConversionsInverse is the way of the top of the stack to disk and back.

Only model-checked: CrashIsLocal and CrashImage of DirCrash, which are about the writes of a call
one by one; and ListingEnds, which is liveness under fairness and so, like ENABLED, out of
the prover's reach; and INodeLists, whose invariants are about the shape of linked lists that
a walk of their links finds.

## 5. What the checks found

*A directory above an open file is renamed* (rename_above_open_file). l2_rename changes the
path in the open file table for the renamed path only. For a file below it the table keeps
the old path; opening the file by its new path makes a second entry for the inode, and the
assertion on the counts in l2_open ends the process.

The modules have more behaviours that one would not want. They have no run of their own;
the properties say that they promise nothing of them, through `odd` in Directories,
`failed` and `wiped` in FileBlocks and `stale` in INodeLists, or in their text.

- Unmounting a full disk overwrites a block in use (`wiped`). l2_unmount always writes the
  free block cache to block pFreeDBlksHead. allocDBlk hands that block out as the last one and
  leaves pFreeDBlksHead unchanged, so on a full disk the block belongs to a file, and the
  unmount fills it with zeros: bytes of a file, slots of a directory, or, after a write that
  failed, an index block, whose entries then lead to block 0, which another file may have.
  While a block is free nothing is lost. AllocatorKeepsClientData, ImplementsByteFile,
  NoAliasing with WipedOnlyIfFailed, and ImplementsFileTree say this where the damage shows.
- An open inode can be freed (`same_bin`). A chain of the inode table and the list of the inode
  cache go through the same link of an entry, and neither removeINodeEntry nor
  cacheINodeEntry clears it. Let i and j = i + 1024 be open (mkfs makes 2^20 inodes), i opened
  first, so that j's entry leads to i's. When j is closed, its entry goes to the end of the
  cache and still leads to i's entry in the table: i is now in both. l2_unlink of i frees that
  entry, which the open file table still points to. Or j is opened again: its entry goes back
  into the chain but the cache's tail still points to it, and the next inode that is cached
  takes the place of i behind it; i is open and in no list, hasINodeEntry does not find it,
  and l2_unlink frees the inode, against its comment (Directories.c:667). INodeLists has these
  behaviours; ListsInOrder says that all is well until j is closed.
- A file with a hole loses index blocks when it is unlinked. bfree releases an index block
  when its entry 0 is released; if entry 0 is a hole, bfree returns before that, and the
  index block stays allocated with no file leading to it. It loses space and never aliases:
  NoAliasing holds with holes, NoLeak is about files without.
- A rename can lose the file (`removed_slot`). l2_unlink leaves the name in the removed slot,
  and l2_rename takes every slot with the old name, the last one counts. So `mknod a,
  mknod b, unlink b, rename a b, rename b a` ends with no file.
- New blocks are not zeroed. A write into a hole can change bytes around it that read as
  zero before, and bytes a file grows over can be anything (ByteFile says exactly where);
  the comment at Directories.c:1314 assumes zeros.
- l2_unlink frees the inode before it removes the entry (the comment at its beginning has the
  order the other way round, Directories.c:559-566). If the process dies in between, the entry
  leads to a FREE inode, which allocINode may give to another file; an entry whose inode has
  lost its link cannot be unlinked any more. If it dies in l2_rename, the file has a link and
  no entry, or entries that have lost their name. CrashImage says that nothing worse is left.
- A failed write loses blocks. Those it got before the disk was full are beyond the file
  size, which did not grow; freeINode releases blocks from the file size down and never
  gets to them. A remount right after a failed write loses the same blocks. NoAliasing
  holds all the same.
- Inode 0 does not count as existing: l2_mknod and l2_mkdir test for an id > 0. A path of
  inode 0 can be created again and then has two slots (`inode_zero`).
- Unlinking a directory may stop half-way. The paths of its entries are appended to memory
  that malloc returned and nothing cleared. If it is not empty, the entry is not found; the
  directory keeps its name with no link and is never freed (`garbled_path`).
- A rename onto an existing name leaves two slots with that name (`target_exists`).
- A rename that finds no block for the new slot has removed the old one, and l2_mkdir leaves
  a slot that leads to an inode of no type when it runs out of blocks (`full`).

## 6. What is not modelled

- Writes of no bytes. l2_readdir with a buffer of the kernel that is full.
- Directories more than one level below the root, and limits on the length of a name and the
  number of entries of a directory.
- The values of attributes: single assignments to an inode that is then written.
- What happens after the death of the process, in Directories: section 2, DirCrash.
- What the calls do after an inode list has run into another, or l2_unmount has cleared a block
  in use: Directories and FileBlocks end there, INodeLists where a list leads to freed memory.
- In Directories, that the cleared block is an index block of a file or directory; FileBlocks
  has that. A slot that lies in two blocks is cleared as a whole.
- The FUSE daemon but for l3_readdir: one call of layer 2 per callback. The other modules
  rely on its being single-threaded.
- Errors of the host's I/O: that read and write can fail or be short, and that their results
  are ignored. The size of the disk file is exact in DBlkCache; that the size of the inode
  area is a 32-bit product, which wraps from 2^23 inodes on, is left out.
- Messages, dumps and tests.
- Errors that layer 1 returns when layer 0 refuses an id: with the ids in range, as the
  invariants say, they do not happen.

## 7. Plan

Done: FreeStack, DBlkAlloc, DBlkCrash, BlockStore, DBlkCache with the layout of the disk,
INodeAlloc, FileBlocks, ByteFile, FileIO, FileTree, DirSlots, Directories, INodeLists,
DirCrash, Readdir, with their runs, and the proofs of section 4.

To come, theorems first: CrashImage, from NInv; ChainsAreOpen and CacheIsList. Then INodeAlloc
with the death of the process, and a composition of INodeAlloc with Directories, whose FREE
inodes are the free ones of the allocator.
