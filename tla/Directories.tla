----------------------------- MODULE Directories -----------------------------
(***************************************************************************)
(* Layer 2: names, open files and the inodes in core (Directories.c, with  *)
(* OpenFileTable.c, INodeTable.c, INodeCache.c and readINode, writeINode,  *)
(* freeINode of FileSystem.c).                                             *)
(*                                                                         *)
(* A directory is a list of slots, a name and an inode id each; a removed  *)
(* slot has id -1 and, after an unlink, still its name.  An inode is on    *)
(* disk and possibly in core: in the inode table while it is open, with a  *)
(* reference count, else in the inode cache.  An open file is known by its *)
(* path, which l2_namei looks up before it walks the directories.          *)
(*                                                                         *)
(* What a file holds is one bit here, "mark"; FileBlocks has the blocks.   *)
(* allocINode returns any FREE inode, as INodeAlloc shows.  Running out of *)
(* blocks is a choice wherever a call may need a new one.                  *)
(*                                                                         *)
(* The inode table and the inode cache are functions here.  In the code    *)
(* their lists share the links of their entries; INodeLists has the lists  *)
(* and shows that they are these functions until the oddity "same_bin".    *)
(***************************************************************************)
EXTENDS Integers, Sequences, FiniteSets, SequencesExt, FiniteSetsExt, DirSlots

CONSTANTS
  INode,      \* the inode ids in use
  Root,       \* the inode of "/"
  Zero,       \* inode 0
  Name,       \* the names of files
  Path,       \* the paths the calls are made with, as sequences of names
  Bin,        \* where the inode table has an inode: its id modulo its length
  MaxSlots,   \* bound: the slots of a directory
  MaxOpens    \* bound: the opens that are not closed yet

ENOENT  == -2
ENOTDIR == -20

\* Directories are one level deep, so that l2_unlink's recursion is too.
ASSUME PathAssumption ==
  /\ Root \in INode /\ INode \intersect {Removed, ENOENT, ENOTDIR} = {}
  /\ "" \notin Name
  /\ \A p \in Path : p \in Seq(Name) /\ Len(p) \in 1 .. 2
  /\ MaxSlots \in Nat /\ MaxOpens \in Nat

VARIABLES
  dir,        \* the slots of each directory but "." and ".."
  disk,       \* the inodes on disk
  table,      \* the inode table: reference count and inode of open inodes
  cache,      \* the inode cache
  open,       \* the open file table, first entry first
  newest,     \* ghost: what was last stored in each inode
  odd,        \* ghost: the circumstances listed in Oddities that have occurred
  aborted     \* an assertion failed and ended the process

vars == <<dir, disk, table, cache, open, newest, odd, aborted>>

Op      == {"read", "write", "readwrite"}

\* Circumstances under which some of the properties do not hold: a rename of
\* a name that a removed slot still has; onto a name in use; of or to a path
\* that open files are below; a create below a file that was unlinked while
\* open; no block for a new directory entry; a path that leads to inode 0; a
\* path that l2_unlink builds in memory it has not cleared.  And harmless ones:
\* a write without enough blocks (until the next l2_mount), a process that
\* ended with files open.  After the fatal ones the module follows the code no
\* further: an inode went to the inode cache with others behind it in its
\* chain of the inode table; l2_unmount zeroed a block in use; the process died
\* without l2_unmount (DirCrash).
Harmless == {"write_failed", "died_open"}
Fatal    == {"same_bin", "wiped", "crash"}
Oddities == Harmless \union Fatal \union
            {"removed_slot", "target_exists", "open_below",
             "in_file", "full", "inode_zero", "garbled_path"}

Node(type, links) == [type |-> type, links |-> links, mark |-> 0]

Init ==
  /\ dir = [i \in INode |-> <<>>]
  /\ disk = [i \in INode |-> IF i = Root THEN Node("DIRECTORY", 2) ELSE Node("FREE", 0)]
  /\ table = [i \in {} |-> 0]
  /\ cache = [i \in {} |-> 0]
  /\ open = <<>>
  /\ newest = disk
  /\ odd = {}
  /\ aborted = FALSE

Found(id) == id \notin {ENOENT, ENOTDIR}

-----------------------------------------------------------------------------
(* The state the functions below work on, as one record.                    *)

State == [dir |-> dir, disk |-> disk, table |-> table, cache |-> cache,
          open |-> open, newest |-> newest]

Become(s) ==
  \E t \in {s} :
    /\ dir' = t.dir /\ disk' = t.disk /\ table' = t.table
    /\ cache' = t.cache /\ open' = t.open /\ newest' = t.newest
    /\ aborted' = FALSE

\* What readINode returns; and the state after it, for the inodes in ids.
InCore(s, i) == IF i \in DOMAIN s.table THEN s.table[i].node
                ELSE IF i \in DOMAIN s.cache THEN s.cache[i] ELSE s.disk[i]

ReadINode(s, ids) ==
  [s EXCEPT !.cache = [i \in DOMAIN s.cache \union (ids \ DOMAIN s.table)
                         |-> InCore(s, i)]]

\* Store an inode where it is in core.
SetInCore(s, i, node) ==
  [s EXCEPT !.newest[i] = node,
            !.table = [j \in DOMAIN s.table |->
                         IF j = i THEN [s.table[j] EXCEPT !.node = node]
                         ELSE s.table[j]],
            !.cache = [j \in DOMAIN s.cache |->
                         IF j = i /\ i \notin DOMAIN s.table THEN node
                         ELSE s.cache[j]]]

\* Mutant of WriteINode: only the disk is written.
WriteINodeToDisk(s, i, node) == [s EXCEPT !.newest[i] = node, !.disk[i] = node]

\* writeINode: in core, and through to disk.
WriteINode(s, i, node) == [SetInCore(s, i, node) EXCEPT !.disk[i] = node]

\* freeINode.
FreeINode(s, i) ==
  LET t == WriteINode(ReadINode(s, {i}), i, Node("FREE", 0))
  IN  [t EXCEPT !.dir[i] = <<>>]

Without(f, i) == [j \in DOMAIN f \ {i} |-> f[j]]

\* One step of l2_namei's walk; the walk; and l2_namei itself.  id is the
\* inode found or an error, s the state after the reads on the way.
WalkStep(w, name) ==
  IF ~Found(w.id) THEN w
  ELSE LET s    == ReadINode(w.s, {w.id})
           live == LiveNamed(s.dir[w.id], name)
       IN  [s |-> s, id |-> IF InCore(s, w.id).type # "DIRECTORY" THEN ENOTDIR
                            ELSE IF live = {} THEN ENOENT
                            ELSE s.dir[w.id][Min(live)].id]

Walk(s, p) ==
  LET w[n \in 0 .. Len(p)] ==
        IF n = 0 THEN [s |-> s, id |-> Root] ELSE WalkStep(w[n - 1], p[n])
  IN  w[Len(p)]

EntryOf(s, p) == {k \in DOMAIN s.open : s.open[k].path = p}

Namei(s, p) ==
  LET entry == EntryOf(s, p)
  IN  IF entry = {} THEN Walk(s, p) ELSE [s |-> s, id |-> s.open[Min(entry)].id]

\* Store in the slots of directory d.
PutEntry(s, d, entry)     == [s EXCEPT !.dir[d] = PutSlot(s.dir[d], entry)]
PutAll(s, d, name, entry) == [s EXCEPT !.dir[d] = Overwrite(s.dir[d], name, entry)]

-----------------------------------------------------------------------------
\* l2_getattr; and what every call does that returns early, which is to look
\* up paths.
GetAttr(p) ==
  LET n == Namei(State, p)
  IN  /\ Become(IF Found(n.id) THEN ReadINode(n.s, {n.id}) ELSE n.s)
      /\ UNCHANGED odd

\* Mutant of Initialised: the inode is written when the call ends only.
InitialisedLater(s, d, i) == ReadINode(s, {d})

\* allocINode of inode i, for an entry of directory d.
Initialised(s, d, i) == WriteINode(ReadINode(s, {d}), i, Node("INIT", 0))

\* The entry is written to the parent, and the parent if it grew.
Entered(s, d, name, i) ==
  LET t == PutEntry(s, d, [key |-> name, id |-> i])
  IN  IF Full(s.dir[d]) THEN WriteINode(t, d, InCore(t, d)) ELSE t

\* l2_mknod (a REGULAR file) and l2_mkdir.  The test that the path does not
\* exist yet lets inode 0 pass.  With no block for the entry the call ends
\* after allocINode; with none for the new directory's own entries, after
\* the entry was written.
Create(p, type, i) ==
  /\ disk[i].type = "FREE"
  /\ \E n \in {Namei(State, p)} : \E d \in {Namei(n.s, Front(p))} :
       /\ n.id \in {ENOENT, Zero}
       /\ Found(d.id)
       /\ \E s1 \in {Initialised(d.s, d.id, i)},
             odd1 \in {odd \union (IF n.id = Zero THEN {"inode_zero"} ELSE {})
                           \union (IF InCore(d.s, d.id).type # "DIRECTORY"
                                     THEN {"in_file"} ELSE {})} :
          \E s2 \in {Entered(s1, d.id, Last(p), i)} :
            \/ Become(WriteINode(s2, i, Node(type, 1))) /\ odd' = odd1
            \/ Full(s1.dir[d.id]) /\ Become(s1) /\ odd' = odd1 \union {"full"}
            \/ type = "DIRECTORY" /\ Become(s2) /\ odd' = odd1 \union {"full"}

\* An inode that is not open is freed.  Its mutant frees an open one too.
FreeAlways(s, i) == FreeINode(s, i)

FreeUnlessOpen(s, i) == IF i \in DOMAIN s.table THEN s ELSE FreeINode(s, i)

\* The end of l2_unlink: the name is removed, the inode leaves the cache.
Drop(s, d, name, i) ==
  LET t == PutAll(FreeUnlessOpen(s, i), d, name, [key |-> name, id |-> Removed])
  IN  [t EXCEPT !.cache = Without(t.cache, i)]

\* The beginning of l2_unlink: look up the path, take away a link of the
\* inode n found there, in directory d.
TakeLink(d, n) ==
  LET t     == ReadINode(n.s, {d, n.id})
      node  == InCore(t, n.id)
      found == Found(d) /\ Found(n.id)
      ok    == found /\ node.links # 0
  IN  [ok |-> ok, d |-> d, id |-> n.id,
       s |-> IF ~found THEN n.s ELSE IF ~ok THEN t
             ELSE WriteINode(t, n.id, [node EXCEPT !.links = node.links - 1])]

Unlinking(s, p) ==
  LET d == Namei(s, Front(p)) IN TakeLink(d.id, Namei(d.s, p))

\* l2_unlink of one of the entries below a directory.
UnlinkEntry(u, p) ==
  LET w == Unlinking(u.s, p)
  IN  [ok |-> w.ok, s |-> IF w.ok THEN Drop(w.s, w.d, Last(p), w.id) ELSE w.s]

\* A removed slot is passed over, and so is all after an entry that fails.
UnlinkSlot(u, p, slot) ==
  IF ~u.ok \/ slot.id = Removed THEN u ELSE UnlinkEntry(u, Append(p, slot.key))

\* What is below inode i; l2_unlink of that.  Its mutant leaves it alone.
Below(s, i) ==
  IF InCore(s, i).type = "DIRECTORY" THEN EachOnce(s.dir[i]) ELSE <<>>

UnlinkTop(s, p, slots) == [ok |-> TRUE, s |-> s]

UnlinkAll(s, p, slots) ==
  LET u[n \in 0 .. Len(slots)] == IF n = 0 THEN [ok |-> TRUE, s |-> s]
                                  ELSE UnlinkSlot(u[n - 1], p, slots[n])
  IN  u[Len(slots)]

\* l2_unlink, of a directory with all that is in it.  The paths of the entries
\* are appended to memory that is not cleared: if it is not clean, no such path
\* exists, and the call ends there.
Unlink(p) ==
  \E w \in {Unlinking(State, p)} :
    \/ /\ ~w.ok
       /\ Become(w.s)
       /\ UNCHANGED odd
    \/ /\ w.ok
       /\ \E u \in {UnlinkAll(w.s, p, Below(w.s, w.id))} :
            Become(IF u.ok THEN Drop(u.s, w.d, Last(p), w.id) ELSE u.s)
       /\ UNCHANGED odd
    \/ /\ w.ok
       /\ \E slots \in {Below(w.s, w.id)} : \E k \in DOMAIN slots :
            /\ slots[k].id # Removed
            /\ \E u \in {UnlinkAll(w.s, p, SubSeq(slots, 1, k - 1))} :
                 u.ok /\ Become(u.s)
       /\ odd' = odd \union {"garbled_path"}

\* Mutant of MovePath: the open file table keeps the old path.
KeepPath(s, p, q) == s

\* An open file that is renamed is known by its new path.
MovePath(s, p, q) ==
  IF EntryOf(s, p) = {} THEN s
  ELSE [s EXCEPT !.open[Min(EntryOf(s, p))].path = q]

Listed(s, p) == LET d == Namei(s, Front(p))
                IN  Found(d.id) /\ LiveNamed(s.dir[d.id], Last(p)) # {}

\* What the caller (the kernel) has looked up: the old path and the new parent;
\* it moves nothing into or onto what it is in.
MayRename(p, q) ==
  /\ ~IsPrefix(p, q) /\ ~IsPrefix(q, p)
  /\ Listed(State, p)
  /\ \E w \in {Walk(State, Front(q))} :
       Found(w.id) /\ InCore(w.s, w.id).type = "DIRECTORY"
  /\ Len(q) > 1 => InCore(State, Walk(State, p).id).type # "DIRECTORY"

\* The beginning of l2_rename: all slots of the old name are cleared, the last
\* one names the inode that is moved.
TakeName(p, q) ==
  LET d     == Namei(MovePath(State, p, q), Front(p))
      s     == ReadINode(d.s, {d.id})
      slots == SlotsNamed(s.dir[d.id], Last(p))
  IN  [s |-> PutAll(s, d.id, Last(p), [key |-> "", id |-> Removed]),
       id |-> s.dir[d.id][Max(slots)].id,
       many |-> Cardinality(slots) > 1]

\* l2_rename.
Rename(p, q) ==
  /\ MayRename(p, q)
  /\ \E x \in {TakeName(p, q)} : \E e \in {Namei(x.s, Front(q))} :
     \E s2 \in {ReadINode(e.s, {e.id})},
        odd1 \in {odd
          \union (IF x.many THEN {"removed_slot"} ELSE {})
          \union (IF Found(Namei(State, q).id) THEN {"target_exists"} ELSE {})
          \union (IF \E k \in DOMAIN open : \/ IsStrictPrefix(p, open[k].path)
                                           \/ IsStrictPrefix(q, open[k].path)
                    THEN {"open_below"} ELSE {})} :
     \E s3 \in {PutEntry(s2, e.id, [key |-> Last(q), id |-> x.id])} :
       \/ Become(WriteINode(s3, e.id, InCore(s3, e.id))) /\ odd' = odd1
       \/ Full(s2.dir[e.id]) /\ Become(s2) /\ odd' = odd1 \union {"full"}

-----------------------------------------------------------------------------
Count(ops) == ops["read"] + ops["write"] + ops["readwrite"]
Allows(entry, op) == entry.ops[op] + entry.ops["readwrite"] > 0

Abort == aborted' = TRUE /\ UNCHANGED <<dir, disk, table, cache, open, newest, odd>>

\* Put inode i into the inode table: it is there, or moves there from the
\* cache, or is read from disk.  Its mutant leaves the cached inode alone.
IntoTableAnew(s, i) ==
  IF i \in DOMAIN s.table THEN s
  ELSE [s EXCEPT !.table = [j \in DOMAIN s.table \union {i} |->
                              IF j = i THEN [ref |-> 0, node |-> s.disk[i]]
                              ELSE s.table[j]]]

IntoTable(s, i) ==
  IF i \in DOMAIN s.table THEN s
  ELSE [s EXCEPT !.table = [j \in DOMAIN s.table \union {i} |->
                              IF j = i THEN [ref |-> 0, node |-> InCore(s, i)]
                              ELSE s.table[j]],
                 !.cache = Without(s.cache, i)]

\* l2_open, which the kernel calls for regular files: the entry of the path, or a new
\* one, gets one more operation, the inode one more reference; both counts are
\* asserted to be the same.
Open(p, op) ==
  LET n == Namei(State, p)
      k == Min(EntryOf(n.s, p))
      s == IF EntryOf(n.s, p) # {} THEN n.s
           ELSE [IntoTable(n.s, n.id) EXCEPT
                   !.open = <<[path |-> p, id |-> n.id,
                               ops |-> [o \in Op |-> 0]]>> \o n.s.open]
      j == IF EntryOf(n.s, p) # {} THEN k ELSE 1
      t == [s EXCEPT !.open[j].ops[op] = s.open[j].ops[op] + 1,
                     !.table[n.id].ref = s.table[n.id].ref + 1]
  IN  /\ Found(n.id)
      /\ InCore(n.s, n.id).type = "REGULAR"
      /\ IF Count(t.open[j].ops) = t.table[n.id].ref
           THEN Become(t) /\ UNCHANGED odd
           ELSE Abort

\* The last l2_close of a file: an unlinked one is freed, another one goes to
\* the cache.  Mutants: nothing is freed; nothing leaves the table.
ReleaseKeeps(s, i) ==
  [s EXCEPT !.table = Without(s.table, i),
            !.cache = [j \in DOMAIN s.cache \union {i} |->
                         IF j = i THEN s.table[i].node ELSE s.cache[j]]]

ReleaseStays(s, i) == IF s.table[i].node.links = 0 THEN FreeINode(s, i) ELSE s

Release(s, i) ==
  IF s.table[i].node.links = 0
    THEN LET t == FreeINode(s, i) IN [t EXCEPT !.table = Without(t.table, i)]
    ELSE [s EXCEPT !.table = Without(s.table, i),
                   !.cache = [j \in DOMAIN s.cache \union {i} |->
                                IF j = i THEN s.table[i].node ELSE s.cache[j]]]

\* The inodes behind that of entry k in its chain of the inode table: those of
\* its bin that were opened before it.
Behind(k) == {open[l].id : l \in {l \in DOMAIN open :
                                    l > k /\ Bin[open[l].id] = Bin[open[k].id]}}

\* The next l2_close of p sends an inode with others behind it to the cache.
RunsOn(p) ==
  LET k == Min(EntryOf(State, p))
  IN  /\ Count(open[k].ops) = 1 /\ table[open[k].id].ref = 1
      /\ table[open[k].id].node.links # 0
      /\ Behind(k) # {}

\* l2_close of a path that is open for op.
Close(p, op) ==
  LET k == Min(EntryOf(State, p))
      i == open[k].id
      t == [State EXCEPT !.open[k].ops[op] = open[k].ops[op] - 1,
                         !.table[i].ref = table[i].ref - 1]
  IN  /\ EntryOf(State, p) # {}
      /\ open[k].ops[op] > 0
      /\ ~RunsOn(p)
      /\ IF Count(t.open[k].ops) # t.table[i].ref THEN Abort
         ELSE /\ Become(IF t.table[i].ref > 0 THEN t
                        ELSE Release([t EXCEPT !.open = RemoveAt(open, k)], i))
              /\ UNCHANGED odd

\* l2_close when the inode has others behind it.  It takes its link along to
\* the end of the cache's list, which then runs on into the chain.
CloseRunsOn(p, op) ==
  LET k == Min(EntryOf(State, p))
  IN  /\ EntryOf(State, p) # {}
      /\ open[k].ops[op] > 0
      /\ RunsOn(p)
      /\ \E s \in {Release([State EXCEPT !.open = RemoveAt(open, k)], open[k].id)} :
           Become([s EXCEPT !.cache = [j \in DOMAIN s.cache \union Behind(k)
                                         |-> IF j \in DOMAIN s.cache THEN s.cache[j]
                                             ELSE s.table[j].node]])
      /\ odd' = odd \union {"same_bin"}

Changed(node) == [node EXCEPT !.mark = 1 - node.mark]

\* Mutant of Write: no writeINode at the end.
WriteInPlace(p, room) ==
  LET k == Min(EntryOf(State, p))
      i == open[k].id
  IN  /\ EntryOf(State, p) # {}
      /\ Allows(open[k], "write")
      /\ Become(SetInCore(State, i, Changed(table[i].node)))
      /\ odd' = odd \union (IF room THEN {} ELSE {"write_failed"})

\* l2_write.  With no block left the change stays in core.
Write(p, room) ==
  LET k == Min(EntryOf(State, p))
      i == open[k].id
  IN  /\ EntryOf(State, p) # {}
      /\ Allows(open[k], "write")
      /\ Become(IF room THEN WriteINode(State, i, Changed(table[i].node))
                ELSE SetInCore(State, i, Changed(table[i].node)))
      /\ odd' = odd \union (IF room THEN {} ELSE {"write_failed"})

\* l2_read writes the inode back.
Read(p) ==
  LET k == Min(EntryOf(State, p))
      i == open[k].id
  IN  /\ EntryOf(State, p) # {}
      /\ Allows(open[k], "read")
      /\ Become(WriteINode(State, i, table[i].node))
      /\ UNCHANGED odd

\* l2_chmod, and likewise l2_chown, l2_utimens and l2_truncate: read the inode
\* a path leads to, change it, write it.
Chmod(p) ==
  LET n == Namei(State, p)
      s == ReadINode(n.s, {n.id})
  IN  /\ Found(n.id)
      /\ Become(WriteINode(s, n.id, Changed(InCore(s, n.id))))
      /\ UNCHANGED odd

\* The daemon ends through l2_unmount, also with files open (a signal ends its
\* loop), and l2_mount starts over with empty tables.
StartOver ==
  /\ table' = [i \in {} |-> 0]
  /\ cache' = [i \in {} |-> 0]
  /\ open' = <<>>
  /\ newest' = disk'
  /\ UNCHANGED aborted

\* l2_unmount writes the cached part of the list of free blocks to the block at
\* the head of that list, which holds nothing else while a block is free.
Mount ==
  /\ UNCHANGED <<dir, disk>>
  /\ StartOver
  /\ odd' = (odd \ {"write_failed"}) \union (IF open = <<>> THEN {} ELSE {"died_open"})

\* On a full disk it is the block that was handed out last, and becomes all
\* zeroes: some neighbouring slots of a directory, or what a file holds there.
\* A slot that is in two blocks is lost as a whole here.
Zeroed == [key |-> "", id |-> Zero]

MountWipes ==
  /\ \/ \E d \in INode : \E m, n \in DOMAIN dir[d] :
            /\ m <= n
            /\ dir' = [dir EXCEPT ![d] = [k \in DOMAIN dir[d] |->
                                           IF k \in m .. n THEN Zeroed ELSE dir[d][k]]]
            /\ UNCHANGED disk
     \/ \E i \in INode : /\ disk[i].type = "REGULAR"
                         /\ disk' = [disk EXCEPT ![i] = Changed(disk[i])]
                         /\ UNCHANGED dir
  /\ StartOver
  /\ odd' = odd \union {"wiped"}

Opens == MapThenSumSet(LAMBDA k : Count(open[k].ops), DOMAIN open)

\* None of the fatal oddities has occurred.
Followed == odd \intersect Fatal = {}

Next ==
  /\ ~aborted /\ Followed
  /\ \/ \E p \in Path : GetAttr(p)
     \/ \E p \in Path, i \in INode :
          \/ Create(p, "REGULAR", i)
          \/ Len(p) = 1 /\ Create(p, "DIRECTORY", i)
     \/ \E p \in Path : Unlink(p)
     \/ \E p, q \in Path : Rename(p, q)
     \/ Opens < MaxOpens /\ \E p \in Path, op \in Op : Open(p, op)
     \/ \E p \in Path, op \in Op : Close(p, op) \/ CloseRunsOn(p, op)
     \/ \E p \in Path, room \in BOOLEAN : Write(p, room)
     \/ \E p \in Path : Read(p)
     \/ \E p \in Path : Chmod(p)
     \/ Mount \/ MountWipes
  /\ \A i \in INode : Len(dir'[i]) <= MaxSlots

Spec == Init /\ [][Next]_vars

-----------------------------------------------------------------------------
InUse(i) == InCore(State, i).links > 0

\* The slots that lead to inode i.
SlotsTo(i) == UNION {{<<d, k>> : k \in {k \in DOMAIN dir[d] : dir[d][k].id = i}} :
                       d \in INode}

Slot      == [key : Name \union {""}, id : INode \union {Removed}]
INodeType == [type : {"FREE", "INIT", "REGULAR", "DIRECTORY"}, links : 0 .. 2,
              mark : 0 .. 1]
OpenFile  == [path : Path, id : INode, ops : [Op -> Nat]]

\* Type invariant.  What is in the inode table is open: its reference count is
\* not zero, since the last l2_close takes it out.
TypeOK ==
  /\ dir \in [INode -> Seq(Slot \union {Zeroed})]
  /\ disk \in [INode -> INodeType]
  /\ DOMAIN table \subseteq INode
  /\ \A i \in DOMAIN table : table[i] \in [ref : Nat \ {0}, node : INodeType]
  /\ DOMAIN cache \subseteq INode
  /\ \A i \in DOMAIN cache : cache[i] \in INodeType
  /\ open \in Seq(OpenFile)
  /\ odd \subseteq Oddities

\* The properties end where the module does: each says so by Followed or by
\* the oddities it allows.

\* The assertions of l2_open and l2_close hold, and a lookup in the open file
\* table is right (OpenFileTable.c, INodeTable.c, l2_namei): each open path
\* has one entry, all inodes of the inode table are open under one path, with
\* as many references as operations, and as long as a file has a link, its path
\* leads to it through the directories too.
OpenFilesAgreeWith(oddities) ==
  odd \subseteq oddities =>
    /\ ~aborted
    /\ \A k, l \in DOMAIN open :
         open[k].path = open[l].path \/ open[k].id = open[l].id => k = l
    /\ DOMAIN table = {open[k].id : k \in DOMAIN open}
    /\ \A k \in DOMAIN open :
         LET i == open[k].id
         IN  /\ table[i].ref = Count(open[k].ops)
             /\ Found(Walk(State, open[k].path).id) <=> InUse(i)
             /\ InUse(i) => Walk(State, open[k].path).id = i

OpenFilesAgree == OpenFilesAgreeWith(Harmless)

\* readINode never returns an old inode, wherever the inode was when it was
\* last written (readINode and writeINode, the moves between inode table and
\* inode cache in l2_open and l2_close).
NewestINode == Followed => \A i \in INode : InCore(State, i) = newest[i]

\* No inode is both in the inode table and in the inode cache, where the
\* second one would go stale (l2_open, l2_close, freeINode of an open inode),
\* unless an inode went to the cache with others behind it in its chain.
TableOrCache == Followed => DOMAIN table \intersect DOMAIN cache = {}

\* Unless a write ran out of blocks, all that is stored in an inode is on disk
\* after every call, so that the end of the process loses none of it: l2_unmount
\* writes no inodes (the write-through of writeINode).
WrittenThrough == Followed /\ "write_failed" \notin odd => disk = newest

\* The directories are a tree (l2_mknod, l2_mkdir, l2_unlink, l2_rename):
\* each inode with a link is in one slot of a directory in use, under a name
\* that no other slot of that directory has; all other inodes are in none.
TreeWith(oddities) ==
  odd \subseteq oddities =>
    \A i \in INode \ {Root} : \E to \in {SlotsTo(i)} :
      /\ InUse(i) <=> to # {}
      /\ \A x \in to :
           /\ to = {x}
           /\ InUse(x[1]) /\ InCore(State, x[1]).type = "DIRECTORY"
           /\ LiveNamed(dir[x[1]], dir[x[1]][x[2]].key) = {x[2]}

Tree == TreeWith(Harmless)

\* Nothing is kept without need (the condition for freeINode in l2_unlink, and
\* l2_close): an inode without links that is not FREE is open.
FreedWith(oddities) ==
  odd \subseteq oddities =>
    \A i \in INode : InCore(State, i).type = "FREE" \/ InUse(i) \/ i \in DOMAIN table

Freed == FreedWith({"write_failed"})

\* An open file stays what it is, whatever is unlinked, renamed or created
\* meanwhile: its inode is not freed, nor given to a new file (l2_unlink of
\* an open file, allocINode), as far as the module follows the code.
OpenFileStays ==
  [][\A i \in DOMAIN table \intersect DOMAIN table' :
       newest'[i].type = newest[i].type /\ newest'[i].links <= newest[i].links]_vars

\* The paths of the tree, with the inode each leads to.
SlotsOf(d, p) ==
  {<<Append(p, dir[d][k].key), dir[d][k].id>> :
     k \in {k \in DOMAIN dir[d] : dir[d][k].id # Removed}}

Leads == LET top == SlotsOf(Root, <<>>)
         IN  top \union UNION {SlotsOf(x[2], x[1]) : x \in top}

PathsTo(entries) ==
  [p \in {x[1] : x \in entries} |-> (CHOOSE x \in entries : x[1] = p)[2]]

NodeOf(node) == [type |-> node.type, mark |-> node.mark]

\* To a caller, paths lead to files, and open files stay what they are: each
\* call does to the names, to what is open and to the contents what its name
\* says and nothing else, and a remount loses only what failed to be written
\* (all of Directories.c; the slots, the three tables of inodes and open files,
\* the link counts and the freeing of inodes do not show).  All this unless an
\* oddity occurs, like the remount that zeroes the last block of a full disk.
Files ==
  INSTANCE FileTree WITH
    File    <- INode \ {Root},
    names   <- PathsTo(Leads),
    nodes   <- [i \in INode \ {Root} |->
                  IF InUse(i) \/ i \in DOMAIN table THEN NodeOf(InCore(State, i))
                                                   ELSE NodeOf(Node("FREE", 0))],
    stored  <- [i \in INode \ {Root} |->
                  IF InUse(i) THEN NodeOf(disk[i]) ELSE NodeOf(Node("FREE", 0))],
    handles <- [p \in {open[k].path : k \in DOMAIN open} |->
                  LET k == Min(EntryOf(State, p))
                  IN  [file |-> open[k].id, ops |-> open[k].ops]]

ImplementsFileTree ==
  /\ Files!Init
  /\ [][odd' \subseteq Harmless => UNCHANGED Files!vars \/ Files!Next]_vars

-----------------------------------------------------------------------------
(* What an assertion says, and the code does not do.                        *)

\* l2_open: assert(opcount == fileEntry->inodeEntry->_in_ref)
\* (Directories.c:1094), also for a file below a directory that was renamed.
OpenCountsMatch == odd \subseteq {"open_below"} => ~aborted
=============================================================================
