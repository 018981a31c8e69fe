------------------------------- MODULE DirCrash ------------------------------
(***************************************************************************)
(* The process dies, between two calls of layer 2 or inside one: after some *)
(* of the writes of l2_mknod, l2_mkdir, l2_unlink or l2_rename.  What the   *)
(* next l2_mount finds is what those writes left on disk.                   *)
(*                                                                         *)
(* The module ends there: the list of free inodes on disk is the one of     *)
(* the last l2_unmount, and nothing at l2_mount mends it.                   *)
(***************************************************************************)
EXTENDS Directories

VARIABLES
  call,   \* what the process was doing when it died: "none" before that
  torn    \* the inodes that call was about

cvars == <<vars, call, torn>>

CrashInit == Init /\ call = "none" /\ torn = {}

\* The process dies in state s of a call about the inodes in ids, after the
\* oddities in more.
Die(name, s, ids, more) ==
  /\ Become([s EXCEPT !.table = [i \in {} |-> 0], !.cache = [i \in {} |-> 0],
                      !.open = <<>>, !.newest = s.disk])
  /\ call' = name
  /\ torn' = ids
  /\ odd' = odd \union more \union {"crash"}

DieBetweenCalls == Die("between", State, {}, {})

\* A slot that is in two blocks is written in two steps, its name before its id;
\* a slot behind the others, where the directory's size does not yet count it.
EnteredHalf(s, d, name) ==
  IF Full(s.dir[d]) THEN s ELSE PutEntry(s, d, [key |-> name, id |-> Removed])

\* In l2_mknod or l2_mkdir: allocINode has written the inode; half of the entry
\* is written; and the parent has the entry.
DieInCreate(p, i) ==
  /\ disk[i].type = "FREE"
  /\ \E n \in {Namei(State, p)} : \E d \in {Namei(n.s, Front(p))} :
       /\ n.id = ENOENT /\ Found(d.id)
       /\ \E s \in {Initialised(d.s, d.id, i)},
             more \in {IF InCore(d.s, d.id).type = "DIRECTORY" THEN {} ELSE {"in_file"}} :
            \/ Die("create", s, {i}, more)
            \/ Die("create", EnteredHalf(s, d.id, Last(p)), {i}, more)
            \/ Die("create", Entered(s, d.id, Last(p), i), {i}, more)

InodesIn(slots) == {slots[k].id : k \in DOMAIN slots} \ {Removed}

\* In l2_unlink: the inode has lost its link; and is freed; with none, some or
\* all of what is below it unlinked before, or one of those under way.
DieInUnlink(p) ==
  /\ \E w \in {Unlinking(State, p)} :
       /\ w.ok
       /\ \E slots \in {Below(w.s, w.id)} :
          \E ids \in {InodesIn(slots) \union {w.id}}, k \in 0 .. Len(slots) :
          \E u \in {UnlinkAll(w.s, p, SubSeq(slots, 1, k))} :
            /\ u.ok
            /\ \/ Die("unlink", u.s, ids, {})
               \/ k = Len(slots) /\ Die("unlink", FreeUnlessOpen(u.s, w.id), ids, {})
               \/ /\ k < Len(slots) /\ slots[k + 1].id # Removed
                  /\ \E v \in {Unlinking(u.s, Append(p, slots[k + 1].key))} :
                       /\ v.ok
                       /\ \/ Die("unlink", v.s, ids, {})
                          \/ Die("unlink", FreeUnlessOpen(v.s, v.id), ids, {})

\* In l2_rename: the old name is gone, and perhaps not yet the id beside it; or
\* half of the new entry is written.
DieInRename(p, q) ==
  /\ MayRename(p, q)
  /\ \E x \in {TakeName(p, q)}, d \in {Namei(MovePath(State, p, q), Front(p))} :
     \E ids \in {{x.id} \ {Removed}}, more \in {IF x.many THEN {"removed_slot"} ELSE {}} :
       \/ Die("rename", x.s, ids, more)
       \/ Die("rename", PutAll(d.s, d.id, Last(p), [key |-> "", id |-> x.id]), ids, more)
       \/ \E e \in {Namei(x.s, Front(q))} :
            Die("rename", EnteredHalf(e.s, e.id, Last(q)), ids, more)

Crash ==
  /\ ~aborted /\ Followed
  /\ \/ DieBetweenCalls
     \/ \E p \in Path, i \in INode : DieInCreate(p, i)
     \/ \E p \in Path : DieInUnlink(p)
     \/ \E p, q \in Path : DieInRename(p, q)

CrashNext ==
  /\ call = "none"
  /\ \/ Next /\ UNCHANGED <<call, torn>>
     \/ Crash

CrashSpec == CrashInit /\ [][CrashNext]_cvars

-----------------------------------------------------------------------------
\* Nothing odd has happened but the crash itself.
Ordinary == Harmless \union {"crash"}

\* The death of the process costs nothing but what the call it was in is about:
\* every other inode is on disk as it was last stored, and in the entries it
\* was in (the order of the writes of l2_mknod, l2_mkdir, l2_unlink, l2_rename;
\* the write-through of writeINode in all calls before).
CrashIsLocal ==
  [][call' # "none" /\ odd' \subseteq Ordinary =>
       \A i \in INode \ torn' :
         /\ "write_failed" \notin odd => disk'[i] = newest[i]
         /\ SlotsTo(i)' = SlotsTo(i)]_cvars

\* The entries in directories that are in use.
Entries(i) == {x \in SlotsTo(i) : disk[x[1]].links > 0}

\* What the next l2_mount finds.  No inode is in two entries, and all but those
\* of the interrupted call are a tree.  A new inode has no link; where an entry
\* leads to it already, it is marked INIT and not FREE, so that allocINode will
\* not find it (l2_mknod, l2_mkdir).  What an entry still leads to in an
\* unlink has lost its link (l2_unlink).  A renamed file has its link and no
\* entry, or one that has lost its name (l2_rename).
CrashImage ==
  call # "none" /\ odd \subseteq Ordinary =>
    \A i \in INode \ {Root} : \E to \in {Entries(i)} :
      /\ Cardinality(to) <= 1
      /\ i \notin torn => (disk[i].links > 0 <=> to # {})
      /\ i \in torn =>
           CASE call = "create" -> disk[i] = Node("INIT", 0)
             [] call = "unlink" -> to # {} => disk[i].links = 0
             [] call = "rename" -> /\ \A x \in to : dir[x[1]][x[2]].key = ""
                                   /\ disk[i].links > 0
=============================================================================
