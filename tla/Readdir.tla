------------------------------- MODULE Readdir -------------------------------
(***************************************************************************)
(* Listing a directory while it changes: l3_readdir (fuseDaemon.c) and     *)
(* l2_readdir (Directories.c).                                             *)
(*                                                                         *)
(* A listing is a sequence of calls.  Each one gets the offset that the    *)
(* one before gave out, finds the directory by its path again, returns the *)
(* first entry from there on that is not removed, and the offset after it. *)
(* One that finds none fails, or returns nothing, which ends the listing.  *)
(* The daemon handles one call at a time and keeps nothing for a listing:  *)
(* between two of its calls the directory may change, or be gone.          *)
(*                                                                         *)
(* Directories has the calls that change directories; here they are cut    *)
(* down to what they do to the slots of one.                               *)
(***************************************************************************)
EXTENDS DirSlots, FiniteSets

CONSTANTS
  Name,       \* the names of entries
  Self,       \* the name "."
  Parent,     \* the name ".."
  NoName,     \* the empty name that l2_rename leaves in a slot
  MaxSlots    \* bound: the slots of the directory

ASSUME NameAssumption ==
  /\ Self # Parent /\ {Self, Parent} \intersect Name = {}
  /\ NoName \notin Name \union {Self, Parent}
  /\ MaxSlots \in Nat \ {0, 1}   \* room for "." and ".."

VARIABLES
  slots,      \* the directory, or <<>> when its path leads to none
  listing,    \* is a listing in progress
  offset,     \* the offset for its next call
  times,      \* how often each name was returned: never, once, or 2 for more
  stayed      \* ghost: the names that were in the directory all the time

list == <<listing, offset, times, stayed>>
vars == <<slots, list>>

\* Which inode an entry leads to makes no difference here.
Entry(name) == [key |-> name, id |-> 1]

Fresh == <<Entry(Self), Entry(Parent)>>

AllNames == Name \union {Self, Parent}

Init == /\ slots = Fresh
        /\ listing = FALSE /\ offset = 0
        /\ times = [n \in AllNames |-> 0]
        /\ stayed = {}

-----------------------------------------------------------------------------
\* opendir.
Start == /\ ~listing /\ slots # <<>>
         /\ listing' = TRUE /\ offset' = 0
         /\ times' = [n \in AllNames |-> 0]
         /\ stayed' = NamesIn(slots)
         /\ UNCHANGED slots

\* Where the next call goes on after slot k (from 1) was returned to one that
\* began at offset "from".  Mutants: removed slots on the way are not counted;
\* the offset stays at the slot; one slot is left out.
NextOffsetShort(from, k) == from + 1
NextOffsetStays(from, k) == k - 1
NextOffsetSkips(from, k) == k + 1

NextOffset(from, k) == k

\* The slots l2_readdir finds from the offset on that l3_readdir passes on.
Ahead == {k \in DOMAIN slots : k > offset /\ slots[k].id # Removed}

\* l3_readdir: one entry.
ReadEntry ==
  /\ listing
  /\ \E k \in Ahead :
       /\ \A j \in Ahead : k <= j
       /\ offset' = NextOffset(offset, k)
       /\ times' = [times EXCEPT ![slots[k].key] = IF @ < 2 THEN @ + 1 ELSE 2]
  /\ UNCHANGED <<slots, listing, stayed>>

\* l3_readdir: -ENOENT past the last slot, or nothing when the path does not
\* lead to a directory any more.
ReadEnd == /\ listing /\ Ahead = {}
           /\ listing' = FALSE
           /\ UNCHANGED <<slots, offset, times, stayed>>

Read == ReadEntry \/ ReadEnd

-----------------------------------------------------------------------------
\* What a call leaves of the directory.
Becomes(s) == /\ Len(s) <= MaxSlots
              /\ slots' = s
              /\ stayed' = stayed \intersect NamesIn(s)
              /\ UNCHANGED <<listing, offset, times>>

There(n) == n \in NamesIn(slots)

\* l2_mknod, l2_mkdir; or l2_rename from another directory.
Add(n) == /\ slots # <<>> /\ ~There(n)
          /\ Becomes(PutSlot(slots, Entry(n)))

\* l2_unlink: the slots of the name are removed, and keep it.
Unlink(n) == /\ There(n)
             /\ Becomes(Overwrite(slots, n, [key |-> n, id |-> Removed]))

\* l2_rename: all slots of the old name lose it, removed ones too.
Cleared(n) == Overwrite(slots, n, [key |-> NoName, id |-> Removed])

MoveOut(n) == There(n) /\ Becomes(Cleared(n))

\* In the directory: the new name goes to the first removed slot, which may be
\* before or after that of the old one.  (Onto a name in use: see Directories.)
Rename(m, n) == /\ There(m) /\ ~There(n)
                /\ Becomes(PutSlot(Cleared(m), Entry(n)))

\* l2_unlink or l2_rename of the directory itself, and l2_mkdir at its path.
Leave == slots # <<>> /\ Becomes(<<>>)
MkDir == slots = <<>> /\ Becomes(Fresh)

Change == \/ \E n \in Name : Add(n) \/ Unlink(n) \/ MoveOut(n)
          \/ \E m, n \in Name : Rename(m, n)
          \/ Leave \/ MkDir

Next == Start \/ Read \/ Change

\* Fairness: a program that lists a directory goes on to the end, and the
\* daemon answers.  The others need not do anything, nor do they wait.
Spec == Init /\ [][Next]_vars /\ WF_vars(Read)

-----------------------------------------------------------------------------
\* Type invariant.
TypeOK ==
  /\ slots \in Seq([key : AllNames \union {NoName}, id : {Removed, 1}])
  /\ listing \in BOOLEAN
  /\ offset \in 0 .. MaxSlots
  /\ times \in [AllNames -> 0 .. 2]
  /\ stayed \subseteq NamesIn(slots)

\* A listing returns each name once that is in the directory from its
\* beginning to its end, and none that stays a second time, whatever other
\* names are created, removed, renamed, and put into slots of removed ones in
\* between (l3_readdir; l2_mknod, l2_unlink and l2_rename keep all slots in
\* their places).
ListedOnce == \A n \in stayed : times[n] <= 1 /\ (~listing => times[n] = 1)

\* Every listing comes to its end, though others may add entries meanwhile:
\* the offset grows with each call, and the slots are used again.
ListingEnds == listing ~> ~listing
=============================================================================
