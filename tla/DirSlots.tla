------------------------------- MODULE DirSlots ------------------------------
(* A directory's data: a sequence of slots, a name and an inode id each.     *)
(* Removing an entry leaves its slot, with id -1, for the next new entry.    *)
(* l2_mknod, l2_mkdir, l2_unlink and l2_rename (Directories.c) all go        *)
(* through the slots of a directory in the same way.                         *)
EXTENDS Integers, Sequences

Removed == -1   \* the inode id of a removed slot

\* The slots with a name, and those of them that are not removed.
SlotsNamed(slots, name) == {k \in DOMAIN slots : slots[k].key = name}
LiveNamed(slots, name)  == {k \in SlotsNamed(slots, name) : slots[k].id # Removed}

NamesIn(slots) == {slots[k].key : k \in {k \in DOMAIN slots : slots[k].id # Removed}}

\* No slot is removed: the next entry makes the directory longer.
Full(slots) == \A k \in DOMAIN slots : slots[k].id # Removed

FirstRemoved(slots) ==
  CHOOSE k \in DOMAIN slots : /\ slots[k].id = Removed
                              /\ \A j \in 1 .. k - 1 : slots[j].id # Removed

\* Mutant of PutSlot: the first slot is taken whether it is removed or not.
PutSlotFirst(slots, entry) ==
  IF slots = <<>> THEN <<entry>> ELSE [slots EXCEPT ![1] = entry]

\* Write an entry to the first removed slot, or append it.
PutSlot(slots, entry) ==
  IF Full(slots) THEN Append(slots, entry)
                 ELSE [slots EXCEPT ![FirstRemoved(slots)] = entry]

\* Write an entry to all slots with a name.
Overwrite(slots, name, entry) ==
  [k \in DOMAIN slots |-> IF slots[k].key = name THEN entry ELSE slots[k]]

\* The slots as a loop finds them that unlinks one entry after the other: a
\* name that is in two slots is removed from both at once.
EachOnce(slots) ==
  [k \in DOMAIN slots |->
     IF \E j \in 1 .. k - 1 : slots[j].id # Removed /\ slots[j].key = slots[k].key
       THEN [key |-> slots[k].key, id |-> Removed] ELSE slots[k]]
=============================================================================
