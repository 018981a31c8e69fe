----------------------------- MODULE BlockStore ------------------------------
(***************************************************************************)
(* What layer 1 promises of the disk: an array of blocks, an array of      *)
(* inodes and a superblock.  A read gives what was last written, a mount   *)
(* finds the superblock of the last unmount, and neither freeDBlk nor a    *)
(* remount changes a block or an inode.  DBlkCache implements this module. *)
(***************************************************************************)
EXTENDS Integers

CONSTANTS
  Blk,        \* the data blocks
  INode,      \* the inodes
  Part,       \* the positions in a block
  Byte        \* what a position holds, or an inode

VARIABLES
  contents,   \* the blocks
  inodes,     \* the inodes
  superblock, \* the superblock
  last        \* the last call: of what, and the bytes it read or wrote

Data == [Part -> Byte]

Init == /\ contents \in [Blk -> Data]
        /\ inodes \in [INode -> Byte]
        /\ superblock \in Data
        /\ last = [op |-> "none", blk |-> -1, bytes |-> [p \in {} |-> 0]]

Read(b, ps) ==
  /\ last' = [op |-> "read", blk |-> b, bytes |-> [p \in ps |-> contents[b][p]]]
  /\ UNCHANGED <<contents, inodes, superblock>>

Write(b, ps, d) ==
  /\ last' = [op |-> "write", blk |-> b, bytes |-> [p \in ps |-> d[p]]]
  /\ contents' = [contents EXCEPT
                    ![b] = [p \in Part |-> IF p \in ps THEN d[p] ELSE contents[b][p]]]
  /\ UNCHANGED <<inodes, superblock>>

ReadINode(i) ==
  /\ last' = [op |-> "readINode", blk |-> i, bytes |-> [p \in {0} |-> inodes[i]]]
  /\ UNCHANGED <<contents, inodes, superblock>>

WriteINode(i, node) ==
  /\ last' = [op |-> "writeINode", blk |-> i, bytes |-> [p \in {0} |-> node]]
  /\ inodes' = [inodes EXCEPT ![i] = node]
  /\ UNCHANGED <<contents, superblock>>

Unmount(sb) ==
  /\ last' = [op |-> "unmount", blk |-> 0, bytes |-> sb]
  /\ superblock' = sb
  /\ UNCHANGED <<contents, inodes>>

Mount ==
  /\ last' = [op |-> "mount", blk |-> 0, bytes |-> superblock]
  /\ UNCHANGED <<contents, inodes, superblock>>

Next ==
  \/ \E b \in Blk, ps \in SUBSET Part :
       Read(b, ps) \/ \E d \in Data : Write(b, ps, d)
  \/ \E i \in INode : ReadINode(i) \/ \E node \in Byte : WriteINode(i, node)
  \/ \E sb \in Data : Unmount(sb)
  \/ Mount

Spec == Init /\ [][Next]_<<contents, inodes, superblock, last>>
=============================================================================
