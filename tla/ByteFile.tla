------------------------------ MODULE ByteFile -------------------------------
(***************************************************************************)
(* What files promise their users, in bytes: the contents reads return, and *)
(* the contents the next mount will find.  Calls are l2_write, l2_truncate, *)
(* l2_unlink, l2_read and a remount.  FileIO implements it.                *)
(*                                                                         *)
(* A byte of a Hole reads as zero.  A write that reaches the block around  *)
(* it may turn it into anything; so may bytes a file grows over be         *)
(* anything.  All other bytes are the ones last written, but for a block   *)
(* that a remount of a full disk clears.  Any call may fill the disk, or   *)
(* end that.                                                               *)
(***************************************************************************)
EXTENDS Integers, Sequences

CONSTANTS
  File,
  Hole,       \* a byte of a file that has no block there
  BlkSize,    \* BLK_SIZE
  MaxBlks,    \* bound: the blocks of a file
  Writes,     \* the <<offset, bytes>> pairs files are written with
  Lengths     \* the lengths files are cut or extended to

VARIABLES
  content,    \* what the files contain, as reads see it
  stored,     \* what they contain after a remount
  full        \* no block is free

vars == <<content, stored, full>>

Init == content = [f \in File |-> <<>>] /\ stored = content /\ full \in BOOLEAN

\* Position n is written; n is in a block that the write reaches.
Covers(n, off, len)  == n \in off + 1 .. off + len
Reaches(n, off, len) ==
  (n - 1) \div BlkSize \in off \div BlkSize .. (off + len - 1) \div BlkSize

\* A write may leave position n of contents c as in d: unchanged, or changed in
\* a hole around what is written.
Keeps(c, d, n, off, len) == (c[n] # Hole \/ ~Reaches(n, off, len)) => d[n] = c[n]

\* Contents c become d by a write; the bytes between the old end and the
\* offset may be anything.
Written(c, d, off, buf) ==
  /\ Len(d) = IF off + Len(buf) > Len(c) THEN off + Len(buf) ELSE Len(c)
  /\ \A n \in 1 .. Len(buf) : d[off + n] = buf[n]
  /\ \A n \in 1 .. Len(c) : Covers(n, off, Len(buf)) \/ Keeps(c, d, n, off, Len(buf))

\* A write runs out of space: a beginning of the bytes is written, as far as
\* the file reaches.  What is on disk gets some of the bytes too.
PartlyWritten(c, d, off, buf) ==
  /\ Len(d) = Len(c)
  /\ \E cut \in 0 .. Len(buf) - 1 : \A n \in 1 .. Len(c) :
       IF Covers(n, off, cut) THEN d[n] = buf[n - off] ELSE Keeps(c, d, n, off, Len(buf))

SomeWritten(c, d, off, buf) ==
  /\ Len(d) = Len(c)
  /\ \A n \in 1 .. Len(c) :
       d[n] # c[n] => Covers(n, off, Len(buf)) /\ d[n] = buf[n - off]

\* Contents c become d when the size is set.
Resized(c, d, length) ==
  /\ Len(d) = length
  /\ \A n \in 1 .. length : n <= Len(c) => d[n] = c[n]

\* Only file f changes, to what is then also on disk unless the call fails.
OnlyIn(f) == \A g \in File \ {f} : content'[g] = content[g] /\ stored'[g] = stored[g]

Write(f, off, buf) ==
  /\ OnlyIn(f)
  /\ \E c \in {content[f]}, d \in {content'[f]}, e \in {stored'[f]} :
       \/ Written(c, d, off, buf) /\ e = d
       \/ PartlyWritten(c, d, off, buf) /\ SomeWritten(stored[f], e, off, buf)

Truncate(f, length) ==
  /\ OnlyIn(f)
  /\ Resized(content[f], content'[f], length)
  /\ stored'[f] = content'[f]

Unlink(f) == OnlyIn(f) /\ content'[f] = <<>> /\ stored'[f] = <<>>

\* A read stores what the file contains.
Read(f) == content' = content /\ stored' = [stored EXCEPT ![f] = content[f]]

\* Contents c with the bytes of file block k turned to zero.
Cleared(c, k) == [n \in DOMAIN c |-> IF (n - 1) \div BlkSize = k /\ c[n] # Hole
                                        THEN 0 ELSE c[n]]

\* What is stored comes back; of a full disk, but for a block of a file.
Remount ==
  /\ \/ stored' = stored
     \/ full /\ \E f \in File, k \in 0 .. MaxBlks - 1 :
          stored' = [stored EXCEPT ![f] = Cleared(stored[f], k)]
  /\ content' = stored'

Next ==
  \/ \E f \in File, w \in Writes : Write(f, w[1], w[2])
  \/ \E f \in File, length \in Lengths : Truncate(f, length)
  \/ \E f \in File : Unlink(f) \/ Read(f)
  \/ Remount

Spec == Init /\ [][Next]_vars
=============================================================================
