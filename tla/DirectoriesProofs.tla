--------------------------- MODULE DirectoriesProofs ---------------------------
(***************************************************************************)
(* Proofs about Directories, for every set of inodes, names and paths:     *)
(* inodes in core, in the inode table, in the inode cache and on disk stay *)
(* consistent through every call, open files included; what is open stays  *)
(* what it is; and the directories are a tree.                             *)
(*                                                                         *)
(* A call is a composition of functions of the state, so the argument is   *)
(* about pairs of states.  Sound says what holds of the state between two  *)
(* such functions, Keeps that the second of two states is sound and open   *)
(* files are the same in both; each function has a lemma that it Keeps,    *)
(* and Keeps is transitive.  The loops, of l2_namei over a path and of     *)
(* l2_unlink over the slots of a directory, are by induction.              *)
(*                                                                         *)
(* The names are about what leads where: At(s, d, name, i) says that       *)
(* directory d has inode i under the name, LeadsTo(s, p, i) that path p    *)
(* leads to it.  For each call one lemma says what it does to that and to  *)
(* the inodes (Created, Unlinked, MovedTo...); from it follow the          *)
(* invariant of the names, here, and the step of FileTree, in              *)
(* FileTreeProofs.                                                         *)
(***************************************************************************)
EXTENDS Directories, WellFoundedInduction, SequenceTheorems, FiniteSetTheorems, TLAPS

-----------------------------------------------------------------------------
(* Induction, stated with sets, so that a proof can take the set of the      *)
(* numbers for which a formula holds.                                        *)

\* A set of numbers has a smallest one.
LEMMA WellOrdered ==
  ASSUME NEW S \in SUBSET Nat, S # {}
  PROVE  \E n \in S : \A m \in S : n <= m
<1> DEFINE R == OpToRel(<, Nat)
<1>1. IsWellFoundedOn(R, Nat)
  BY NatLessThanWellFounded
<1>2. \A m, n \in Nat : <<m, n>> \in R <=> m < n
  BY DEF OpToRel
<1> HIDE DEF R
<1>3. PICK n \in S : \A m \in S : ~(<<m, n>> \in R)
  BY <1>1, WFMin
<1>4. \A m \in S : ~(m < n)
  BY <1>2, <1>3
<1> QED BY <1>4

\* Induction from 0 to N.
LEMMA UpTo ==
  ASSUME NEW N \in Nat, NEW S,
         0 \in S,
         \A n \in 0 .. N - 1 : n \in S => n + 1 \in S
  PROVE  \A n \in 0 .. N : n \in S
<1> DEFINE Out == {n \in 0 .. N : n \notin S}
<1> SUFFICES ASSUME Out # {} PROVE FALSE
  OBVIOUS
<1>1. PICK n \in Out : \A m \in Out : n <= m
  <2>1. Out \in SUBSET Nat
    OBVIOUS
  <2> QED BY <2>1, WellOrdered
<1>2. n \in 1 .. N /\ n - 1 \in 0 .. N - 1
  BY <1>1
<1>3. n - 1 \in S
  BY <1>1, <1>2
<1>4. n \in S
  BY <1>2, <1>3
<1> QED BY <1>1, <1>4

-----------------------------------------------------------------------------
\* An entry of the inode table, within a call; a function of some inodes.
TableEntry == [ref : Nat, node : INodeType]

Partial(R) == UNION {[ids -> R] : ids \in SUBSET INode}

\* The names slots may have.
Key == Name \union {""}

\* f with another value at i.
With(f, i, v) == [f EXCEPT ![i] = v]

\* The types of the state, as one record; within a call a reference count may
\* be zero.
States ==
  [dir : [INode -> Seq(Slot)], disk : [INode -> INodeType],
   table : Partial(TableEntry), cache : Partial(INodeType),
   open : Seq(OpenFile), newest : [INode -> INodeType]]

\* No inode is in the inode table and in the inode cache.
Apart(s) == DOMAIN s.table \intersect DOMAIN s.cache = {}

\* A function of some inodes; its values have their type.
LEMMA FunctionPartial ==
  ASSUME NEW R, NEW ids \in SUBSET INode, NEW f \in [ids -> R]
  PROVE  f \in Partial(R)
BY DEF Partial

\* What a partial function of inodes is: its domain and its values.
LEMMA PartialFunction ==
  ASSUME NEW R, NEW f
  PROVE  f \in Partial(R) <=> /\ f = [i \in DOMAIN f |-> f[i]]
                              /\ DOMAIN f \subseteq INode
                              /\ \A i \in DOMAIN f : f[i] \in R
<1>1. ASSUME f \in Partial(R)
      PROVE  /\ f = [i \in DOMAIN f |-> f[i]]
             /\ DOMAIN f \subseteq INode
             /\ \A i \in DOMAIN f : f[i] \in R
  <2>1. PICK ids \in SUBSET INode : f \in [ids -> R]
    BY <1>1 DEF Partial
  <2> QED BY <2>1
<1>2. ASSUME f = [i \in DOMAIN f |-> f[i]], DOMAIN f \subseteq INode,
             \A i \in DOMAIN f : f[i] \in R
      PROVE  f \in Partial(R)
  <2>1. f \in [DOMAIN f -> R]
    BY <1>2
  <2> QED BY <2>1, <1>2 DEF Partial
<1> QED BY <1>1, <1>2

\* The components of a state, and what readINode returns in it.
LEMMA StatesFields ==
  ASSUME NEW s \in States
  PROVE  /\ s = [dir |-> s.dir, disk |-> s.disk, table |-> s.table,
                 cache |-> s.cache, open |-> s.open, newest |-> s.newest]
         /\ s.dir \in [INode -> Seq(Slot)]
         /\ s.disk \in [INode -> INodeType]
         /\ s.table \in Partial(TableEntry)
         /\ s.cache \in Partial(INodeType)
         /\ s.open \in Seq(OpenFile)
         /\ s.newest \in [INode -> INodeType]
         /\ DOMAIN s.table \subseteq INode
         /\ \A i \in DOMAIN s.table : s.table[i] \in TableEntry
         /\ DOMAIN s.cache \subseteq INode
         /\ \A i \in DOMAIN s.cache : s.cache[i] \in INodeType
         /\ \A i \in INode : InCore(s, i) \in INodeType
<1>1. /\ s = [dir |-> s.dir, disk |-> s.disk, table |-> s.table,
                 cache |-> s.cache, open |-> s.open, newest |-> s.newest]
      /\ s.dir \in [INode -> Seq(Slot)]
      /\ s.disk \in [INode -> INodeType]
      /\ s.table \in Partial(TableEntry)
      /\ s.cache \in Partial(INodeType)
      /\ s.open \in Seq(OpenFile)
      /\ s.newest \in [INode -> INodeType]
  BY DEF States
<1>2. /\ DOMAIN s.table \subseteq INode
      /\ \A i \in DOMAIN s.table : s.table[i] \in TableEntry
  BY <1>1, PartialFunction
<1>3. /\ DOMAIN s.cache \subseteq INode
      /\ \A i \in DOMAIN s.cache : s.cache[i] \in INodeType
  BY <1>1, PartialFunction
<1>4. \A i \in INode : InCore(s, i) \in INodeType
  BY <1>1, <1>2, <1>3 DEF InCore, TableEntry
<1> QED BY <1>1, <1>2, <1>3, <1>4

\* Storing one component of the state.
LEMMA SetCache ==
  ASSUME NEW s \in States, NEW c \in Partial(INodeType)
  PROVE  LET t == [s EXCEPT !.cache = c]
         IN  /\ t \in States
             /\ t.dir = s.dir /\ t.disk = s.disk /\ t.table = s.table
             /\ t.cache = c /\ t.open = s.open /\ t.newest = s.newest
BY StatesFields DEF States

-----------------------------------------------------------------------------
(* Reading an inode changes the cache, and none of the inodes as readINode   *)
(* returns them.                                                             *)

\* t is s after some reads.
ReadTo(s, t) ==
  /\ t \in States
  /\ t.dir = s.dir /\ t.disk = s.disk /\ t.table = s.table /\ t.open = s.open
  /\ t.newest = s.newest
  /\ \A i \in INode : InCore(t, i) = InCore(s, i)
  /\ Apart(s) => Apart(t)

\* Reads one after the other are a read; so is none.
LEMMA ReadToTrans ==
  ASSUME NEW s, NEW t, NEW u, ReadTo(s, t), ReadTo(t, u)
  PROVE  ReadTo(s, u)
BY DEF ReadTo

LEMMA ReadToSelf ==
  ASSUME NEW s \in States
  PROVE  ReadTo(s, s)
BY DEF ReadTo

\* readINode of some inodes changes the cache only.
LEMMA ReadINodeReads ==
  ASSUME NEW s \in States, NEW ids \in SUBSET INode
  PROVE  ReadTo(s, ReadINode(s, ids))
<1> DEFINE t == ReadINode(s, ids)
           c == [i \in DOMAIN s.cache \union (ids \ DOMAIN s.table) |-> InCore(s, i)]
<1>1. c \in Partial(INodeType)
  BY StatesFields, PartialFunction
<1>2. t = [s EXCEPT !.cache = c]
  BY DEF ReadINode
<1>3. /\ t \in States
      /\ t.dir = s.dir /\ t.disk = s.disk /\ t.table = s.table
      /\ t.cache = c /\ t.open = s.open /\ t.newest = s.newest
  <2> HIDE DEF c, t
  <2> QED BY <1>1, <1>2, SetCache
<1> HIDE DEF t
<1>4. \A i \in INode : InCore(t, i) = InCore(s, i)
  BY <1>3 DEF InCore
<1>5. Apart(s) => Apart(t)
  BY <1>3 DEF Apart
<1>6. ReadTo(s, t)
  BY <1>3, <1>4, <1>5 DEF ReadTo
<1> QED BY <1>6 DEF t
-----------------------------------------------------------------------------
(* What holds of the state before and after each function that makes it up.  *)

\* Open files and the inode table: one open file for each inode in the table,
\* with as many operations as the inode has references.
OpenAgree(s) ==
  /\ \A k \in DOMAIN s.open :
       /\ s.open[k].id \in DOMAIN s.table
       /\ s.table[s.open[k].id].ref = Count(s.open[k].ops)
       /\ Count(s.open[k].ops) # 0
       /\ s.newest[s.open[k].id].type = "REGULAR"
  /\ \A k, l \in DOMAIN s.open : s.open[k].id = s.open[l].id => k = l
  /\ \A i \in DOMAIN s.table : \E k \in DOMAIN s.open : s.open[k].id = i

\* The root is a directory, and no slot leads to it.
RootStays(s) ==
  /\ s.newest[Root].type = "DIRECTORY"
  /\ \A i \in INode : \A k \in DOMAIN s.dir[i] : s.dir[i][k].id # Root

\* What holds between the functions of a call, as well as between calls.  The disk
\* may be behind in the mark of an inode only.
Sound(s) ==
  /\ s \in States
  /\ Apart(s)
  /\ \A i \in INode : InCore(s, i) = s.newest[i]
  /\ \A i \in INode : /\ s.disk[i].type = s.newest[i].type
                      /\ s.disk[i].links = s.newest[i].links
  /\ OpenAgree(s)
  /\ RootStays(s)

\* What is open stays open, as what it is.
StaysOpen(s, t) ==
  /\ DOMAIN t.table = DOMAIN s.table
  /\ \A i \in DOMAIN s.table : /\ t.newest[i].type = s.newest[i].type
                               /\ t.newest[i].links <= s.newest[i].links

\* What a function that makes up a call does.
Keeps(s, t) ==
  /\ Sound(t)
  /\ s.disk = s.newest => t.disk = t.newest
  /\ StaysOpen(s, t)

\* The components of an inode.
LEMMA NodeFields ==
  ASSUME NEW n \in INodeType
  PROVE  /\ n.type \in {"FREE", "INIT", "REGULAR", "DIRECTORY"}
         /\ n.links \in 0 .. 2 /\ n.mark \in 0 .. 1
         /\ n.links <= n.links
         /\ n = [type |-> n.type, links |-> n.links, mark |-> n.mark]
BY DEF INodeType

\* Two parts of a call that keep all, keep all together.
LEMMA KeepsTrans ==
  ASSUME NEW s, NEW t, NEW u, Sound(s), Keeps(s, t), Keeps(t, u)
  PROVE  Keeps(s, u)
<1>1. /\ DOMAIN u.table = DOMAIN s.table
      /\ s.disk = s.newest => u.disk = u.newest
  BY DEF Keeps, StaysOpen
<1>2. ASSUME NEW i \in DOMAIN s.table
      PROVE  /\ u.newest[i].type = s.newest[i].type
             /\ u.newest[i].links <= s.newest[i].links
  <2>1. /\ t.newest[i].links <= s.newest[i].links
        /\ u.newest[i].links <= t.newest[i].links
        /\ t.newest[i].type = s.newest[i].type
        /\ u.newest[i].type = t.newest[i].type
    BY <1>2 DEF Keeps, StaysOpen
  <2>2. i \in INode
    BY <1>2, StatesFields DEF Sound
  <2>3. s.newest[i] \in INodeType /\ t.newest[i] \in INodeType /\ u.newest[i] \in INodeType
    BY <2>2, StatesFields DEF Keeps, Sound
  <2> QED BY <2>1, <2>3, NodeFields
<1> QED BY <1>1, <1>2 DEF Keeps, StaysOpen

\* A read keeps all.
LEMMA ReadKeeps ==
  ASSUME NEW s, NEW t, Sound(s), ReadTo(s, t)
  PROVE  Keeps(s, t)
<1>1. Sound(t)
  BY DEF Sound, ReadTo, OpenAgree, RootStays
<1>2. StaysOpen(s, t)
  <2>1. \A i \in DOMAIN s.table : s.newest[i] \in INodeType
    BY StatesFields DEF Sound
  <2> QED BY <2>1, NodeFields DEF StaysOpen, ReadTo
<1> QED BY <1>1, <1>2 DEF Keeps, ReadTo

\* What writeINode may store: an open inode stays what it is, and so does the
\* root.
MayStore(s, i, node) ==
  /\ i \in INode /\ node \in INodeType
  /\ i \in DOMAIN s.table => /\ node.type = s.newest[i].type
                             /\ node.links <= s.newest[i].links
  /\ i = Root => node.type = "DIRECTORY"

\* Storing an inode where it is in core: readINode returns it from then on.
LEMMA SetInCoreFields ==
  ASSUME NEW s \in States, NEW i \in INode, NEW node \in INodeType
  PROVE  LET t == SetInCore(s, i, node)
         IN  /\ t \in States
             /\ t.dir = s.dir /\ t.disk = s.disk /\ t.open = s.open
             /\ t.newest = With(s.newest, i, node)
             /\ DOMAIN t.table = DOMAIN s.table
             /\ \A j \in DOMAIN s.table : t.table[j].ref = s.table[j].ref
             /\ \A j \in DOMAIN s.table \ {i} : t.table[j] = s.table[j]
             /\ DOMAIN t.cache = DOMAIN s.cache
             /\ \A j \in INode :
                  InCore(t, j) = IF j = i /\ i \in DOMAIN s.table \union DOMAIN s.cache
                                   THEN node ELSE InCore(s, j)
<1> DEFINE t == SetInCore(s, i, node)
           new == With(s.newest, i, node)
           tab == [j \in DOMAIN s.table |->
                         IF j = i THEN [s.table[j] EXCEPT !.node = node]
                         ELSE s.table[j]]
           c   == [j \in DOMAIN s.cache |->
                         IF j = i /\ i \notin DOMAIN s.table THEN node
                         ELSE s.cache[j]]
<1>1. /\ tab \in Partial(TableEntry)
      /\ \A j \in DOMAIN s.table : tab[j].ref = s.table[j].ref
      /\ \A j \in DOMAIN s.table \ {i} : tab[j] = s.table[j]
      /\ i \in DOMAIN s.table => tab[i].node = node
  <2>1. \A j \in DOMAIN s.table : tab[j] \in TableEntry
    BY ZenonT(30), StatesFields DEF TableEntry
  <2>2. /\ \A j \in DOMAIN s.table : tab[j].ref = s.table[j].ref
        /\ \A j \in DOMAIN s.table \ {i} : tab[j] = s.table[j]
        /\ i \in DOMAIN s.table => tab[i].node = node
    BY StatesFields DEF TableEntry
  <2>3. tab \in [DOMAIN s.table -> TableEntry]
    BY <2>1
  <2> HIDE DEF tab
  <2> QED BY <2>2, <2>3, StatesFields, FunctionPartial
<1>2. c \in Partial(INodeType)
  <2>1. c \in [DOMAIN s.cache -> INodeType]
    BY StatesFields
  <2> HIDE DEF c
  <2> QED BY <2>1, StatesFields, FunctionPartial
<1>3. new \in [INode -> INodeType]
  BY StatesFields DEF With
<1>4. t = [s EXCEPT !.newest = new, !.table = tab, !.cache = c]
  BY DEF SetInCore, With
<1>5. DOMAIN tab = DOMAIN s.table /\ DOMAIN c = DOMAIN s.cache
  OBVIOUS
<1>6. /\ t \in States
      /\ t.dir = s.dir /\ t.disk = s.disk /\ t.open = s.open
      /\ t.newest = new /\ t.table = tab /\ t.cache = c
  <2> HIDE DEF tab, c, new, t
  <2> QED BY <1>1, <1>2, <1>3, <1>4, StatesFields DEF States
<1>7. ASSUME NEW j \in INode
      PROVE  InCore(t, j) = IF j = i /\ i \in DOMAIN s.table \union DOMAIN s.cache
                              THEN node ELSE InCore(s, j)
  <2> HIDE DEF t
  <2> QED BY <1>1, <1>6 DEF InCore
<1> HIDE DEF t, tab, c
<1>8. /\ DOMAIN t.table = DOMAIN s.table /\ DOMAIN t.cache = DOMAIN s.cache
      /\ \A j \in DOMAIN s.table : t.table[j].ref = s.table[j].ref
      /\ \A j \in DOMAIN s.table \ {i} : t.table[j] = s.table[j]
  BY <1>1, <1>5, <1>6
<1> QED BY <1>6, <1>7, <1>8 DEF t

\* writeINode keeps all, if what it stores may be stored.
LEMMA WriteINodeFields ==
  ASSUME NEW s, Sound(s), NEW i, NEW node, MayStore(s, i, node)
  PROVE  LET t == WriteINode(s, i, node)
         IN  /\ Keeps(s, t)
             /\ t.dir = s.dir /\ t.open = s.open
             /\ t.disk = With(s.disk, i, node)
             /\ t.newest = With(s.newest, i, node)
             /\ DOMAIN t.cache = DOMAIN s.cache
<1> DEFINE u == SetInCore(s, i, node)
           t == WriteINode(s, i, node)
           d == With(s.disk, i, node)
<1>1. s \in States /\ i \in INode /\ node \in INodeType
  BY DEF Sound, MayStore
<1>2. /\ u \in States
      /\ u.dir = s.dir /\ u.disk = s.disk /\ u.open = s.open
      /\ u.newest = With(s.newest, i, node)
      /\ DOMAIN u.table = DOMAIN s.table
      /\ \A j \in DOMAIN s.table : u.table[j].ref = s.table[j].ref
      /\ DOMAIN u.cache = DOMAIN s.cache
      /\ \A j \in INode :
           InCore(u, j) = IF j = i /\ i \in DOMAIN s.table \union DOMAIN s.cache
                            THEN node ELSE InCore(s, j)
  BY <1>1, SetInCoreFields
<1>3. d \in [INode -> INodeType]
  BY <1>1, StatesFields DEF With
<1>4. /\ t \in States /\ t.disk = d
      /\ t.dir = u.dir /\ t.open = u.open /\ t.newest = u.newest
      /\ t.table = u.table /\ t.cache = u.cache
  <2>1. t = [u EXCEPT !.disk = d]
    <3> HIDE DEF u
    <3> QED BY <1>2, StatesFields DEF WriteINode, With, u
  <2> HIDE DEF t, u, d
  <2> QED BY <2>1, <1>2, <1>3, StatesFields DEF States
<1> HIDE DEF t, u
<1>5. \A j \in INode : InCore(t, j) = t.newest[j]
  BY <1>1, <1>2, <1>4, StatesFields DEF InCore, Sound, With
<1>6. Apart(t)
  BY <1>2, <1>4 DEF Apart, Sound
<1>7. \A j \in INode : /\ t.disk[j].type = t.newest[j].type
                       /\ t.disk[j].links = t.newest[j].links
  BY <1>1, <1>2, <1>4, StatesFields DEF Sound, With
<1>8. OpenAgree(t)
  <2>1. \A k \in DOMAIN s.open : s.open[k].id \in DOMAIN s.table /\ s.open[k].id \in INode
    BY <1>1, StatesFields DEF Sound, OpenAgree
  <2> QED BY <2>1, <1>1, <1>2, <1>4, StatesFields DEF OpenAgree, Sound, MayStore, With
<1>9. RootStays(t)
  BY <1>1, <1>2, <1>4, StatesFields DEF RootStays, Sound, MayStore, With
<1>10. StaysOpen(s, t)
  <2>1. \A j \in DOMAIN s.table : j \in INode /\ s.newest[j] \in INodeType
    BY <1>1, StatesFields
  <2>2. \A j \in DOMAIN s.table \ {i} : t.newest[j] = s.newest[j]
    BY <2>1, <1>2, <1>4, <1>1, StatesFields DEF With
  <2>3. i \in DOMAIN s.table => t.newest[i] = node
    BY <1>2, <1>4, <1>1, StatesFields DEF With
  <2>4. \A j \in DOMAIN s.table : s.newest[j].links <= s.newest[j].links
    BY <2>1, NodeFields
  <2>5. DOMAIN t.table = DOMAIN s.table
    BY <1>2, <1>4
  <2> QED BY <2>2, <2>3, <2>4, <2>5 DEF StaysOpen, MayStore
<1>11. s.disk = s.newest => t.disk = t.newest
  BY <1>2, <1>4
<1>12. Keeps(s, t)
  BY <1>4, <1>5, <1>6, <1>7, <1>8, <1>9, <1>10, <1>11 DEF Keeps, Sound
<1> QED BY <1>2, <1>4, <1>12 DEF t

\* freeINode of an inode that is not open keeps all, and empties it.
LEMMA FreeINodeFields ==
  ASSUME NEW s, Sound(s), NEW i \in INode, i \notin DOMAIN s.table, i # Root
  PROVE  LET t == FreeINode(s, i)
         IN  /\ Keeps(s, t)
             /\ t.dir = With(s.dir, i, <<>>) /\ t.open = s.open
             /\ t.disk = With(s.disk, i, Node("FREE", 0))
             /\ t.newest = With(s.newest, i, Node("FREE", 0))
             /\ DOMAIN t.cache = DOMAIN s.cache \union {i}
<1> DEFINE r == ReadINode(s, {i})
           w == WriteINode(r, i, Node("FREE", 0))
           t == FreeINode(s, i)
<1>1. ReadTo(s, r) /\ DOMAIN r.cache = DOMAIN s.cache \union {i}
  <2>1. s \in States
    BY DEF Sound
  <2>2. DOMAIN r.cache = DOMAIN s.cache \union {i}
    BY <2>1, StatesFields DEF ReadINode
  <2> QED BY <2>1, <2>2, ReadINodeReads
<1>2. Keeps(s, r)
  BY <1>1, ReadKeeps
<1>3. MayStore(r, i, Node("FREE", 0))
  BY <1>1 DEF MayStore, ReadTo, INodeType, Node
<1>4. /\ Keeps(r, w)
      /\ w.dir = r.dir /\ w.open = r.open
      /\ w.disk = With(r.disk, i, Node("FREE", 0))
      /\ w.newest = With(r.newest, i, Node("FREE", 0))
      /\ DOMAIN w.cache = DOMAIN r.cache
  <2>1. Sound(r)
    BY <1>2 DEF Keeps
  <2> HIDE DEF r
  <2> QED BY <2>1, <1>3, WriteINodeFields
<1>5. Keeps(s, w)
  BY <1>2, <1>4, KeepsTrans
<1>6. t = [w EXCEPT !.dir = With(w.dir, i, <<>>)]
  BY DEF FreeINode, With
<1> HIDE DEF w, t, r
<1>7. w \in States /\ With(w.dir, i, <<>>) \in [INode -> Seq(Slot)]
  BY <1>5, StatesFields DEF Keeps, Sound, With
<1>8. /\ t \in States /\ t.dir = With(w.dir, i, <<>>) /\ t.disk = w.disk
      /\ t.table = w.table /\ t.cache = w.cache /\ t.open = w.open
      /\ t.newest = w.newest
  BY <1>6, <1>7, StatesFields DEF States
<1>9. Sound(t)
  <2>1. RootStays(t)
    BY SMTT(30), <1>5, <1>7, <1>8, StatesFields DEF Keeps, Sound, RootStays, With
  <2>2. Apart(t) /\ OpenAgree(t)
    BY <1>5, <1>8 DEF Keeps, Sound, Apart, OpenAgree
  <2>3. \A j \in INode : InCore(t, j) = InCore(w, j)
    BY <1>8 DEF InCore
  <2> QED BY <1>5, <1>8, <2>1, <2>2, <2>3 DEF Keeps, Sound
<1>10. Keeps(s, t)
  BY <1>5, <1>8, <1>9 DEF Keeps, StaysOpen
<1> QED BY <1>1, <1>4, <1>8, <1>10 DEF t, ReadTo

\* Storing the slots of a directory.
LEMMA SetDirFields ==
  ASSUME NEW s, Sound(s), NEW d \in INode, NEW slots \in Seq(Slot),
         \A k \in DOMAIN slots : slots[k].id # Root
  PROVE  LET t == [s EXCEPT !.dir[d] = slots]
         IN  /\ Keeps(s, t)
             /\ t.dir = With(s.dir, d, slots)
             /\ t.disk = s.disk /\ t.open = s.open /\ t.newest = s.newest
             /\ t.table = s.table /\ t.cache = s.cache
             /\ \A i \in INode : InCore(t, i) = InCore(s, i)
<1> DEFINE new == With(s.dir, d, slots)
           t   == [s EXCEPT !.dir[d] = slots]
<1>1. new \in [INode -> Seq(Slot)]
  BY StatesFields DEF Sound, With
<1>2. t = [s EXCEPT !.dir = new]
  BY DEF With
<1>3. /\ t \in States /\ t.dir = new /\ t.disk = s.disk
      /\ t.table = s.table /\ t.cache = s.cache /\ t.open = s.open
      /\ t.newest = s.newest
  <2> HIDE DEF t, new
  <2> QED BY <1>1, <1>2, StatesFields DEF States, Sound
<1> HIDE DEF t
<1>4. \A i \in INode : InCore(t, i) = InCore(s, i)
  BY <1>3 DEF InCore
<1>5. RootStays(t)
  BY <1>1, <1>3, StatesFields DEF Sound, RootStays, With
<1>6. Apart(t) /\ OpenAgree(t)
  BY <1>3 DEF Sound, Apart, OpenAgree
<1>7. Sound(t)
  BY <1>3, <1>4, <1>5, <1>6 DEF Sound
<1>8. StaysOpen(s, t)
  <2>1. \A i \in DOMAIN s.table : s.newest[i] \in INodeType
    BY StatesFields DEF Sound
  <2> QED BY <2>1, <1>3, NodeFields DEF StaysOpen
<1>9. Keeps(s, t)
  BY <1>3, <1>7, <1>8 DEF Keeps
<1> QED BY <1>3, <1>4, <1>9 DEF t

\* Writing an entry leaves a list of slots, with that entry as the only new one.
LEMMA PutSlotSlots ==
  ASSUME NEW slots \in Seq(Slot), NEW entry \in Slot
  PROVE  /\ PutSlot(slots, entry) \in Seq(Slot)
         /\ \A k \in DOMAIN PutSlot(slots, entry) :
              \/ PutSlot(slots, entry)[k] = entry
              \/ k \in DOMAIN slots /\ PutSlot(slots, entry)[k] = slots[k]
<1>1. CASE Full(slots)
  BY <1>1 DEF PutSlot
<1>2. CASE ~Full(slots)
  <2> DEFINE k == FirstRemoved(slots)
             new == [slots EXCEPT ![k] = entry]
  <2>1. PutSlot(slots, entry) = new
    BY <1>2 DEF PutSlot
  <2> HIDE DEF k
  <2>2. /\ DOMAIN new = DOMAIN slots
        /\ \A j \in DOMAIN slots : new[j] = entry \/ new[j] = slots[j]
    OBVIOUS
  <2>3. new \in [1 .. Len(slots) -> Slot] /\ Len(slots) \in Nat
    <3>1. /\ DOMAIN slots = 1 .. Len(slots) /\ Len(slots) \in Nat
          /\ \A j \in 1 .. Len(slots) : slots[j] \in Slot
      OBVIOUS
    <3> QED BY <3>1
  <2> HIDE DEF new
  <2>4. new \in Seq(Slot)
    BY <2>3, SeqDef
  <2> QED BY <2>1, <2>2, <2>4
<1> QED BY <1>1, <1>2

\* The same for all the slots with a name.
LEMMA OverwriteSlots ==
  ASSUME NEW slots \in Seq(Slot), NEW name, NEW entry \in Slot
  PROVE  /\ Overwrite(slots, name, entry) \in Seq(Slot)
         /\ DOMAIN Overwrite(slots, name, entry) = DOMAIN slots
         /\ \A k \in DOMAIN slots :
              Overwrite(slots, name, entry)[k]
                = IF slots[k].key = name THEN entry ELSE slots[k]
<1>1. Len(slots) \in Nat /\ DOMAIN slots = 1 .. Len(slots)
  OBVIOUS
<1>2. Overwrite(slots, name, entry) \in [1 .. Len(slots) -> Slot]
  BY <1>1 DEF Overwrite
<1> QED BY <1>1, <1>2, SeqDef DEF Overwrite

\* Writing an entry to a directory keeps all, unless it names the root.
LEMMA PutEntryFields ==
  ASSUME NEW s, Sound(s), NEW d \in INode, NEW entry \in Slot, entry.id # Root
  PROVE  LET t == PutEntry(s, d, entry)
         IN  /\ Keeps(s, t)
             /\ t.dir = With(s.dir, d, PutSlot(s.dir[d], entry))
             /\ t.disk = s.disk /\ t.open = s.open /\ t.newest = s.newest
             /\ t.table = s.table /\ t.cache = s.cache
             /\ \A i \in INode : InCore(t, i) = InCore(s, i)
<1> DEFINE slots == PutSlot(s.dir[d], entry)
<1>1. s.dir[d] \in Seq(Slot)
  BY StatesFields DEF Sound
<1>2. slots \in Seq(Slot) /\ \A k \in DOMAIN slots : slots[k].id # Root
  <2>1. \A k \in DOMAIN s.dir[d] : s.dir[d][k].id # Root
    BY DEF Sound, RootStays
  <2> QED BY <1>1, <2>1, PutSlotSlots
<1>3. PutEntry(s, d, entry) = [s EXCEPT !.dir[d] = slots]
  BY DEF PutEntry
<1> DEFINE t == [s EXCEPT !.dir[d] = slots]
<1>4. /\ Keeps(s, t)
      /\ t.dir = With(s.dir, d, slots)
      /\ t.disk = s.disk /\ t.open = s.open /\ t.newest = s.newest
      /\ t.table = s.table /\ t.cache = s.cache
      /\ \A i \in INode : InCore(t, i) = InCore(s, i)
  <2> HIDE DEF slots
  <2> QED BY <1>2, SetDirFields
<1> HIDE DEF t
<1> QED BY <1>3, <1>4 DEF t

\* Writing an entry to all slots with a name keeps all, unless it names the root.
LEMMA PutAllFields ==
  ASSUME NEW s, Sound(s), NEW d \in INode, NEW name, NEW entry \in Slot, entry.id # Root
  PROVE  LET t == PutAll(s, d, name, entry)
         IN  /\ Keeps(s, t)
             /\ t.dir = With(s.dir, d, Overwrite(s.dir[d], name, entry))
             /\ t.disk = s.disk /\ t.open = s.open /\ t.newest = s.newest
             /\ t.table = s.table /\ t.cache = s.cache
             /\ \A i \in INode : InCore(t, i) = InCore(s, i)
<1> DEFINE slots == Overwrite(s.dir[d], name, entry)
<1>1. s.dir[d] \in Seq(Slot)
  BY StatesFields DEF Sound
<1>2. slots \in Seq(Slot) /\ \A k \in DOMAIN slots : slots[k].id # Root
  <2>1. \A k \in DOMAIN s.dir[d] : s.dir[d][k].id # Root
    BY DEF Sound, RootStays
  <2> QED BY <1>1, <2>1, OverwriteSlots
<1>3. PutAll(s, d, name, entry) = [s EXCEPT !.dir[d] = slots]
  BY DEF PutAll
<1> DEFINE t == [s EXCEPT !.dir[d] = slots]
<1>4. /\ Keeps(s, t)
      /\ t.dir = With(s.dir, d, slots)
      /\ t.disk = s.disk /\ t.open = s.open /\ t.newest = s.newest
      /\ t.table = s.table /\ t.cache = s.cache
      /\ \A i \in INode : InCore(t, i) = InCore(s, i)
  <2> HIDE DEF slots
  <2> QED BY <1>2, SetDirFields
<1> HIDE DEF t
<1> QED BY <1>3, <1>4 DEF t

-----------------------------------------------------------------------------
(* The walk along a path.                                                    *)

\* w are the first n steps of the walk.
IsWalk(w, s, p, n) ==
  w = [k \in 0 .. n |-> IF k = 0 THEN [s |-> s, id |-> Root]
                        ELSE WalkStep(w[k - 1], p[k])]

\* The function that defines Walk exists: there are the steps of a walk of any
\* length.
LEMMA WalkExists ==
  ASSUME NEW s, NEW p, NEW N \in Nat
  PROVE  \E w : IsWalk(w, s, p, N)
<1> DEFINE S == {n \in 0 .. N : \E w : IsWalk(w, s, p, n)}
<1>1. 0 \in S
  <2> DEFINE w == [k \in 0 .. 0 |-> [s |-> s, id |-> Root]]
  <2>1. IsWalk(w, s, p, 0)
    BY DEF IsWalk
  <2> HIDE DEF w
  <2> QED BY <2>1
<1>2. ASSUME NEW n \in 0 .. N - 1, n \in S
      PROVE  n + 1 \in S
  <2>1. PICK w : IsWalk(w, s, p, n)
    BY <1>2
  <2> DEFINE v == [k \in 0 .. n + 1 |-> IF k <= n THEN w[k] ELSE WalkStep(w[n], p[n + 1])]
  <2>2. ASSUME NEW k \in 0 .. n + 1
        PROVE  v[k] = IF k = 0 THEN [s |-> s, id |-> Root] ELSE WalkStep(v[k - 1], p[k])
    BY <2>1 DEF IsWalk
  <2>3. IsWalk(v, s, p, n + 1)
    BY <2>2 DEF IsWalk
  <2> HIDE DEF v
  <2> QED BY <2>3
<1>3. \A n \in 0 .. N : n \in S
  <2> HIDE DEF S
  <2> QED BY <1>1, <1>2, UpTo
<1> QED BY <1>3

\* Walk is the last step of such a walk.
LEMMA WalkIs ==
  ASSUME NEW s, NEW p, Len(p) \in Nat
  PROVE  \E w : IsWalk(w, s, p, Len(p)) /\ Walk(s, p) = w[Len(p)]
<1> DEFINE w == CHOOSE w : IsWalk(w, s, p, Len(p))
<1>1. IsWalk(w, s, p, Len(p))
  BY WalkExists
<1>2. Walk(s, p) = w[Len(p)]
  BY DEF Walk, IsWalk
<1> QED BY <1>1, <1>2

\* Min and Max of some positions of a sequence are among them.
LEMMA MinIn ==
  ASSUME NEW S \in SUBSET Nat, S # {}
  PROVE  Min(S) \in S /\ \A m \in S : Min(S) <= m
BY WellOrdered DEF Min

LEMMA MaxIn ==
  ASSUME NEW N \in Nat, NEW S \in SUBSET (1 .. N), S # {}
  PROVE  Max(S) \in S /\ \A m \in S : m <= Max(S)
<1> DEFINE T == {n \in 0 .. N : N - n \in S}
<1>1. PICK m \in S : TRUE
  OBVIOUS
<1>2. N - m \in T
  BY <1>1
<1>3. PICK n \in T : \A k \in T : n <= k
  <2>1. T \in SUBSET Nat
    OBVIOUS
  <2> HIDE DEF T
  <2> QED BY <1>2, <2>1, WellOrdered
<1>4. N - n \in S
  BY <1>3
<1>5. \A k \in S : k <= N - n
  <2>1. \A k \in S : N - k \in T
    OBVIOUS
  <2>2. n \in Nat
    BY <1>3
  <2> HIDE DEF T
  <2>3. \A k \in S : n <= N - k
    BY <1>3, <2>1
  <2> QED BY <2>3, <2>2
<1> HIDE DEF T
<1> QED BY <1>4, <1>5 DEF Max

\* What l2_namei returns.
Ids == INode \union {ENOENT, ENOTDIR}

\* Where a name leads from inode i.
NextId(s, i, name) ==
  LET live == LiveNamed(s.dir[i], name)
  IN  IF ~Found(i) THEN i
      ELSE IF s.newest[i].type # "DIRECTORY" THEN ENOTDIR
      ELSE IF live = {} THEN ENOENT ELSE s.dir[i][Min(live)].id

\* The slot a walk takes is one of the directory's, and not removed.
LEMMA LiveSlots ==
  ASSUME NEW slots \in Seq(Slot), NEW name
  PROVE  /\ DOMAIN slots = 1 .. Len(slots) /\ Len(slots) \in Nat
         /\ SlotsNamed(slots, name) \subseteq 1 .. Len(slots)
         /\ LiveNamed(slots, name) \subseteq SlotsNamed(slots, name)
         /\ \A k \in DOMAIN slots : /\ slots[k].id \in INode \union {Removed}
                                    /\ slots[k].key \in Name \union {""}
         /\ LiveNamed(slots, name) # {} =>
              /\ Min(LiveNamed(slots, name)) \in LiveNamed(slots, name)
              /\ slots[Min(LiveNamed(slots, name))].id \in INode
<1>1. /\ DOMAIN slots = 1 .. Len(slots) /\ Len(slots) \in Nat
      /\ SlotsNamed(slots, name) \subseteq 1 .. Len(slots)
      /\ LiveNamed(slots, name) \subseteq SlotsNamed(slots, name)
  BY DEF SlotsNamed, LiveNamed
<1>2. \A k \in DOMAIN slots : /\ slots[k] \in Slot
                              /\ slots[k].id \in INode \union {Removed}
                              /\ slots[k].key \in Name \union {""}
  <2>1. \A k \in DOMAIN slots : slots[k] \in Slot
    OBVIOUS
  <2> QED BY <2>1, Zenon DEF Slot
<1>3. ASSUME LiveNamed(slots, name) # {}
      PROVE  Min(LiveNamed(slots, name)) \in LiveNamed(slots, name)
  <2>1. LiveNamed(slots, name) \in SUBSET Nat
    BY <1>1
  <2> QED BY <2>1, <1>3, MinIn
<1> QED BY <1>1, <1>2, <1>3, Zenon DEF LiveNamed, SlotsNamed

\* A step of the walk arrives at an inode, or ends with an error.
LEMMA NextIdType ==
  ASSUME NEW s, Sound(s), NEW i \in Ids, NEW name
  PROVE  NextId(s, i, name) \in Ids \ {Root}
<1>1. CASE ~Found(i)
  BY <1>1, PathAssumption, Zenon DEF NextId, Found, Ids, ENOENT, ENOTDIR
<1>2. CASE Found(i)
  <2>1. i \in INode /\ s.dir[i] \in Seq(Slot)
    BY <1>2, StatesFields DEF Found, Ids, Sound
  <2>2. ENOENT # Root /\ ENOTDIR # Root
    BY PathAssumption, Zenon
  <2>3. ASSUME LiveNamed(s.dir[i], name) # {}
        PROVE  s.dir[i][Min(LiveNamed(s.dir[i], name))].id \in INode \ {Root}
    <3>1. /\ Min(LiveNamed(s.dir[i], name)) \in DOMAIN s.dir[i]
          /\ s.dir[i][Min(LiveNamed(s.dir[i], name))].id \in INode
      BY <2>1, <2>3, LiveSlots, Zenon
    <3> QED BY <2>1, <3>1 DEF Sound, RootStays
  <2> QED BY <1>2, <2>2, <2>3 DEF NextId, Ids
<1> QED BY <1>1, <1>2

\* A step of the walk reads an inode and goes to the next one.
LEMMA WalkStepReads ==
  ASSUME NEW s, Sound(s), NEW w, ReadTo(s, w.s), w.id \in Ids, NEW name
  PROVE  /\ ReadTo(s, WalkStep(w, name).s)
         /\ WalkStep(w, name).id = NextId(s, w.id, name)
<1>1. CASE ~Found(w.id)
  BY <1>1 DEF WalkStep, NextId
<1>2. CASE Found(w.id)
  <2> DEFINE t == ReadINode(w.s, {w.id})
  <2>1. w.id \in INode
    BY <1>2 DEF Found, Ids
  <2>2. ReadTo(s, t)
    <3>1. w.s \in States
      BY DEF ReadTo
    <3>2. ReadTo(w.s, t)
      BY <2>1, <3>1, ReadINodeReads
    <3> QED BY <3>2, ReadToTrans
  <2>3. t.dir = s.dir /\ InCore(t, w.id) = s.newest[w.id]
    BY <2>1, <2>2 DEF ReadTo, Sound
  <2> DEFINE live == LiveNamed(t.dir[w.id], name)
             to   == IF InCore(t, w.id).type # "DIRECTORY" THEN ENOTDIR
                     ELSE IF live = {} THEN ENOENT ELSE t.dir[w.id][Min(live)].id
  <2>4. WalkStep(w, name) = [s |-> t, id |-> to]
    BY <1>2 DEF WalkStep
  <2>5. WalkStep(w, name).s = t /\ WalkStep(w, name).id = to
    <3> HIDE DEF t, to
    <3> QED BY <2>4
  <2> HIDE DEF t
  <2> QED BY <1>2, <2>2, <2>3, <2>5 DEF NextId
<1> QED BY <1>1, <1>2

\* The walk reads inodes, and arrives at an inode or ends with an error.
LEMMA WalkReads ==
  ASSUME NEW s, Sound(s), NEW p, Len(p) \in Nat
  PROVE  /\ ReadTo(s, Walk(s, p).s)
         /\ Walk(s, p).id \in Ids
         /\ Len(p) > 0 => Walk(s, p).id # Root
<1>1. PICK w : IsWalk(w, s, p, Len(p)) /\ Walk(s, p) = w[Len(p)]
  BY WalkIs
<1> DEFINE S == {n \in 0 .. Len(p) : /\ ReadTo(s, w[n].s)
                                     /\ w[n].id \in Ids
                                     /\ n > 0 => w[n].id # Root}
<1>2. 0 \in S
  <2>1. w[0] = [s |-> s, id |-> Root]
    BY <1>1 DEF IsWalk
  <2>2. ReadTo(s, s)
    BY ReadToSelf DEF Sound
  <2>3. w[0].s = s /\ w[0].id = Root /\ Root \in Ids
    <3>1. Root \in Ids
      BY PathAssumption, Zenon DEF Ids
    <3> HIDE DEF S
    <3> QED BY <2>1, <3>1
  <2> QED BY <2>2, <2>3
<1>3. ASSUME NEW n \in 0 .. Len(p) - 1, n \in S
      PROVE  n + 1 \in S
  <2>1. w[n + 1] = WalkStep(w[n], p[n + 1])
    BY <1>1 DEF IsWalk
  <2>2. /\ ReadTo(s, w[n + 1].s)
        /\ w[n + 1].id = NextId(s, w[n].id, p[n + 1])
    BY <1>3, <2>1, WalkStepReads
  <2>3. w[n + 1].id \in Ids \ {Root}
    BY <1>3, <2>2, NextIdType
  <2> QED BY <2>2, <2>3
<1>4. \A n \in 0 .. Len(p) : n \in S
  <2> HIDE DEF S
  <2> QED BY <1>2, <1>3, UpTo
<1> QED BY <1>1, <1>4

\* What is open is an inode of the inode table, and a REGULAR one.
LEMMA OpenIds ==
  ASSUME NEW s, Sound(s), NEW k \in DOMAIN s.open
  PROVE  /\ s.open[k].id \in INode /\ s.open[k].id # Root
         /\ s.open[k].id \in DOMAIN s.table
BY StatesFields DEF Sound, OpenAgree, RootStays

\* The first entry of a path in the open file table is one of its entries.
LEMMA EntryIn ==
  ASSUME NEW s, Sound(s), NEW p, EntryOf(s, p) # {}
  PROVE  /\ Min(EntryOf(s, p)) \in DOMAIN s.open
         /\ s.open[Min(EntryOf(s, p))].path = p
         /\ DOMAIN s.open = 1 .. Len(s.open) /\ Len(s.open) \in Nat
<1>1. DOMAIN s.open = 1 .. Len(s.open) /\ Len(s.open) \in Nat
  BY StatesFields DEF Sound
<1>2. EntryOf(s, p) \in SUBSET Nat
  BY <1>1 DEF EntryOf
<1>3. Min(EntryOf(s, p)) \in EntryOf(s, p)
  BY <1>2, MinIn
<1> QED BY <1>1, <1>3 DEF EntryOf

\* l2_namei reads inodes and returns an inode or an error.
LEMMA NameiReads ==
  ASSUME NEW s, Sound(s), NEW p, Len(p) \in Nat
  PROVE  /\ ReadTo(s, Namei(s, p).s)
         /\ Namei(s, p).id \in Ids
         /\ Len(p) > 0 => Namei(s, p).id # Root
<1>1. CASE EntryOf(s, p) = {}
  BY <1>1, WalkReads DEF Namei
<1>2. CASE EntryOf(s, p) # {}
  <2>1. Namei(s, p) = [s |-> s, id |-> s.open[Min(EntryOf(s, p))].id]
    BY <1>2 DEF Namei
  <2>2. ReadTo(s, s)
    BY ReadToSelf DEF Sound
  <2> QED BY <1>2, <2>1, <2>2, EntryIn, OpenIds DEF Ids
<1> QED BY <1>1, <1>2

-----------------------------------------------------------------------------
(* The pieces of the calls.                                                  *)

\* The path of the parent of a path.
LEMMA FrontSeq ==
  ASSUME NEW X, NEW p \in Seq(X), Len(p) > 0
  PROVE  /\ Front(p) \in Seq(X) /\ Len(Front(p)) = Len(p) - 1
         /\ \A k \in 1 .. Len(p) - 1 : Front(p)[k] = p[k]
         /\ Last(p) = p[Len(p)] /\ Last(p) \in X
<1>1. /\ Len(p) \in Nat /\ Len(p) >= 1 /\ p[Len(p)] \in X
      /\ \A k \in 1 .. Len(p) : p[k] \in X
  OBVIOUS
<1>2. Front(p) = [k \in 1 .. Len(p) - 1 |-> p[k]]
  BY <1>1 DEF Front
<1>3. Front(p) \in [1 .. Len(p) - 1 -> X] /\ Len(p) - 1 \in Nat
  BY <1>1, <1>2
<1>4. Front(p) \in Seq(X) /\ Len(Front(p)) = Len(p) - 1
  BY <1>3, SeqDef
<1> QED BY <1>1, <1>2, <1>4 DEF Last

\* A FREE inode on disk is neither open nor the root's.
LEMMA DiskType ==
  ASSUME NEW s, Sound(s), NEW i \in INode, s.disk[i].type = "FREE"
  PROVE  i \notin DOMAIN s.table /\ i # Root
<1>1. s.newest[i].type = "FREE"
  BY DEF Sound
<1> QED BY <1>1 DEF Sound, OpenAgree, RootStays

\* allocINode of a FREE inode keeps all, and stores it as INIT.
LEMMA InitialisedFields ==
  ASSUME NEW s, Sound(s), NEW d \in INode, NEW i \in INode, s.disk[i].type = "FREE"
  PROVE  LET t == Initialised(s, d, i)
         IN  /\ Keeps(s, t)
             /\ t.dir = s.dir /\ t.open = s.open
             /\ t.newest = With(s.newest, i, Node("INIT", 0))
             /\ t.disk = With(s.disk, i, Node("INIT", 0))
<1> DEFINE r == ReadINode(s, {d})
<1>1. ReadTo(s, r)
  BY ReadINodeReads DEF Sound
<1>2. Keeps(s, r) /\ Sound(r)
  BY <1>1, ReadKeeps DEF Keeps
<1>3. i \notin DOMAIN s.table /\ i # Root
  BY DiskType
<1>4. MayStore(r, i, Node("INIT", 0))
  BY <1>1, <1>3 DEF ReadTo, MayStore, Node, INodeType
<1> DEFINE t == WriteINode(r, i, Node("INIT", 0))
<1>5. /\ Keeps(r, t)
      /\ t.dir = r.dir /\ t.open = r.open
      /\ t.disk = With(r.disk, i, Node("INIT", 0))
      /\ t.newest = With(r.newest, i, Node("INIT", 0))
  <2>1. Sound(r)
    BY <1>2
  <2> HIDE DEF r
  <2> QED BY <2>1, <1>4, WriteINodeFields
<1>6. t = Initialised(s, d, i)
  BY DEF Initialised
<1> HIDE DEF r, t
<1>7. Keeps(s, t)
  BY <1>2, <1>5, KeepsTrans
<1> QED BY <1>1, <1>5, <1>6, <1>7 DEF ReadTo

\* Writing the entry of a new inode to its parent keeps all.
LEMMA EnteredFields ==
  ASSUME NEW s, Sound(s), NEW d \in INode, NEW name \in Key,
         NEW i \in INode \ {Root}
  PROVE  LET t == Entered(s, d, name, i)
         IN  /\ Keeps(s, t)
             /\ t.dir = With(s.dir, d, PutSlot(s.dir[d], [key |-> name, id |-> i]))
             /\ t.open = s.open /\ t.newest = s.newest
             /\ t.disk = s.disk \/ t.disk = With(s.disk, d, s.newest[d])
<1> DEFINE entry == [key |-> name, id |-> i]
           t     == PutEntry(s, d, entry)
           node  == InCore(t, d)
           u     == WriteINode(t, d, node)
<1>1. entry \in Slot /\ entry.id # Root
  BY Zenon DEF Slot, Key
<1>2. /\ Keeps(s, t)
      /\ t.dir = With(s.dir, d, PutSlot(s.dir[d], entry))
      /\ t.open = s.open /\ t.newest = s.newest /\ t.disk = s.disk
      /\ InCore(t, d) = s.newest[d]
  <2>1. /\ Keeps(s, t)
        /\ t.dir = With(s.dir, d, PutSlot(s.dir[d], entry))
        /\ t.open = s.open /\ t.newest = s.newest /\ t.disk = s.disk
        /\ \A j \in INode : InCore(t, j) = InCore(s, j)
    <3>1. entry \in Slot
      BY <1>1
    <3>2. entry.id # Root
      BY <1>1
    <3> HIDE DEF entry
    <3> QED BY <3>1, <3>2, PutEntryFields
  <2> QED BY <2>1 DEF Sound
<1>3. Entered(s, d, name, i) = IF Full(s.dir[d]) THEN u ELSE t
  BY DEF Entered
<1> HIDE DEF entry, t
<1>4. /\ Keeps(t, u)
      /\ u.dir = t.dir /\ u.open = t.open
      /\ u.newest = With(t.newest, d, s.newest[d])
      /\ u.disk = With(t.disk, d, s.newest[d])
  <2>1. Sound(t)
    BY <1>2 DEF Keeps
  <2>2. t.newest[d] \in INodeType
    BY <2>1, StatesFields DEF Sound
  <2>3. MayStore(t, d, node)
    <3>1. node = t.newest[d]
      BY <1>2
    <3>2. t.newest[d].links <= t.newest[d].links
      BY <2>2, NodeFields
    <3>3. d = Root => t.newest[d].type = "DIRECTORY"
      BY <2>1 DEF Sound, RootStays
    <3> QED BY <2>2, <3>1, <3>2, <3>3 DEF MayStore
  <2>4. /\ Keeps(t, u)
        /\ u.dir = t.dir /\ u.open = t.open
        /\ u.newest = With(t.newest, d, node)
        /\ u.disk = With(t.disk, d, node)
    <3> HIDE DEF node
    <3> QED BY <2>1, <2>3, WriteINodeFields
  <2>5. node = s.newest[d]
    BY <1>2
  <2> HIDE DEF u
  <2> QED BY <2>4, <2>5
<1>5. u.newest = s.newest
  <2>1. s.newest \in [INode -> INodeType]
    BY StatesFields DEF Sound
  <2> QED BY <1>2, <1>4, <2>1 DEF With
<1>6. Keeps(s, u)
  BY <1>2, <1>4, KeepsTrans
<1> QED BY <1>2, <1>3, <1>4, <1>5, <1>6 DEF entry

\* A node with one link less.
Less(node) == [node EXCEPT !.links = node.links - 1]

\* Taking a link from an inode that has one keeps all.
LEMMA TakeLinkFields ==
  ASSUME NEW d \in Ids, NEW n, Sound(n.s), n.id \in Ids \ {Root}
  PROVE  LET w == TakeLink(d, n)
         IN  /\ Keeps(n.s, w.s)
             /\ w.d = d /\ w.id = n.id
             /\ w.s.dir = n.s.dir /\ w.s.open = n.s.open
             /\ w.ok <=> /\ d \in INode /\ n.id \in INode
                         /\ n.s.newest[n.id].links # 0
             /\ w.ok => /\ w.s.newest = With(n.s.newest, n.id, Less(n.s.newest[n.id]))
                        /\ w.s.disk = With(n.s.disk, n.id, Less(n.s.newest[n.id]))
             /\ ~w.ok => w.s.newest = n.s.newest /\ w.s.disk = n.s.disk
<1> DEFINE t     == ReadINode(n.s, {d, n.id})
           w     == TakeLink(d, n)
           node  == InCore(t, n.id)
           found == Found(d) /\ Found(n.id)
           ok    == found /\ node.links # 0
           less  == Less(node)
           v     == WriteINode(t, n.id, less)
           s     == IF ~found THEN n.s ELSE IF ~ok THEN t ELSE v
<1>1. /\ Found(d) <=> d \in INode
      /\ Found(n.id) <=> n.id \in INode
  BY PathAssumption, Zenon DEF Found, Ids
<1>2. w = [ok |-> ok, d |-> d, id |-> n.id, s |-> s]
  BY DEF TakeLink, Less
<1>3. w.d = d /\ w.id = n.id /\ w.s = s /\ w.ok = ok
  <2> HIDE DEF w, ok, s
  <2> QED BY <1>2
<1>4. w.ok <=> ok
  BY <1>3
<1> HIDE DEF w
<1>5. CASE ~found
  <2>1. s = n.s /\ ~w.ok
    BY <1>4, <1>5
  <2>2. Keeps(n.s, n.s)
    BY ReadToSelf, ReadKeeps DEF Sound
  <2> QED BY <1>1, <1>3, <1>5, <2>1, <2>2 DEF w
<1>6. CASE found
  <2>1. d \in INode /\ n.id \in INode \ {Root}
    BY <1>1, <1>6
  <2>2. ReadTo(n.s, t)
    BY <2>1, ReadINodeReads DEF Sound
  <2>3. Keeps(n.s, t) /\ Sound(t)
    <3> HIDE DEF t
    <3> QED BY <2>2, ReadKeeps DEF Keeps
  <2>4. node = n.s.newest[n.id] /\ node \in INodeType
    <3>1. n.s.newest[n.id] \in INodeType
      BY <2>1, StatesFields DEF Sound
    <3> HIDE DEF t
    <3> QED BY <3>1, <2>1, <2>2, <2>3 DEF Sound, ReadTo
  <2>5. CASE node.links = 0
    <3>1. s = t /\ ~w.ok
      BY <1>4, <1>6, <2>5
    <3> HIDE DEF t, s, node
    <3> QED BY <1>3, <2>1, <2>2, <2>3, <2>4, <2>5, <3>1 DEF ReadTo, w
  <2>6. CASE node.links # 0
    <3>1. s = v /\ w.ok
      BY <1>4, <1>6, <2>6
    <3>2. /\ less \in INodeType /\ less.type = node.type
          /\ less.links = node.links - 1 /\ less.links <= node.links
      <4> HIDE DEF node
      <4> QED BY <2>4, <2>6 DEF INodeType, Less
    <3>3. MayStore(t, n.id, less)
      <4>1. t.newest[n.id] = node
        BY <2>2, <2>4 DEF ReadTo
      <4> HIDE DEF less, t, node
      <4> QED BY <2>1, <3>2, <4>1 DEF MayStore
    <3>4. /\ Keeps(t, v) /\ v.dir = t.dir /\ v.open = t.open
          /\ v.newest = With(t.newest, n.id, less)
          /\ v.disk = With(t.disk, n.id, less)
      <4>1. Sound(t)
        BY <2>3
      <4> HIDE DEF less, t
      <4> QED BY <4>1, <3>3, WriteINodeFields
    <3>5. Keeps(n.s, v)
      <4> HIDE DEF v, t
      <4> QED BY <2>3, <3>4, KeepsTrans
    <3>6. less = Less(n.s.newest[n.id])
      BY <2>4
    <3> HIDE DEF v, t, node, less, s
    <3> QED BY <1>3, <2>1, <2>2, <2>4, <2>6, <3>1, <3>2, <3>4, <3>5, <3>6 DEF ReadTo, w
  <2> QED BY <2>5, <2>6
<1> QED BY <1>5, <1>6

\* Forgetting a cached inode that is on disk.
LEMMA UncacheFields ==
  ASSUME NEW s, Sound(s), NEW i \in INode,
         i \in DOMAIN s.cache => s.disk[i] = s.newest[i]
  PROVE  LET t == [s EXCEPT !.cache = Without(s.cache, i)]
         IN  /\ Keeps(s, t)
             /\ t.dir = s.dir /\ t.disk = s.disk /\ t.open = s.open
             /\ t.newest = s.newest /\ t.table = s.table
<1> DEFINE c == Without(s.cache, i)
           t == [s EXCEPT !.cache = c]
<1>1. s \in States
  BY DEF Sound
<1>2. /\ DOMAIN c = DOMAIN s.cache \ {i}
      /\ \A j \in DOMAIN c : c[j] = s.cache[j]
  BY DEF Without
<1>3. c \in Partial(INodeType)
  <2>1. c = [j \in DOMAIN c |-> c[j]]
    BY DEF Without
  <2> HIDE DEF c
  <2> QED BY <1>1, <1>2, <2>1, StatesFields, PartialFunction
<1> HIDE DEF c
<1>4. /\ t \in States
      /\ t.dir = s.dir /\ t.disk = s.disk /\ t.table = s.table
      /\ t.cache = c /\ t.open = s.open /\ t.newest = s.newest
  BY <1>1, <1>3, SetCache
<1> HIDE DEF t
<1>5. ASSUME NEW j \in INode
      PROVE  InCore(t, j) = t.newest[j]
  <2>1. InCore(s, j) = s.newest[j]
    BY DEF Sound
  <2> QED BY <2>1, <1>2, <1>4 DEF InCore
<1>6. Sound(t)
  BY <1>2, <1>4, <1>5 DEF Sound, Apart, OpenAgree, RootStays
<1>7. StaysOpen(s, t)
  <2>1. \A j \in DOMAIN s.table : s.newest[j] \in INodeType
    BY <1>1, StatesFields
  <2> QED BY <2>1, <1>4, NodeFields DEF StaysOpen
<1>8. Keeps(s, t)
  BY <1>4, <1>6, <1>7 DEF Keeps
<1> QED BY <1>4, <1>8 DEF t, c

\* The end of l2_unlink keeps all: an open inode is not freed.
LEMMA DropFields ==
  ASSUME NEW s, Sound(s), NEW d \in INode, NEW name \in Key, NEW i \in INode \ {Root}
  PROVE  LET u == Drop(s, d, name, i)
             f == FreeUnlessOpen(s, i)
         IN  /\ Keeps(s, u)
             /\ IF i \in DOMAIN s.table
                  THEN f.dir = s.dir /\ f.newest = s.newest /\ f.disk = s.disk
                  ELSE /\ f.dir = With(s.dir, i, <<>>)
                       /\ f.newest = With(s.newest, i, Node("FREE", 0))
                       /\ f.disk = With(s.disk, i, Node("FREE", 0))
             /\ u.open = s.open /\ u.newest = f.newest /\ u.disk = f.disk
             /\ u.dir = With(f.dir, d, Overwrite(f.dir[d], name,
                                                 [key |-> name, id |-> Removed]))
<1> DEFINE f     == FreeUnlessOpen(s, i)
           entry == [key |-> name, id |-> Removed]
           t     == PutAll(f, d, name, entry)
           u     == [t EXCEPT !.cache = Without(t.cache, i)]
<1>1. /\ Keeps(s, f) /\ Sound(f)
      /\ i \in DOMAIN f.cache => f.disk[i] = f.newest[i]
      /\ f.open = s.open
      /\ IF i \in DOMAIN s.table
           THEN f.dir = s.dir /\ f.newest = s.newest /\ f.disk = s.disk
           ELSE /\ f.dir = With(s.dir, i, <<>>)
                /\ f.newest = With(s.newest, i, Node("FREE", 0))
                /\ f.disk = With(s.disk, i, Node("FREE", 0))
  <2>1. CASE i \in DOMAIN s.table
    <3>1. f = s
      BY <2>1 DEF FreeUnlessOpen
    <3>2. Keeps(s, s)
      BY ReadToSelf, ReadKeeps DEF Sound
    <3> HIDE DEF f
    <3> QED BY <2>1, <3>1, <3>2 DEF Sound, Apart
  <2>2. CASE i \notin DOMAIN s.table
    <3>1. f = FreeINode(s, i)
      BY <2>2 DEF FreeUnlessOpen
    <3>2. /\ Keeps(s, f)
          /\ f.disk = With(s.disk, i, Node("FREE", 0))
          /\ f.newest = With(s.newest, i, Node("FREE", 0))
          /\ f.dir = With(s.dir, i, <<>>) /\ f.open = s.open
      <4> HIDE DEF f
      <4> QED BY <2>2, <3>1, FreeINodeFields
    <3>3. s.disk \in [INode -> INodeType] /\ s.newest \in [INode -> INodeType]
      BY StatesFields DEF Sound
    <3> HIDE DEF f
    <3> QED BY <2>2, <3>2, <3>3 DEF Keeps, With
  <2> QED BY <2>1, <2>2
<1>2. /\ Keeps(f, t) /\ Sound(t)
      /\ i \in DOMAIN t.cache => t.disk[i] = t.newest[i]
      /\ t.disk = f.disk /\ t.newest = f.newest /\ t.open = f.open
      /\ t.dir = With(f.dir, d, Overwrite(f.dir[d], name, entry))
  <2>1. entry \in Slot
    BY Zenon DEF Slot, Key
  <2>2. entry.id # Root
    BY PathAssumption, Zenon
  <2>3. /\ Keeps(f, t)
        /\ t.disk = f.disk /\ t.newest = f.newest /\ t.cache = f.cache
        /\ t.open = f.open
        /\ t.dir = With(f.dir, d, Overwrite(f.dir[d], name, entry))
    <3>1. Sound(f)
      BY <1>1
    <3> HIDE DEF entry, f
    <3> QED BY <3>1, <2>1, <2>2, PutAllFields
  <2> HIDE DEF t, f
  <2> QED BY <1>1, <2>3 DEF Keeps
<1>3. /\ Keeps(t, u)
      /\ u.dir = t.dir /\ u.disk = t.disk /\ u.open = t.open /\ u.newest = t.newest
  <2> HIDE DEF t
  <2> QED BY <1>2, UncacheFields
<1>4. u = Drop(s, d, name, i)
  BY DEF Drop
<1> HIDE DEF f, t, u, entry
<1>5. Keeps(s, t)
  BY <1>1, <1>2, KeepsTrans
<1>6. Keeps(s, u)
  BY <1>3, <1>5, KeepsTrans
<1> QED BY <1>1, <1>2, <1>3, <1>4, <1>6 DEF f, entry

\* To do nothing keeps all; so does looking up a path.
LEMMA KeepsSelf ==
  ASSUME NEW s, Sound(s)
  PROVE  Keeps(s, s)
BY ReadToSelf, ReadKeeps DEF Sound

LEMMA NameiKeeps ==
  ASSUME NEW s, Sound(s), NEW p, Len(p) \in Nat
  PROVE  /\ Keeps(s, Namei(s, p).s) /\ Sound(Namei(s, p).s)
         /\ Namei(s, p).s.dir = s.dir /\ Namei(s, p).s.open = s.open
         /\ Namei(s, p).s.newest = s.newest /\ Namei(s, p).s.disk = s.disk
         /\ Namei(s, p).id \in Ids
         /\ Len(p) > 0 => Namei(s, p).id # Root
<1>1. /\ ReadTo(s, Namei(s, p).s)
      /\ Namei(s, p).id \in Ids
      /\ Len(p) > 0 => Namei(s, p).id # Root
  BY NameiReads
<1>2. Keeps(s, Namei(s, p).s)
  BY <1>1, ReadKeeps
<1> QED BY <1>1, <1>2 DEF ReadTo, Keeps

\* The beginning of l2_unlink keeps all; it never goes on with the root.
LEMMA UnlinkingFields ==
  ASSUME NEW s, Sound(s), NEW p \in Seq(Key), Len(p) > 0
  PROVE  LET w == Unlinking(s, p)
         IN  /\ Keeps(s, w.s) /\ Sound(w.s)
             /\ w.ok => w.d \in INode /\ w.id \in INode \ {Root}
<1> DEFINE d == Namei(s, Front(p))
           n == Namei(d.s, p)
           w == TakeLink(d.id, n)
<1>1. /\ Front(p) \in Seq(Key) /\ Len(Front(p)) = Len(p) - 1
      /\ Len(p) \in Nat /\ Len(p) - 1 \in Nat
  BY FrontSeq
<1>2. Keeps(s, d.s) /\ Sound(d.s) /\ d.id \in Ids
  BY <1>1, NameiKeeps
<1>3. Keeps(d.s, n.s) /\ Sound(n.s) /\ n.id \in Ids \ {Root}
  <2> HIDE DEF d
  <2> QED BY <1>1, <1>2, NameiKeeps
<1>4. /\ Keeps(n.s, w.s)
      /\ w.ok => w.d \in INode /\ w.id \in INode \ {Root}
  <2>1. /\ Keeps(n.s, w.s)
        /\ w.d = d.id /\ w.id = n.id
        /\ w.ok <=> /\ d.id \in INode /\ n.id \in INode
                    /\ n.s.newest[n.id].links # 0
    <3>1. d.id \in Ids
      BY <1>2
    <3>2. Sound(n.s)
      BY <1>3
    <3>3. n.id \in Ids \ {Root}
      BY <1>3
    <3> HIDE DEF d, n
    <3> QED BY <3>1, <3>2, <3>3, TakeLinkFields
  <2> HIDE DEF w, n, d
  <2> QED BY <2>1, <1>3
<1>5. Unlinking(s, p) = w
  BY DEF Unlinking
<1> HIDE DEF d, n, w
<1>6. Keeps(s, n.s)
  BY <1>2, <1>3, KeepsTrans
<1>7. Keeps(s, w.s)
  BY <1>4, <1>6, KeepsTrans
<1> QED BY <1>4, <1>5, <1>7 DEF Keeps

\* l2_unlink of one entry keeps all.
LEMMA UnlinkEntryKeeps ==
  ASSUME NEW u, Sound(u.s), NEW p \in Seq(Key), Len(p) > 0
  PROVE  Keeps(u.s, UnlinkEntry(u, p).s)
<1> DEFINE w == Unlinking(u.s, p)
           t == Drop(w.s, w.d, Last(p), w.id)
<1>1. /\ Keeps(u.s, w.s) /\ Sound(w.s)
      /\ w.ok => w.d \in INode /\ w.id \in INode \ {Root}
  BY UnlinkingFields
<1>2. Last(p) \in Key
  BY FrontSeq
<1>3. UnlinkEntry(u, p).s = IF w.ok THEN t ELSE w.s
  BY DEF UnlinkEntry
<1>4. w.ok => Keeps(w.s, t)
  <2> HIDE DEF w
  <2> QED BY <1>1, <1>2, DropFields
<1> HIDE DEF w, t
<1> QED BY <1>1, <1>3, <1>4, KeepsTrans

\* The path of an entry below a directory.
LEMMA AppendSeq ==
  ASSUME NEW X, NEW p \in Seq(X), NEW x \in X
  PROVE  /\ Append(p, x) \in Seq(X) /\ Len(Append(p, x)) > 0
         /\ Front(Append(p, x)) = p /\ Last(Append(p, x)) = x
<1>1. /\ Append(p, x) \in Seq(X) /\ Len(Append(p, x)) = Len(p) + 1 /\ Len(p) \in Nat
      /\ \A k \in 1 .. Len(p) : Append(p, x)[k] = p[k]
      /\ Append(p, x)[Len(p) + 1] = x
  OBVIOUS
<1>2. Front(Append(p, x)) = p
  <2> DEFINE q == Append(p, x)
  <2>1. q \in Seq(X) /\ Len(q) > 0
    BY <1>1
  <2>2. /\ Front(q) \in Seq(X) /\ Len(Front(q)) = Len(q) - 1
        /\ \A k \in 1 .. Len(q) - 1 : Front(q)[k] = q[k]
    <3> HIDE DEF q
    <3> QED BY <2>1, FrontSeq
  <2>3. Len(Front(q)) = Len(p) /\ \A k \in 1 .. Len(Front(q)) : Front(q)[k] = p[k]
    BY <1>1, <2>2
  <2> HIDE DEF q
  <2>4. Front(q) = p
    BY <2>2, <2>3, SeqEqual
  <2> QED BY <2>4 DEF q
<1> QED BY <1>1, <1>2 DEF Last

\* So does that of one slot, removed or not.
LEMMA UnlinkSlotKeeps ==
  ASSUME NEW u, Sound(u.s), NEW p \in Seq(Key), NEW slot \in Slot
  PROVE  Keeps(u.s, UnlinkSlot(u, p, slot).s)
<1>1. slot.key \in Key
  BY Zenon DEF Slot, Key
<1>2. Append(p, slot.key) \in Seq(Key) /\ Len(Append(p, slot.key)) > 0
  BY <1>1, AppendSeq
<1>3. Keeps(u.s, UnlinkEntry(u, Append(p, slot.key)).s)
  BY <1>2, UnlinkEntryKeeps
<1> QED BY <1>3, KeepsSelf DEF UnlinkSlot

\* Where the loop of l2_unlink begins, and its first n steps.
Start(s) == [ok |-> TRUE, s |-> s]

IsRun(u, s, p, slots, n) ==
  u = [k \in 0 .. n |-> IF k = 0 THEN Start(s)
                        ELSE UnlinkSlot(u[k - 1], p, slots[k])]

\* The function that defines UnlinkAll exists, and UnlinkAll is its last value.
LEMMA RunExists ==
  ASSUME NEW s, NEW p, NEW slots, NEW N \in Nat
  PROVE  \E u : IsRun(u, s, p, slots, N)
<1> DEFINE S == {n \in 0 .. N : \E u : IsRun(u, s, p, slots, n)}
<1>1. 0 \in S
  <2> DEFINE u == [k \in 0 .. 0 |-> Start(s)]
  <2>1. IsRun(u, s, p, slots, 0)
    BY DEF IsRun
  <2> HIDE DEF u
  <2> QED BY <2>1
<1>2. ASSUME NEW n \in 0 .. N - 1, n \in S
      PROVE  n + 1 \in S
  <2>1. PICK u : IsRun(u, s, p, slots, n)
    BY <1>2
  <2> DEFINE v == [k \in 0 .. n + 1 |-> IF k <= n THEN u[k]
                                        ELSE UnlinkSlot(u[n], p, slots[n + 1])]
  <2>2. ASSUME NEW k \in 0 .. n + 1
        PROVE  v[k] = IF k = 0 THEN Start(s)
                      ELSE UnlinkSlot(v[k - 1], p, slots[k])
    BY <2>1 DEF IsRun
  <2>3. IsRun(v, s, p, slots, n + 1)
    BY <2>2 DEF IsRun
  <2> HIDE DEF v
  <2> QED BY <2>3
<1>3. \A n \in 0 .. N : n \in S
  <2> HIDE DEF S
  <2> QED BY <1>1, <1>2, UpTo
<1> QED BY <1>3

LEMMA RunIs ==
  ASSUME NEW s, NEW p, NEW slots, Len(slots) \in Nat
  PROVE  \E u : IsRun(u, s, p, slots, Len(slots)) /\ UnlinkAll(s, p, slots) = u[Len(slots)]
<1> DEFINE u == CHOOSE u : IsRun(u, s, p, slots, Len(slots))
<1>1. IsRun(u, s, p, slots, Len(slots))
  BY RunExists
<1>2. UnlinkAll(s, p, slots) = u[Len(slots)]
  BY DEF UnlinkAll, IsRun, Start
<1> QED BY <1>1, <1>2

\* l2_unlink of all entries below a directory keeps all, by induction over the
\* slots.
LEMMA UnlinkAllKeeps ==
  ASSUME NEW s, Sound(s), NEW p \in Seq(Key), NEW slots \in Seq(Slot)
  PROVE  Keeps(s, UnlinkAll(s, p, slots).s)
<1>1. Len(slots) \in Nat /\ \A k \in 1 .. Len(slots) : slots[k] \in Slot
  OBVIOUS
<1>2. PICK u : /\ IsRun(u, s, p, slots, Len(slots))
               /\ UnlinkAll(s, p, slots) = u[Len(slots)]
  BY <1>1, RunIs
<1> DEFINE S == {n \in 0 .. Len(slots) : Keeps(s, u[n].s)}
<1>3. 0 \in S
  <2>1. u[0] = Start(s)
    BY <1>1, <1>2 DEF IsRun
  <2>2. u[0].s = s
    BY <2>1 DEF Start
  <2> QED BY <2>2, <1>1, KeepsSelf
<1>4. ASSUME NEW n \in 0 .. Len(slots) - 1, n \in S
      PROVE  n + 1 \in S
  <2>1. u[n + 1] = UnlinkSlot(u[n], p, slots[n + 1])
    BY <1>1, <1>2 DEF IsRun
  <2>2. Sound(u[n].s) /\ Keeps(s, u[n].s)
    BY <1>4 DEF Keeps
  <2>3. slots[n + 1] \in Slot /\ n + 1 \in 0 .. Len(slots)
    BY <1>1
  <2>4. Keeps(u[n].s, u[n + 1].s)
    BY <2>1, <2>2, <2>3, UnlinkSlotKeeps
  <2>5. Keeps(s, u[n + 1].s)
    BY <2>2, <2>4, KeepsTrans
  <2> QED BY <2>3, <2>5
<1>5. \A n \in 0 .. Len(slots) : n \in S
  <2> HIDE DEF S
  <2> QED BY <1>1, <1>3, <1>4, UpTo
<1> QED BY <1>1, <1>2, <1>5

-----------------------------------------------------------------------------
(* Paths.                                                                    *)

\* The paths calls are made with, their parents and last names.
LEMMA PathFields ==
  ASSUME NEW p \in Path
  PROVE  /\ p \in Seq(Key) /\ Len(p) > 0 /\ Len(p) \in 1 .. 2
         /\ Len(p) = 1 => p = <<p[1]>>
         /\ Len(p) = 2 => p = <<p[1], p[2]>>
         /\ Front(p) \in Seq(Key) /\ Len(Front(p)) = Len(p) - 1
         /\ Len(Front(p)) \in Nat
         /\ Len(p) = 2 => Front(p)[1] = p[1]
         /\ Last(p) = p[Len(p)] /\ Last(p) \in Key
<1>1. p \in Seq(Name) /\ Len(p) \in 1 .. 2
  BY PathAssumption, Zenon
<1>2. p \in Seq(Key)
  <2>1. p \in [1 .. Len(p) -> Name] /\ Len(p) \in Nat
    BY <1>1
  <2>2. p \in [1 .. Len(p) -> Key]
    BY <2>1, Zenon DEF Key
  <2> QED BY <2>1, <2>2, SeqDef
<1>3. /\ Front(p) \in Seq(Key) /\ Len(Front(p)) = Len(p) - 1
      /\ \A k \in 1 .. Len(p) - 1 : Front(p)[k] = p[k]
      /\ Last(p) = p[Len(p)] /\ Last(p) \in Key
  <2>1. Len(p) > 0
    BY <1>1
  <2> QED BY <1>2, <2>1, FrontSeq
<1>4. Len(p) = 1 => p = <<p[1]>>
  BY <1>2
<1>5. Len(p) = 2 => p = <<p[1], p[2]>>
  BY <1>2
<1>6. Len(p) > 0 /\ Len(Front(p)) \in Nat /\ (Len(p) = 2 => Front(p)[1] = p[1])
  BY <1>1, <1>3
<1> QED BY <1>1, <1>2, <1>3, <1>4, <1>5, <1>6

\* Only the walk of the empty path ends at the root.
LEMMA WalkIds ==
  ASSUME NEW s, Sound(s), NEW p, Len(p) \in 0 .. 2
  PROVE  /\ Len(p) = 0 => Walk(s, p).id = Root
         /\ Len(p) = 1 => Walk(s, p).id = NextId(s, Root, p[1])
         /\ Len(p) = 2 => Walk(s, p).id = NextId(s, NextId(s, Root, p[1]), p[2])
<1>1. PICK w : IsWalk(w, s, p, Len(p)) /\ Walk(s, p) = w[Len(p)]
  BY WalkIs
<1>2. w[0] = [s |-> s, id |-> Root]
  BY <1>1 DEF IsWalk
<1>3. ReadTo(s, w[0].s) /\ w[0].id = Root
  BY <1>2, ReadToSelf DEF Sound
<1>4. ASSUME Len(p) > 0
      PROVE  ReadTo(s, w[1].s) /\ w[1].id = NextId(s, Root, p[1])
  <2>1. w[1] = WalkStep(w[0], p[1])
    BY <1>1, <1>4 DEF IsWalk
  <2>2. w[0].id \in Ids
    BY <1>3, PathAssumption, Zenon DEF Ids
  <2> QED BY <1>3, <2>1, <2>2, WalkStepReads
<1>5. ASSUME Len(p) = 2
      PROVE  w[2].id = NextId(s, NextId(s, Root, p[1]), p[2])
  <2>1. w[2] = WalkStep(w[1], p[2])
    BY <1>1, <1>5 DEF IsWalk
  <2>2. Root \in Ids
    BY PathAssumption, Zenon DEF Ids
  <2>3. NextId(s, Root, p[1]) \in Ids
    BY <2>2, NextIdType
  <2>4. ReadTo(s, w[1].s) /\ w[1].id = NextId(s, Root, p[1])
    BY <1>4, <1>5
  <2> QED BY <2>1, <2>3, <2>4, WalkStepReads
<1>6. Len(p) = 0 => Walk(s, p).id = Root
  BY <1>1, <1>3
<1>7. Len(p) = 1 => Walk(s, p).id = NextId(s, Root, p[1])
  BY <1>1, <1>4
<1>8. Len(p) = 2 => Walk(s, p).id = NextId(s, NextId(s, Root, p[1]), p[2])
  BY <1>1, <1>5
<1> QED BY <1>6, <1>7, <1>8

\* Each open path is one of the paths calls are made with.
LEMMA OpenPaths ==
  ASSUME NEW s, Sound(s), NEW k \in DOMAIN s.open
  PROVE  /\ s.open[k] \in OpenFile
         /\ s.open[k] = [path |-> s.open[k].path, id |-> s.open[k].id,
                         ops |-> s.open[k].ops]
         /\ s.open[k].path \in Path /\ s.open[k].id \in INode
         /\ s.open[k].ops \in [Op -> Nat]
<1>1. s.open[k] \in OpenFile
  BY StatesFields DEF Sound
<1> QED BY <1>1 DEF OpenFile

\* Storing the open files, with the same inodes and operations.
LEMMA SetOpenFields ==
  ASSUME NEW s, Sound(s), NEW o \in Seq(OpenFile), DOMAIN o = DOMAIN s.open,
         \A k \in DOMAIN o : o[k].id = s.open[k].id /\ o[k].ops = s.open[k].ops
  PROVE  LET t == [s EXCEPT !.open = o]
         IN  /\ Keeps(s, t)
             /\ t.dir = s.dir /\ t.disk = s.disk /\ t.table = s.table
             /\ t.cache = s.cache /\ t.newest = s.newest /\ t.open = o
<1> DEFINE t == [s EXCEPT !.open = o]
<1>1. /\ t \in States
      /\ t.dir = s.dir /\ t.disk = s.disk /\ t.table = s.table
      /\ t.cache = s.cache /\ t.newest = s.newest /\ t.open = o
  BY StatesFields DEF Sound, States
<1> HIDE DEF t
<1>2. OpenAgree(t)
  BY SMTT(30), <1>1 DEF Sound, OpenAgree
<1>3. \A i \in INode : InCore(t, i) = InCore(s, i)
  BY <1>1 DEF InCore
<1>4. Sound(t)
  BY <1>1, <1>2, <1>3 DEF Sound, Apart, RootStays
<1>5. StaysOpen(s, t)
  <2>1. \A i \in DOMAIN s.table : s.newest[i] \in INodeType
    BY StatesFields DEF Sound
  <2> QED BY <2>1, <1>1, NodeFields DEF StaysOpen
<1> QED BY <1>1, <1>4, <1>5 DEF Keeps, t

\* The new path of an open file that is renamed keeps all.
LEMMA MovePathFields ==
  ASSUME NEW s, Sound(s), NEW p \in Path, NEW q \in Path
  PROVE  LET t == MovePath(s, p, q)
         IN  /\ Keeps(s, t)
             /\ t.dir = s.dir /\ t.disk = s.disk /\ t.table = s.table
             /\ t.cache = s.cache /\ t.newest = s.newest
             /\ DOMAIN t.open = DOMAIN s.open
             /\ \A k \in DOMAIN s.open :
                  /\ t.open[k].id = s.open[k].id /\ t.open[k].ops = s.open[k].ops
                  /\ t.open[k].path = IF EntryOf(s, p) # {} /\ k = Min(EntryOf(s, p))
                                        THEN q ELSE s.open[k].path
<1>1. CASE EntryOf(s, p) = {}
  BY <1>1, KeepsSelf DEF MovePath
<1>2. CASE EntryOf(s, p) # {}
  <2> DEFINE k == Min(EntryOf(s, p))
             moved == [path |-> q, id |-> s.open[k].id, ops |-> s.open[k].ops]
             o == With(s.open, k, moved)
             t == [s EXCEPT !.open = o]
  <2>1. /\ k \in DOMAIN s.open /\ DOMAIN s.open = 1 .. Len(s.open)
        /\ Len(s.open) \in Nat
    BY <1>2, EntryIn
  <2> HIDE DEF k
  <2>2. /\ s.open[k].id \in INode /\ s.open[k].ops \in [Op -> Nat]
        /\ s.open[k] = [path |-> s.open[k].path, id |-> s.open[k].id,
                        ops |-> s.open[k].ops]
    BY <2>1, OpenPaths
  <2>3. moved \in OpenFile /\ moved = [s.open[k] EXCEPT !.path = q]
    BY <2>2 DEF OpenFile
  <2>4. moved.path = q /\ moved.id = s.open[k].id /\ moved.ops = s.open[k].ops
    OBVIOUS
  <2>5. MovePath(s, p, q) = t
    <3>1. MovePath(s, p, q) = [s EXCEPT !.open[k].path = q]
      BY <1>2 DEF MovePath, k
    <3>2. o = [s.open EXCEPT ![k] = [s.open[k] EXCEPT !.path = q]]
      <4> HIDE DEF moved
      <4> QED BY <2>3 DEF With
    <3> HIDE DEF o
    <3> QED BY <3>1, <3>2
  <2> HIDE DEF moved
  <2>6. /\ DOMAIN o = DOMAIN s.open /\ o[k] = moved
        /\ \A j \in DOMAIN s.open \ {k} : o[j] = s.open[j]
    BY <2>1 DEF With
  <2>7. o \in Seq(OpenFile)
    <3>1. \A j \in DOMAIN s.open : s.open[j] \in OpenFile
      BY OpenPaths
    <3>2. o \in [1 .. Len(s.open) -> OpenFile]
      BY <3>1, <2>1, <2>3 DEF With
    <3> HIDE DEF o
    <3> QED BY <3>2, <2>1, SeqDef
  <2> HIDE DEF o
  <2>8. \A j \in DOMAIN o : o[j].id = s.open[j].id /\ o[j].ops = s.open[j].ops
    BY <2>4, <2>6
  <2>9. /\ Keeps(s, t)
        /\ t.dir = s.dir /\ t.disk = s.disk /\ t.table = s.table
        /\ t.cache = s.cache /\ t.newest = s.newest /\ t.open = o
    BY <2>6, <2>7, <2>8, SetOpenFields
  <2> HIDE DEF t
  <2> QED BY <1>2, <2>4, <2>5, <2>6, <2>8, <2>9 DEF k
<1> QED BY <1>1, <1>2

\* A path leads to the same inode from states that agree on it.
LEMMA NameiSame ==
  ASSUME NEW s, Sound(s), NEW t, Sound(t), NEW p, Len(p) \in 0 .. 2,
         t.dir = s.dir, t.newest = s.newest,
         EntryOf(t, p) = EntryOf(s, p),
         \A k \in EntryOf(s, p) : t.open[k].id = s.open[k].id
  PROVE  Namei(t, p).id = Namei(s, p).id
<1>1. CASE EntryOf(s, p) = {}
  <2>1. \A i, name : NextId(t, i, name) = NextId(s, i, name)
    BY DEF NextId
  <2>2. Walk(t, p).id = Walk(s, p).id
    BY <2>1, WalkIds
  <2> QED BY <1>1, <2>2 DEF Namei
<1>2. CASE EntryOf(s, p) # {}
  <2>1. Min(EntryOf(s, p)) \in EntryOf(s, p)
    <3>1. /\ Min(EntryOf(s, p)) \in DOMAIN s.open
          /\ s.open[Min(EntryOf(s, p))].path = p
      BY EntryIn, <1>2
    <3> QED BY <3>1 DEF EntryOf
  <2> QED BY <1>2, <2>1 DEF Namei
<1> QED BY <1>1, <1>2

\* The parent of a path p is not the path q when q is not a prefix of p.
LEMMA PrefixPaths ==
  ASSUME NEW p \in Path, NEW q \in Path, ~IsPrefix(p, q), ~IsPrefix(q, p)
  PROVE  /\ p # q /\ Front(p) # q /\ Front(q) # p
         /\ Len(p) = 1 => p[1] # q[1]
<1>1. /\ p \in Seq(Key) /\ q \in Seq(Key) /\ Len(p) \in 1 .. 2 /\ Len(q) \in 1 .. 2
      /\ Len(Front(p)) = Len(p) - 1 /\ Len(Front(q)) = Len(q) - 1
      /\ Len(p) = 2 => Front(p)[1] = p[1]
      /\ Len(q) = 2 => Front(q)[1] = q[1]
  BY PathFields
<1>2. ASSUME NEW x \in Path, NEW y \in Path, Len(x) = 1, x[1] = y[1]
      PROVE  IsPrefix(x, y)
  <2>1. x \in Seq(Key) /\ y \in Seq(Key) /\ Len(y) \in 1 .. 2
    BY PathFields
  <2>2. SubSeq(x, 1, 1) = SubSeq(y, 1, 1)
    BY <1>2, <2>1
  <2> QED BY <1>2, <2>1, <2>2 DEF IsPrefix
<1>3. p # q
  BY <1>1 DEF IsPrefix
<1>4. Front(p) # q
  <2> SUFFICES ASSUME Front(p) = q PROVE FALSE
    OBVIOUS
  <2>1. Len(q) = 1 /\ Len(p) = 2
    BY <1>1
  <2>2. q[1] = p[1]
    BY <1>1, <2>1
  <2> QED BY <1>2, <2>1, <2>2
<1>5. Front(q) # p
  <2> SUFFICES ASSUME Front(q) = p PROVE FALSE
    OBVIOUS
  <2>1. Len(p) = 1 /\ Len(q) = 2
    BY <1>1
  <2>2. p[1] = q[1]
    BY <1>1, <2>1
  <2> QED BY <1>2, <2>1, <2>2
<1> QED BY <1>2, <1>3, <1>4, <1>5

\* A slot that l2_rename has cleared.
Cleared == [key |-> "", id |-> Removed]

\* The beginning of l2_rename keeps all; the inode that is moved is not the root.
LEMMA TakeNameFields ==
  ASSUME Sound(State), NEW p \in Path, NEW q \in Path,
         ~IsPrefix(p, q), ~IsPrefix(q, p), Listed(State, p)
  PROVE  LET x == TakeName(p, q)
             d == Namei(State, Front(p)).id
         IN  /\ Keeps(State, x.s) /\ Sound(x.s)
             /\ d \in INode
             /\ x.id \in INode \union {Removed} /\ x.id # Root
             /\ x.s.dir = With(dir, d, Overwrite(dir[d], Last(p), Cleared))
             /\ x.s.newest = newest /\ x.s.disk = disk
             /\ x.s.open = MovePath(State, p, q).open
             /\ x.id = dir[d][Max(SlotsNamed(dir[d], Last(p)))].id
             /\ x.many <=> Cardinality(SlotsNamed(dir[d], Last(p))) > 1
<1> DEFINE s == State
           m == MovePath(s, p, q)
           f == Front(p)
           d == Namei(m, f)
           r == ReadINode(d.s, {d.id})
           slots == SlotsNamed(r.dir[d.id], Last(p))
           t     == PutAll(r, d.id, Last(p), Cleared)
           id    == r.dir[d.id][Max(slots)].id
<1>1. /\ Sound(s) /\ s.dir = dir /\ s.open = open
      /\ s.newest = newest /\ s.disk = disk
  BY DEF State
<1>2. /\ f \in Seq(Key) /\ Len(f) \in 0 .. 2 /\ f # p /\ f # q /\ Last(p) \in Key
      /\ Len(f) \in Nat
  <2>1. /\ f \in Seq(Key) /\ Len(f) = Len(p) - 1 /\ Len(p) \in 1 .. 2
        /\ Last(p) \in Key
    BY PathFields
  <2>2. f # q
    BY PrefixPaths
  <2>3. f # p
    BY <2>1
  <2> QED BY <2>1, <2>2, <2>3
<1>3. /\ Keeps(s, m) /\ Sound(m)
      /\ m.dir = s.dir /\ m.newest = s.newest /\ m.disk = s.disk
      /\ DOMAIN m.open = DOMAIN s.open
      /\ \A k \in DOMAIN s.open :
           /\ m.open[k].id = s.open[k].id
           /\ m.open[k].path = IF EntryOf(s, p) # {} /\ k = Min(EntryOf(s, p))
                                 THEN q ELSE s.open[k].path
  <2> HIDE DEF s
  <2> QED BY <1>1, MovePathFields DEF Keeps
<1>4. d.id = Namei(s, f).id
  <2>1. EntryOf(s, p) # {} => /\ Min(EntryOf(s, p)) \in DOMAIN s.open
                              /\ s.open[Min(EntryOf(s, p))].path = p
    BY <1>1, EntryIn
  <2>2. EntryOf(m, f) = EntryOf(s, f)
    <3> HIDE DEF s, m, f
    <3> QED BY <1>2, <1>3, <2>1 DEF EntryOf
  <2>3. \A k \in EntryOf(s, f) : m.open[k].id = s.open[k].id
    BY <1>3 DEF EntryOf
  <2> HIDE DEF s, m, f
  <2> QED BY <1>1, <1>2, <1>3, <2>2, <2>3, NameiSame
<1>5. d.id \in INode /\ LiveNamed(s.dir[d.id], Last(p)) # {}
  <2>1. Found(d.id) /\ LiveNamed(s.dir[d.id], Last(p)) # {}
    BY <1>4 DEF Listed
  <2>2. d.id \in Ids
    <3> HIDE DEF m, f
    <3> QED BY <1>2, <1>3, NameiKeeps
  <2> QED BY <2>1, <2>2 DEF Found, Ids
<1>6. /\ Keeps(m, d.s) /\ Sound(d.s) /\ d.s.dir = s.dir
      /\ d.s.newest = s.newest /\ d.s.disk = s.disk /\ d.s.open = m.open
  <2> HIDE DEF m, f, s
  <2> QED BY <1>2, <1>3, NameiKeeps
<1>7. /\ Keeps(d.s, r) /\ Sound(r) /\ r.dir = s.dir
      /\ r.newest = s.newest /\ r.disk = s.disk /\ r.open = m.open
  <2>1. d.s \in States
    BY <1>6 DEF Sound
  <2>2. ReadTo(d.s, r)
    <3> HIDE DEF d
    <3> QED BY <1>5, <2>1, ReadINodeReads
  <2> HIDE DEF d, r, s
  <2> QED BY <1>6, <2>2, ReadKeeps DEF ReadTo, Keeps
<1>8. /\ Keeps(r, t) /\ Sound(t)
      /\ t.dir = With(s.dir, d.id, Overwrite(s.dir[d.id], Last(p), Cleared))
      /\ t.newest = s.newest /\ t.disk = s.disk /\ t.open = m.open
  <2>1. Cleared \in Slot
    BY DEF Slot, Cleared
  <2>2. Cleared.id # Root
    BY PathAssumption, Zenon DEF Cleared
  <2>3. d.id \in INode /\ Sound(r)
    BY <1>5, <1>7
  <2>4. /\ Keeps(r, t) /\ t.dir = With(r.dir, d.id, Overwrite(r.dir[d.id], Last(p), Cleared))
        /\ t.newest = r.newest /\ t.disk = r.disk /\ t.open = r.open
    <3> HIDE DEF d, r, s
    <3> QED BY <2>1, <2>2, <2>3, PutAllFields
  <2> HIDE DEF d, r, s, t
  <2> QED BY <2>4, <1>7 DEF Keeps
<1>9. id \in INode \union {Removed} /\ id # Root
  <2> DEFINE all == s.dir[d.id]
             named == SlotsNamed(all, Last(p))
  <2>1. all \in Seq(Slot)
    BY <1>1, <1>5, StatesFields DEF Sound
  <2>2. /\ named \subseteq 1 .. Len(all) /\ Len(all) \in Nat /\ named # {}
        /\ DOMAIN all = 1 .. Len(all)
        /\ \A k \in DOMAIN all : all[k].id \in INode \union {Removed}
    <3> HIDE DEF all
    <3> QED BY <2>1, <1>5, LiveSlots, Zenon DEF all
  <2>3. Max(named) \in DOMAIN all
    <3> HIDE DEF all, named
    <3> QED BY <2>2, MaxIn
  <2>4. \A k \in DOMAIN all : all[k].id # Root
    BY <1>1, <1>5 DEF Sound, RootStays
  <2>5. id = all[Max(named)].id
    BY <1>7
  <2> HIDE DEF id, all, named
  <2> QED BY <2>2, <2>3, <2>4, <2>5
<1>10. /\ TakeName(p, q).s = t /\ TakeName(p, q).id = id
       /\ TakeName(p, q).many <=> Cardinality(slots) > 1
  <2>1. TakeName(p, q) = [s |-> t, id |-> id, many |-> Cardinality(slots) > 1]
    BY DEF TakeName, Cleared
  <2> HIDE DEF t, id, slots
  <2>2. /\ TakeName(p, q).s = t /\ TakeName(p, q).id = id
        /\ TakeName(p, q).many = (Cardinality(slots) > 1)
    BY <2>1
  <2> QED BY <2>2
<1>11. Keeps(s, t)
  <2> HIDE DEF s, m, d, r, t
  <2>1. Keeps(s, d.s)
    BY <1>1, <1>3, <1>6, KeepsTrans
  <2>2. Keeps(s, r)
    BY <1>1, <1>7, <2>1, KeepsTrans
  <2> QED BY <1>1, <1>8, <2>2, KeepsTrans
<1>12. t.dir = With(dir, Namei(State, Front(p)).id,
                    Overwrite(dir[Namei(State, Front(p)).id], Last(p), Cleared))
  <2> HIDE DEF t, d
  <2> QED BY <1>1, <1>4, <1>8
<1>13. LET all == dir[Namei(State, Front(p)).id]
       IN  id = all[Max(SlotsNamed(all, Last(p)))].id /\ slots = SlotsNamed(all, Last(p))
  <2>1. d.id = Namei(State, Front(p)).id /\ r.dir = dir
    BY <1>1, <1>4, <1>7
  <2> HIDE DEF d, r
  <2> QED BY <2>1
<1>14. t.newest = newest /\ t.disk = disk /\ t.open = MovePath(State, p, q).open
  BY <1>1, <1>8
<1> HIDE DEF t, id, d, slots
<1> QED BY <1>4, <1>5, <1>8, <1>9, <1>10, <1>11, <1>12, <1>13, <1>14

\* The new parent of a rename is still a directory when the old name is taken
\* away.
LEMMA RenameParent ==
  ASSUME Sound(State), NEW p \in Path, NEW q \in Path, MayRename(p, q)
  PROVE  LET x == TakeName(p, q) IN Namei(x.s, Front(q)).id \in INode
<1> DEFINE s == State
           x == TakeName(p, q)
           f == Front(q)
           d == Namei(State, Front(p)).id
           w == Walk(State, f)
<1>1. ~IsPrefix(p, q) /\ ~IsPrefix(q, p) /\ Listed(State, p) /\ Found(w.id)
  BY DEF MayRename
<1>2. /\ Keeps(s, x.s) /\ Sound(x.s) /\ d \in INode
      /\ x.s.dir = With(s.dir, d, Overwrite(s.dir[d], Last(p), Cleared))
  <2>1. s.dir = dir
    BY DEF State
  <2> HIDE DEF x
  <2> QED BY <1>1, <2>1, TakeNameFields DEF x
<1>3. /\ Len(f) \in 0 .. 2 /\ Len(f) \in Nat
      /\ Len(f) = Len(q) - 1 /\ Len(q) \in 1 .. 2
      /\ Len(q) = 2 => f[1] = q[1]
  <2>1. /\ Len(f) = Len(q) - 1 /\ Len(q) \in 1 .. 2
        /\ Len(q) = 2 => f[1] = q[1]
    BY PathFields
  <2> HIDE DEF f
  <2> QED BY <2>1
<1>4. CASE EntryOf(x.s, f) # {}
  <2>1. Namei(x.s, f).id = x.s.open[Min(EntryOf(x.s, f))].id
    BY <1>4 DEF Namei
  <2>2. x.s.open[Min(EntryOf(x.s, f))].id \in INode
    <3> HIDE DEF x, f
    <3> QED BY <1>2, <1>4, EntryIn, OpenIds
  <2> QED BY <2>1, <2>2
<1>5. CASE EntryOf(x.s, f) = {} /\ Len(q) = 1
  <2>1. Namei(x.s, f).id = Root
    <3> HIDE DEF x, f
    <3>1. Walk(x.s, f).id = Root
      BY <1>2, <1>3, <1>5, WalkIds
    <3> QED BY <3>1, <1>5 DEF Namei
  <2> QED BY <2>1, PathAssumption, Zenon
<1>6. CASE EntryOf(x.s, f) = {} /\ Len(q) = 2
  <2>1. Namei(x.s, f).id = NextId(x.s, Root, q[1])
    <3> HIDE DEF x, f
    <3>1. Walk(x.s, f).id = NextId(x.s, Root, q[1])
      BY <1>2, <1>3, <1>6, WalkIds
    <3> QED BY <3>1, <1>6 DEF Namei
  <2>2. w.id = NextId(s, Root, q[1])
    <3> HIDE DEF f
    <3> QED BY <1>3, <1>6, WalkIds
  <2>3. Root \in INode /\ Found(Root)
    BY PathAssumption, Zenon DEF Found
  <2>4. LiveNamed(s.dir[Root], q[1]) # {}
    <3> HIDE DEF s, w
    <3> QED BY <1>1, <2>2 DEF NextId, Found
  <2> DEFINE live == LiveNamed(s.dir[Root], q[1])
             slots == s.dir[Root]
  <2>5. slots \in Seq(Slot) /\ s.dir[d] \in Seq(Slot) /\ s.dir \in [INode -> Seq(Slot)]
    BY <1>2, <2>3, StatesFields DEF Sound
  <2>6. PICK k \in DOMAIN slots : slots[k].key = q[1] /\ slots[k].id # Removed
    BY <2>4 DEF LiveNamed, SlotsNamed
  <2>7. d = Root => Len(p) = 1 /\ Last(p) = p[1] /\ p[1] # q[1]
    <3>1. Len(p) \in 1 .. 2 /\ Last(p) = p[Len(p)]
      BY PathFields
    <3>2. Len(p) = 2 => d # Root
      <4>1. Len(Front(p)) = Len(p) - 1 /\ Len(Front(p)) \in Nat
        BY PathFields
      <4>2. Len(Front(p)) > 0 => d # Root
        BY <4>1, NameiKeeps
      <4> QED BY <4>1, <4>2
    <3>3. Len(p) = 1 => p[1] # q[1]
      BY <1>1, PrefixPaths
    <3> QED BY <3>1, <3>2, <3>3
  <2>8. k \in DOMAIN x.s.dir[Root] /\ x.s.dir[Root][k] = slots[k]
    <3>1. CASE d = Root
      <4>1. Cleared \in Slot
        BY DEF Slot, Cleared
      <4>2. x.s.dir[Root] = Overwrite(slots, Last(p), Cleared)
        <5> HIDE DEF x, d
        <5> QED BY <1>2, <2>5, <3>1, <2>3 DEF With
      <4>3. slots[k].key # Last(p)
        BY <2>6, <2>7, <3>1
      <4> HIDE DEF slots, x
      <4> QED BY <2>5, <2>6, <4>1, <4>2, <4>3, OverwriteSlots
    <3>2. CASE d # Root
      <4>1. x.s.dir[Root] = slots
        <5> HIDE DEF x, d
        <5> QED BY <1>2, <2>5, <3>2, <2>3 DEF With
      <4> QED BY <4>1, <2>6
    <3> QED BY <3>1, <3>2
  <2>9. LiveNamed(x.s.dir[Root], q[1]) # {}
    <3> HIDE DEF x, slots
    <3> QED BY <2>6, <2>8 DEF LiveNamed, SlotsNamed
  <2>10. x.s.dir[Root] \in Seq(Slot) /\ x.s.newest[Root].type = "DIRECTORY"
    <3> HIDE DEF x
    <3> QED BY <1>2, <2>3, StatesFields DEF Sound, RootStays
  <2>11. NextId(x.s, Root, q[1]) \in INode
    <3> DEFINE to == x.s.dir[Root][Min(LiveNamed(x.s.dir[Root], q[1]))].id
    <3>1. to \in INode
      <4> HIDE DEF x
      <4> QED BY <2>9, <2>10, LiveSlots, Zenon
    <3>2. NextId(x.s, Root, q[1]) = to
      <4> HIDE DEF x
      <4> QED BY <2>3, <2>9, <2>10 DEF NextId
    <3> QED BY <3>1, <3>2
  <2> QED BY <2>1, <2>11
<1> QED BY <1>3, <1>4, <1>5, <1>6

-----------------------------------------------------------------------------
(* The calls that leave the inode table as it is, up to the inodes in it.     *)

\* A call has done what Keeps says.
Kept == \E t : Keeps(State, t) /\ Become(t)

\* l2_getattr keeps all.
LEMMA GetAttrKeeps ==
  ASSUME Sound(State), NEW p \in Path, GetAttr(p)
  PROVE  Kept
<1> DEFINE n == Namei(State, p)
           r == ReadINode(n.s, {n.id})
<1>1. Keeps(State, n.s) /\ Sound(n.s) /\ n.id \in Ids
  BY PathFields, NameiKeeps
<1>2. Found(n.id) => Keeps(State, r)
  <2> HIDE DEF n
  <2> SUFFICES ASSUME Found(n.id) PROVE Keeps(State, r)
    OBVIOUS
  <2>1. n.id \in INode
    BY <1>1 DEF Ids, Found
  <2>2. ReadTo(n.s, r)
    BY <1>1, <2>1, ReadINodeReads DEF Sound
  <2> HIDE DEF r
  <2>3. Keeps(n.s, r)
    BY <1>1, <2>2, ReadKeeps
  <2> QED BY <1>1, <2>3, KeepsTrans
<1>3. Become(IF Found(n.id) THEN r ELSE n.s)
  BY DEF GetAttr
<1> HIDE DEF n, r
<1> QED BY <1>1, <1>2, <1>3 DEF Kept

\* l2_chmod keeps all.
LEMMA ChmodKeeps ==
  ASSUME Sound(State), NEW p \in Path, Chmod(p)
  PROVE  Kept
<1> DEFINE n == Namei(State, p)
           r == ReadINode(n.s, {n.id})
           node == Changed(InCore(r, n.id))
           t == WriteINode(r, n.id, node)
<1>1. Keeps(State, n.s) /\ Sound(n.s) /\ n.id \in Ids
  BY PathFields, NameiKeeps
<1>2. n.id \in INode
  BY <1>1 DEF Chmod, Ids, Found
<1>3. ReadTo(n.s, r)
  <2> HIDE DEF n
  <2> QED BY <1>1, <1>2, ReadINodeReads DEF Sound
<1>4. Keeps(n.s, r) /\ Sound(r)
  <2> HIDE DEF n, r
  <2> QED BY <1>1, <1>3, ReadKeeps DEF Keeps
<1>5. Keeps(State, r)
  <2> HIDE DEF n, r
  <2> QED BY <1>1, <1>4, KeepsTrans
<1>6. MayStore(r, n.id, node)
  <2> DEFINE old == r.newest[n.id]
  <2>1. InCore(r, n.id) = old /\ old \in INodeType
    <3> HIDE DEF n, r
    <3> QED BY <1>2, <1>4, StatesFields DEF Sound
  <2>2. /\ Changed(old) \in INodeType
        /\ Changed(old).type = old.type /\ Changed(old).links <= old.links
    <3> HIDE DEF old
    <3> QED BY <2>1 DEF INodeType, Changed
  <2>3. n.id = Root => old.type = "DIRECTORY"
    <3> HIDE DEF n, r
    <3> QED BY <1>4 DEF Sound, RootStays
  <2> HIDE DEF n, r
  <2> QED BY <1>2, <2>1, <2>2, <2>3 DEF MayStore
<1>7. Keeps(r, t)
  <2> HIDE DEF n, r, node
  <2> QED BY <1>4, <1>6, WriteINodeFields
<1>8. Become(t)
  BY DEF Chmod
<1> HIDE DEF n, r, t
<1>9. Keeps(State, t)
  BY <1>5, <1>7, KeepsTrans
<1> QED BY <1>8, <1>9 DEF Kept

\* l2_mknod and l2_mkdir keep all, wherever the call runs out of blocks.
LEMMA CreateKeeps ==
  ASSUME Sound(State), NEW p \in Path, NEW type \in {"REGULAR", "DIRECTORY"},
         NEW i \in INode, Create(p, type, i)
  PROVE  Kept
<1> DEFINE n  == Namei(State, p)
           d  == Namei(n.s, Front(p))
           s1 == Initialised(d.s, d.id, i)
           s2 == Entered(s1, d.id, Last(p), i)
           s3 == WriteINode(s2, i, Node(type, 1))
<1>1. disk[i].type = "FREE" /\ Found(d.id)
  BY DEF Create
<1>2. Become(s1) \/ Become(s2) \/ Become(s3)
  BY DEF Create
<1>3. Keeps(State, n.s) /\ Sound(n.s) /\ n.s.disk = disk
  <2>1. State.disk = disk
    BY DEF State
  <2>2. Len(p) \in Nat
    BY PathFields
  <2> QED BY <2>1, <2>2, NameiKeeps
<1>4. Keeps(n.s, d.s) /\ Sound(d.s) /\ d.s.disk = disk /\ d.id \in INode
  <2>1. Keeps(n.s, d.s) /\ Sound(d.s) /\ d.s.disk = disk /\ d.id \in Ids
    <3> HIDE DEF n
    <3> QED BY <1>3, PathFields, NameiKeeps
  <2> QED BY <1>1, <2>1 DEF Found, Ids
<1>5. d.s.disk[i].type = "FREE"
  BY <1>1, <1>4
<1>6. /\ Keeps(d.s, s1) /\ Sound(s1)
      /\ s1.newest = With(d.s.newest, i, Node("INIT", 0))
  <2> HIDE DEF d
  <2> QED BY <1>4, <1>5, InitialisedFields DEF Keeps
<1>7. i \notin DOMAIN s1.table /\ i # Root
  <2>1. i \notin DOMAIN d.s.table /\ i # Root
    <3> HIDE DEF d
    <3> QED BY <1>4, <1>5, DiskType
  <2> HIDE DEF d, s1
  <2> QED BY <2>1, <1>6 DEF Keeps, StaysOpen
<1>8. Keeps(s1, s2) /\ Sound(s2)
  <2>1. Last(p) \in Key
    BY PathFields
  <2>2. i \in INode \ {Root}
    BY <1>7
  <2>3. d.id \in INode /\ Sound(s1)
    BY <1>4, <1>6
  <2> HIDE DEF d, s1
  <2> QED BY <2>1, <2>2, <2>3, EnteredFields DEF Keeps
<1>9. MayStore(s2, i, Node(type, 1))
  <2>1. Node(type, 1) \in INodeType
    BY DEF Node, INodeType
  <2> HIDE DEF s1, s2
  <2> QED BY <1>7, <1>8, <2>1 DEF MayStore, Keeps, StaysOpen
<1>10. Keeps(s2, s3)
  <2>1. Sound(s2)
    BY <1>8
  <2> HIDE DEF s2
  <2> QED BY <2>1, <1>9, WriteINodeFields
<1> HIDE DEF n, d, s1, s2, s3
<1>11. Keeps(State, d.s)
  BY <1>3, <1>4, KeepsTrans
<1>12. Keeps(State, s1)
  BY <1>6, <1>11, KeepsTrans
<1>13. Keeps(State, s2)
  BY <1>8, <1>12, KeepsTrans
<1>14. Keeps(State, s3)
  BY <1>10, <1>13, KeepsTrans
<1> QED BY <1>2, <1>12, <1>13, <1>14 DEF Kept

\* What is below an inode is a list of slots.
LEMMA BelowSlots ==
  ASSUME NEW s, Sound(s), NEW i \in INode
  PROVE  Below(s, i) \in Seq(Slot)
<1> DEFINE slots == s.dir[i]
           once  == EachOnce(slots)
<1>1. slots \in Seq(Slot)
  BY StatesFields DEF Sound
<1> HIDE DEF slots
<1>2. /\ Len(slots) \in Nat /\ DOMAIN slots = 1 .. Len(slots)
      /\ \A k \in 1 .. Len(slots) : /\ slots[k] \in Slot
                                   /\ [key |-> slots[k].key, id |-> Removed] \in Slot
  <2>1. /\ Len(slots) \in Nat /\ DOMAIN slots = 1 .. Len(slots)
        /\ \A k \in 1 .. Len(slots) : slots[k] \in Slot
    BY <1>1
  <2>2. \A slot \in Slot : [key |-> slot.key, id |-> Removed] \in Slot
    BY Zenon DEF Slot
  <2> QED BY <2>1, <2>2
<1>3. once \in [1 .. Len(slots) -> Slot]
  BY <1>2 DEF EachOnce
<1>4. once \in Seq(Slot)
  BY <1>2, <1>3, SeqDef
<1>5. <<>> \in Seq(Slot)
  OBVIOUS
<1> QED BY <1>4, <1>5 DEF Below, once, slots

\* l2_unlink keeps all, wherever it stops.
LEMMA UnlinkKeeps ==
  ASSUME Sound(State), NEW p \in Path, Unlink(p)
  PROVE  Kept
<1> DEFINE w == Unlinking(State, p)
           slots == Below(w.s, w.id)
           u == UnlinkAll(w.s, p, slots)
           t == Drop(u.s, w.d, Last(p), w.id)
<1>1. /\ Keeps(State, w.s) /\ Sound(w.s)
      /\ w.ok => w.d \in INode /\ w.id \in INode \ {Root}
  BY PathFields, UnlinkingFields
<1>2. p \in Seq(Key) /\ Last(p) \in Key
  BY PathFields
<1>3. \/ ~w.ok /\ Become(w.s)
      \/ w.ok /\ Become(IF u.ok THEN t ELSE u.s)
      \/ w.ok /\ \E k \in DOMAIN slots :
                    Become(UnlinkAll(w.s, p, SubSeq(slots, 1, k - 1)).s)
  BY DEF Unlink
<1>4. CASE ~w.ok /\ Become(w.s)
  <2> HIDE DEF w
  <2> QED BY <1>1, <1>4 DEF Kept
<1>5. CASE w.ok
  <2>1. slots \in Seq(Slot)
    <3> HIDE DEF w
    <3> QED BY <1>1, <1>5, BelowSlots
  <2>2. ASSUME NEW some \in Seq(Slot)
        PROVE  /\ Keeps(State, UnlinkAll(w.s, p, some).s)
               /\ Sound(UnlinkAll(w.s, p, some).s)
    <3> DEFINE v == UnlinkAll(w.s, p, some)
    <3> HIDE DEF w
    <3>1. Keeps(w.s, v.s)
      BY <1>1, <1>2, UnlinkAllKeeps
    <3> HIDE DEF v
    <3>2. Keeps(State, v.s)
      BY <1>1, <3>1, KeepsTrans
    <3> QED BY <3>2 DEF v, Keeps
  <2>3. Keeps(State, u.s) /\ Sound(u.s)
    <3> HIDE DEF slots, w
    <3> QED BY <2>1, <2>2
  <2>4. Keeps(u.s, t)
    <3> HIDE DEF u, w
    <3> QED BY <1>1, <1>2, <1>5, <2>3, DropFields
  <2>5. Keeps(State, t)
    <3> HIDE DEF u, t
    <3> QED BY <2>3, <2>4, KeepsTrans
  <2>6. ASSUME NEW k \in DOMAIN slots
        PROVE  SubSeq(slots, 1, k - 1) \in Seq(Slot)
    <3> HIDE DEF slots
    <3> QED BY <2>1
  <2>7. ASSUME NEW k \in DOMAIN slots
        PROVE  Keeps(State, UnlinkAll(w.s, p, SubSeq(slots, 1, k - 1)).s)
    BY <2>2, <2>6
  <2>8. CASE Become(IF u.ok THEN t ELSE u.s)
    <3> HIDE DEF u, t
    <3> QED BY <2>3, <2>5, <2>8 DEF Kept
  <2>9. CASE \E k \in DOMAIN slots :
               Become(UnlinkAll(w.s, p, SubSeq(slots, 1, k - 1)).s)
    <3> HIDE DEF slots, w
    <3> QED BY <2>7, <2>9 DEF Kept
  <2> QED BY <1>3, <1>5, <2>8, <2>9
<1> QED BY <1>3, <1>4, <1>5

\* l2_rename keeps all, wherever it runs out of blocks.
LEMMA RenameKeeps ==
  ASSUME Sound(State), NEW p \in Path, NEW q \in Path, Rename(p, q)
  PROVE  Kept
<1> DEFINE x  == TakeName(p, q)
           e  == Namei(x.s, Front(q))
           s2 == ReadINode(e.s, {e.id})
           entry == [key |-> Last(q), id |-> x.id]
           s3 == PutEntry(s2, e.id, entry)
           node == InCore(s3, e.id)
           s4 == WriteINode(s3, e.id, node)
<1>1. MayRename(p, q)
  BY DEF Rename
<1>2. ~IsPrefix(p, q) /\ ~IsPrefix(q, p) /\ Listed(State, p)
  BY <1>1 DEF MayRename
<1>3. Become(s4) \/ Become(s2)
  BY DEF Rename
<1>4. /\ Keeps(State, x.s) /\ Sound(x.s)
      /\ x.id \in INode \union {Removed} /\ x.id # Root
  <2> HIDE DEF x
  <2> QED BY <1>2, TakeNameFields DEF x
<1>5. Keeps(x.s, e.s) /\ Sound(e.s) /\ e.id \in INode
  <2>1. e.id \in INode
    BY <1>1, RenameParent
  <2>2. Len(Front(q)) \in Nat
    BY PathFields
  <2>3. Keeps(x.s, e.s) /\ Sound(e.s)
    <3> HIDE DEF x
    <3> QED BY <1>4, <2>2, NameiKeeps
  <2> QED BY <2>1, <2>3
<1>6. Keeps(e.s, s2) /\ Sound(s2)
  <2>1. e.s \in States
    BY <1>5 DEF Sound
  <2>2. ReadTo(e.s, s2)
    <3> HIDE DEF e
    <3> QED BY <1>5, <2>1, ReadINodeReads
  <2> HIDE DEF e, s2
  <2> QED BY <1>5, <2>2, ReadKeeps DEF Keeps
<1>7. Keeps(s2, s3) /\ Sound(s3)
  <2>1. Last(q) \in Key
    BY PathFields
  <2>2. entry \in Slot
    <3> HIDE DEF x
    <3> QED BY <1>4, <2>1, Zenon DEF Slot, Key
  <2>3. entry.id # Root
    BY <1>4
  <2>4. e.id \in INode /\ Sound(s2)
    BY <1>5, <1>6
  <2> HIDE DEF e, s2, entry
  <2> QED BY <2>2, <2>3, <2>4, PutEntryFields DEF Keeps
<1>8. Keeps(s3, s4)
  <2>1. MayStore(s3, e.id, node)
    <3> DEFINE old == s3.newest[e.id]
    <3>1. node = old /\ old \in INodeType
      <4> HIDE DEF e, s3
      <4> QED BY <1>5, <1>7, StatesFields DEF Sound
    <3>2. old.links <= old.links
      <4> HIDE DEF old
      <4> QED BY <3>1, NodeFields
    <3>3. e.id = Root => old.type = "DIRECTORY"
      <4> HIDE DEF e, s3
      <4> QED BY <1>7 DEF Sound, RootStays
    <3> HIDE DEF e, s3, node
    <3> QED BY <1>5, <3>1, <3>2, <3>3 DEF MayStore
  <2> HIDE DEF e, s3, node
  <2> QED BY <1>7, <2>1, WriteINodeFields
<1> HIDE DEF x, e, s2, s3, s4
<1>9. Keeps(State, e.s)
  BY <1>4, <1>5, KeepsTrans
<1>10. Keeps(State, s2)
  BY <1>6, <1>9, KeepsTrans
<1>11. Keeps(State, s3)
  BY <1>7, <1>10, KeepsTrans
<1>12. Keeps(State, s4)
  BY <1>8, <1>11, KeepsTrans
<1> QED BY <1>3, <1>10, <1>12 DEF Kept

\* An open path leads to the inode of its entry, which is in the inode table.
LEMMA OpenEntry ==
  ASSUME Sound(State), NEW p \in Path, EntryOf(State, p) # {}
  PROVE  LET k == Min(EntryOf(State, p))
         IN  /\ k \in DOMAIN open /\ open[k] \in OpenFile
             /\ DOMAIN open = 1 .. Len(open) /\ Len(open) \in Nat
             /\ open[k].id \in INode /\ open[k].id \in DOMAIN table
             /\ open[k].id # Root /\ open[k].ops \in [Op -> Nat]
             /\ table[open[k].id].node = newest[open[k].id]
             /\ newest[open[k].id] \in INodeType
             /\ table[open[k].id].ref = Count(open[k].ops)
             /\ newest[open[k].id].type = "REGULAR"
<1> DEFINE s == State
           k == Min(EntryOf(State, p))
<1>1. s.open = open /\ s.table = table /\ s.newest = newest /\ Sound(s)
  BY DEF State
<1>2. k \in DOMAIN s.open /\ DOMAIN s.open = 1 .. Len(s.open) /\ Len(s.open) \in Nat
  <2> HIDE DEF s
  <2> QED BY <1>1, EntryIn DEF s
<1> HIDE DEF s, k
<1>3. /\ s.open[k].id \in DOMAIN s.table /\ s.open[k].id # Root
      /\ s.open[k].id \in INode
  BY <1>1, <1>2, OpenIds
<1>4. s.open[k] \in OpenFile /\ s.open[k].ops \in [Op -> Nat]
  BY <1>1, <1>2, OpenPaths
<1>5. /\ s.table[s.open[k].id].node = s.newest[s.open[k].id]
      /\ s.newest[s.open[k].id] \in INodeType
  <2>1. InCore(s, s.open[k].id) = s.newest[s.open[k].id]
    BY <1>1, <1>3 DEF Sound
  <2> QED BY <1>1, <1>3, <2>1, StatesFields DEF InCore, Sound
<1>6. /\ s.table[s.open[k].id].ref = Count(s.open[k].ops)
      /\ s.newest[s.open[k].id].type = "REGULAR"
  BY <1>1, <1>2 DEF Sound, OpenAgree
<1> QED BY <1>1, <1>2, <1>3, <1>4, <1>5, <1>6 DEF k

\* l2_read keeps all.
LEMMA ReadKeepsState ==
  ASSUME Sound(State), NEW p \in Path, Read(p)
  PROVE  Kept
<1> DEFINE k == Min(EntryOf(State, p))
           i == open[k].id
           t == WriteINode(State, i, table[i].node)
<1>1. EntryOf(State, p) # {} /\ Become(t)
  BY DEF Read
<1>2. i \in INode /\ i # Root /\ table[i].node = newest[i] /\ newest[i] \in INodeType
  BY <1>1, OpenEntry
<1>3. MayStore(State, i, table[i].node)
  <2>1. State.newest = newest
    BY DEF State
  <2>2. newest[i].links <= newest[i].links
    BY <1>2, NodeFields
  <2> HIDE DEF i
  <2> QED BY <1>2, <2>1, <2>2 DEF MayStore
<1>4. Keeps(State, t)
  <2> HIDE DEF i
  <2> QED BY <1>3, WriteINodeFields
<1> QED BY <1>1, <1>4 DEF Kept

\* l2_write.
LEMMA WriteKeeps ==
  ASSUME Sound(State), NEW p \in Path, NEW room \in BOOLEAN, Write(p, room)
  PROVE  \E t : /\ Become(t) /\ Sound(t) /\ StaysOpen(State, t)
                /\ room => Keeps(State, t)
<1> DEFINE k == Min(EntryOf(State, p))
           i == open[k].id
           node == Changed(table[i].node)
           s == State
           t == SetInCore(s, i, node)
           u == WriteINode(s, i, node)
<1>1. EntryOf(State, p) # {} /\ Become(IF room THEN u ELSE t)
  BY DEF Write
<1>2. /\ i \in INode /\ i \in DOMAIN table /\ i # Root
      /\ table[i].node = newest[i] /\ newest[i] \in INodeType
  BY <1>1, OpenEntry
<1>3. /\ node \in INodeType
      /\ node.type = newest[i].type /\ node.links = newest[i].links
      /\ node.links <= newest[i].links
  <2> HIDE DEF i
  <2> QED BY <1>2 DEF Changed, INodeType
<1>4. s.newest = newest /\ s.table = table /\ Sound(s)
  BY DEF State
<1>5. MayStore(s, i, node)
  <2> HIDE DEF i, node, s
  <2> QED BY <1>2, <1>3, <1>4 DEF MayStore
<1>6. Keeps(s, u) /\ Sound(u) /\ StaysOpen(s, u)
  <2> HIDE DEF i, node, s
  <2> QED BY <1>4, <1>5, WriteINodeFields DEF Keeps
<1>7. /\ t \in States
      /\ t.dir = s.dir /\ t.disk = s.disk /\ t.open = s.open
      /\ t.newest = With(s.newest, i, node)
      /\ DOMAIN t.table = DOMAIN s.table
      /\ \A j \in DOMAIN s.table : t.table[j].ref = s.table[j].ref
      /\ DOMAIN t.cache = DOMAIN s.cache
      /\ \A j \in INode :
           InCore(t, j) = IF j = i /\ i \in DOMAIN s.table \union DOMAIN s.cache
                            THEN node ELSE InCore(s, j)
  <2> HIDE DEF i, node, s
  <2> QED BY <1>2, <1>3, <1>4, SetInCoreFields DEF Sound
<1> HIDE DEF t, u, node, i, s
<1>8. s.newest \in [INode -> INodeType] /\ s.disk \in [INode -> INodeType]
  BY <1>4, StatesFields DEF Sound
<1>9. \A j \in INode : /\ t.newest[j].type = s.newest[j].type
                       /\ t.newest[j].links = s.newest[j].links
  BY <1>2, <1>3, <1>4, <1>7, <1>8 DEF With
<1>10. Sound(t)
  <2>1. Apart(t)
    BY <1>4, <1>7 DEF Apart, Sound
  <2>2. \A j \in INode : InCore(t, j) = t.newest[j]
    BY <1>2, <1>4, <1>7, <1>8 DEF Sound, With
  <2>3. \A j \in INode : /\ t.disk[j].type = t.newest[j].type
                         /\ t.disk[j].links = t.newest[j].links
    BY <1>4, <1>7, <1>9 DEF Sound
  <2>4. OpenAgree(t)
    <3>1. \A l \in DOMAIN s.open : s.open[l].id \in INode
      BY <1>4, OpenIds
    <3> QED BY <3>1, <1>4, <1>7, <1>9 DEF Sound, OpenAgree
  <2>5. RootStays(t)
    <3>1. Root \in INode
      BY PathAssumption, Zenon
    <3> QED BY <3>1, <1>4, <1>7, <1>9 DEF Sound, RootStays
  <2> QED BY <1>7, <2>1, <2>2, <2>3, <2>4, <2>5 DEF Sound
<1>11. StaysOpen(s, t)
  <2>1. \A j \in DOMAIN s.table : j \in INode /\ s.newest[j].links <= s.newest[j].links
    BY <1>4, <1>8, StatesFields, NodeFields DEF Sound
  <2> QED BY <2>1, <1>7, <1>9 DEF StaysOpen
<1> QED BY <1>1, <1>6, <1>10, <1>11 DEF s

-----------------------------------------------------------------------------
(* The calls that open and close.                                            *)

\* The number of operations an open file has, and how one more changes it.
LEMMA CountType ==
  ASSUME NEW ops \in [Op -> Nat]
  PROVE  /\ Count(ops) \in Nat
         /\ \A op \in Op : ops[op] \in Nat /\ ops[op] <= Count(ops)
         /\ \A op \in Op, v \in Nat :
              /\ With(ops, op, v) \in [Op -> Nat]
              /\ Count(With(ops, op, v)) = Count(ops) - ops[op] + v
<1>1. /\ ops["read"] \in Nat /\ ops["write"] \in Nat /\ ops["readwrite"] \in Nat
      /\ \A op \in Op : op = "read" \/ op = "write" \/ op = "readwrite"
  BY DEF Op
<1>2. Count(ops) = ops["read"] + ops["write"] + ops["readwrite"]
  BY DEF Count
<1>3. Count(ops) \in Nat /\ \A op \in Op : ops[op] \in Nat /\ ops[op] <= Count(ops)
  BY <1>1, <1>2
<1>4. ASSUME NEW op \in Op, NEW v \in Nat
      PROVE  /\ With(ops, op, v) \in [Op -> Nat]
             /\ Count(With(ops, op, v)) = Count(ops) - ops[op] + v
  BY DEF With, Count, Op
<1> QED BY <1>3, <1>4

\* The state with other counts for an open file.
Counted(s, k, op, v, i, r) == [s EXCEPT !.open[k].ops[op] = v, !.table[i].ref = r]

\* Counting one operation and one reference of an open file.
LEMMA CountedFields ==
  ASSUME NEW s \in States, NEW k \in DOMAIN s.open, NEW op \in Op, NEW v \in Nat,
         NEW i \in DOMAIN s.table, NEW r \in Nat
  PROVE  LET t == Counted(s, k, op, v, i, r)
         IN  /\ t \in States
             /\ t.dir = s.dir /\ t.disk = s.disk /\ t.cache = s.cache
             /\ t.newest = s.newest
             /\ DOMAIN t.open = DOMAIN s.open
             /\ \A j \in DOMAIN s.open \ {k} : t.open[j] = s.open[j]
             /\ t.open[k].path = s.open[k].path /\ t.open[k].id = s.open[k].id
             /\ t.open[k].ops = With(s.open[k].ops, op, v)
             /\ DOMAIN t.table = DOMAIN s.table
             /\ \A j \in DOMAIN s.table \ {i} : t.table[j] = s.table[j]
             /\ t.table[i].ref = r /\ t.table[i].node = s.table[i].node
<1> DEFINE entry == [path |-> s.open[k].path, id |-> s.open[k].id,
                     ops |-> With(s.open[k].ops, op, v)]
           place == [ref |-> r, node |-> s.table[i].node]
           o     == With(s.open, k, entry)
           tab   == With(s.table, i, place)
           t     == Counted(s, k, op, v, i, r)
<1>1. /\ s.open \in Seq(OpenFile) /\ DOMAIN s.open = 1 .. Len(s.open)
      /\ Len(s.open) \in Nat /\ s.table \in Partial(TableEntry)
      /\ DOMAIN s.table \subseteq INode
  BY StatesFields
<1>2. /\ s.open[k] \in OpenFile /\ s.open[k].ops \in [Op -> Nat]
      /\ s.open[k].path \in Path /\ s.open[k].id \in INode
      /\ s.open[k] = [path |-> s.open[k].path, id |-> s.open[k].id, ops |-> s.open[k].ops]
  <2>1. s.open[k] \in OpenFile
    BY <1>1
  <2> QED BY <2>1 DEF OpenFile
<1>3. /\ s.table[i] \in TableEntry /\ s.table[i].node \in INodeType
      /\ s.table[i] = [ref |-> s.table[i].ref, node |-> s.table[i].node]
  <2>1. s.table[i] \in TableEntry
    BY StatesFields
  <2> QED BY <2>1 DEF TableEntry
<1>4. With(s.open[k].ops, op, v) \in [Op -> Nat]
  BY <1>2, CountType
<1>5. entry \in OpenFile
  BY <1>2, <1>4 DEF OpenFile
<1>6. place \in TableEntry
  BY <1>3 DEF TableEntry
<1>7. /\ entry.path = s.open[k].path /\ entry.id = s.open[k].id
      /\ entry.ops = With(s.open[k].ops, op, v)
      /\ place.ref = r /\ place.node = s.table[i].node
  OBVIOUS
<1>8. t = [s EXCEPT !.open = o, !.table = tab]
  <2>1. entry = [s.open[k] EXCEPT !.ops = [s.open[k].ops EXCEPT ![op] = v]]
    BY <1>2 DEF With
  <2>2. place = [s.table[i] EXCEPT !.ref = r]
    BY <1>3
  <2>3. o = [s.open EXCEPT ![k].ops[op] = v]
    <3> HIDE DEF entry
    <3> QED BY <2>1 DEF With
  <2>4. tab = [s.table EXCEPT ![i].ref = r]
    <3> HIDE DEF place
    <3> QED BY <2>2 DEF With
  <2> HIDE DEF o, tab
  <2> QED BY <2>3, <2>4 DEF Counted
<1> HIDE DEF entry, place
<1>9. /\ DOMAIN o = DOMAIN s.open /\ o[k] = entry
      /\ \A j \in DOMAIN s.open \ {k} : o[j] = s.open[j]
  BY DEF With
<1>10. /\ DOMAIN tab = DOMAIN s.table /\ tab[i] = place
       /\ \A j \in DOMAIN s.table \ {i} : tab[j] = s.table[j]
  BY DEF With
<1>11. o \in Seq(OpenFile)
  <2>1. \A j \in DOMAIN s.open : s.open[j] \in OpenFile
    BY <1>1
  <2>2. o \in [1 .. Len(s.open) -> OpenFile]
    BY <2>1, <1>1, <1>5 DEF With
  <2> HIDE DEF o
  <2> QED BY <2>2, <1>1, SeqDef
<1>12. tab \in Partial(TableEntry)
  <2>1. \A j \in DOMAIN s.table : s.table[j] \in TableEntry
    BY StatesFields
  <2>2. tab \in [DOMAIN s.table -> TableEntry]
    BY <2>1, <1>6, <1>1, PartialFunction DEF With
  <2> HIDE DEF tab
  <2> QED BY <2>2, <1>1, FunctionPartial
<1>13. /\ t \in States
       /\ t.dir = s.dir /\ t.disk = s.disk /\ t.cache = s.cache
       /\ t.newest = s.newest /\ t.open = o /\ t.table = tab
  <2> HIDE DEF t, o, tab
  <2> QED BY <1>8, <1>11, <1>12, StatesFields DEF States
<1> HIDE DEF t, o, tab
<1> QED BY <1>7, <1>9, <1>10, <1>13 DEF t

\* An inode that goes to the inode table is the same inode there.
LEMMA IntoTableFields ==
  ASSUME NEW s \in States, NEW i \in INode
  PROVE  LET t == IntoTable(s, i)
         IN  /\ t \in States
             /\ t.dir = s.dir /\ t.disk = s.disk /\ t.open = s.open
             /\ t.newest = s.newest
             /\ DOMAIN t.table = DOMAIN s.table \union {i}
             /\ \A j \in DOMAIN s.table : t.table[j] = s.table[j]
             /\ i \notin DOMAIN s.table => t.table[i].ref = 0
             /\ \A j \in INode : InCore(t, j) = InCore(s, j)
             /\ Apart(s) => Apart(t)
<1>1. CASE i \in DOMAIN s.table
  <2>1. IntoTable(s, i) = s
    BY <1>1 DEF IntoTable
  <2> QED BY <1>1, <2>1
<1>2. CASE i \notin DOMAIN s.table
  <2> DEFINE place == [ref |-> 0, node |-> InCore(s, i)]
             tab == [j \in DOMAIN s.table \union {i} |-> IF j = i THEN place ELSE s.table[j]]
             c   == Without(s.cache, i)
             t   == [s EXCEPT !.table = tab, !.cache = c]
  <2>1. IntoTable(s, i) = t
    BY <1>2 DEF IntoTable
  <2>2. place \in TableEntry /\ place.ref = 0 /\ place.node = InCore(s, i)
    <3>1. InCore(s, i) \in INodeType
      BY StatesFields
    <3> QED BY <3>1 DEF TableEntry
  <2> HIDE DEF place
  <2>3. /\ DOMAIN tab = DOMAIN s.table \union {i} /\ tab[i] = place
        /\ \A j \in DOMAIN s.table : tab[j] = s.table[j]
    BY <1>2
  <2>4. tab \in Partial(TableEntry)
    <3>1. tab \in [DOMAIN s.table \union {i} -> TableEntry]
      BY <2>2, StatesFields
    <3>2. DOMAIN s.table \union {i} \in SUBSET INode
      BY StatesFields
    <3> HIDE DEF tab
    <3> QED BY <3>1, <3>2, FunctionPartial
  <2>5. /\ DOMAIN c = DOMAIN s.cache \ {i}
        /\ \A j \in DOMAIN c : c[j] = s.cache[j]
    BY DEF Without
  <2>6. c \in Partial(INodeType)
    <3>1. c = [j \in DOMAIN c |-> c[j]]
      BY DEF Without
    <3> HIDE DEF c
    <3> QED BY <2>5, <3>1, StatesFields, PartialFunction
  <2>7. /\ t \in States
        /\ t.dir = s.dir /\ t.disk = s.disk /\ t.open = s.open
        /\ t.newest = s.newest /\ t.table = tab /\ t.cache = c
    <3> HIDE DEF tab, c
    <3> QED BY <2>4, <2>6, StatesFields DEF States
  <2> HIDE DEF t, tab, c
  <2>8. \A j \in INode : InCore(t, j) = InCore(s, j)
    BY <2>2, <2>3, <2>5, <2>7 DEF InCore
  <2>9. Apart(s) => Apart(t)
    BY <2>3, <2>5, <2>7 DEF Apart
  <2> QED BY <1>2, <2>1, <2>2, <2>3, <2>7, <2>8, <2>9
<1> QED BY <1>1, <1>2

\* The state with one more open file.
AddEntry(s, e) == [s EXCEPT !.open = <<e>> \o s.open]

\* A new first entry of the open file table.
LEMMA NewEntryFields ==
  ASSUME NEW s \in States, NEW e \in OpenFile
  PROVE  LET t == AddEntry(s, e)
         IN  /\ t \in States
             /\ t.dir = s.dir /\ t.disk = s.disk /\ t.table = s.table
             /\ t.cache = s.cache /\ t.newest = s.newest
             /\ Len(s.open) \in Nat /\ DOMAIN s.open = 1 .. Len(s.open)
             /\ DOMAIN t.open = 1 .. Len(s.open) + 1
             /\ t.open[1] = e
             /\ \A j \in DOMAIN s.open : t.open[j + 1] = s.open[j]
<1> DEFINE o == <<e>> \o s.open
           t == AddEntry(s, e)
<1>1. s.open \in Seq(OpenFile)
  BY StatesFields
<1>2. /\ o \in Seq(OpenFile)
      /\ Len(s.open) \in Nat /\ DOMAIN s.open = 1 .. Len(s.open)
      /\ DOMAIN o = 1 .. Len(s.open) + 1
      /\ o[1] = e
      /\ \A j \in DOMAIN s.open : o[j + 1] = s.open[j]
  BY <1>1
<1>3. /\ t \in States
      /\ t.dir = s.dir /\ t.disk = s.disk /\ t.table = s.table
      /\ t.cache = s.cache /\ t.newest = s.newest /\ t.open = o
  <2>1. t = [s EXCEPT !.open = o]
    BY DEF AddEntry
  <2> HIDE DEF o, t
  <2> QED BY <1>2, <2>1, StatesFields DEF States
<1> HIDE DEF o, t
<1> QED BY <1>2, <1>3 DEF o, t

\* What a call may do to what stays open.
Moves(s, t) ==
  /\ Sound(t)
  /\ s.disk = s.newest => t.disk = t.newest
  /\ \A i \in DOMAIN s.table \intersect DOMAIN t.table :
       /\ t.newest[i].type = s.newest[i].type
       /\ t.newest[i].links <= s.newest[i].links

\* An open file of one state is one of another state, for the same path.
Among(t, l, s) == \E k \in DOMAIN s.open : /\ t.open[l].path = s.open[k].path
                                           /\ t.open[l].id = s.open[k].id

\* What l2_open does to the names and to what is open: path p is open for inode i.
Opened(s, t, p, i) ==
  /\ t.dir = s.dir /\ t.newest = s.newest
  /\ DOMAIN t.table = DOMAIN s.table \union {i}
  /\ \E j \in DOMAIN t.open : /\ t.open[j].path = p /\ t.open[j].id = i
                              /\ \A l \in DOMAIN t.open \ {j} : Among(t, l, s)
  /\ EntryOf(s, p) # {} =>
       /\ i \in DOMAIN s.table /\ DOMAIN t.open = DOMAIN s.open
       /\ \A k \in DOMAIN s.open : /\ t.open[k].path = s.open[k].path
                                   /\ t.open[k].id = s.open[k].id

\* All entries but k of the open file table are what they were, as all but j.
OthersStay(s, t, k, j) ==
  /\ \A l \in DOMAIN t.open \ {j} : \E m \in DOMAIN s.open \ {k} : t.open[l] = s.open[m]
  /\ \A m \in DOMAIN s.open \ {k} : \E l \in DOMAIN t.open \ {j} : t.open[l] = s.open[m]

\* The entry of path p, a new one if k is 0, has one operation more.
OneMore(s, t, p, i, op) ==
  /\ t.disk = s.disk
  /\ \E j \in DOMAIN t.open, k \in {0} \union DOMAIN s.open :
       /\ t.open[j].path = p /\ t.open[j].id = i
       /\ OthersStay(s, t, k, j)
       /\ LET ops == IF k = 0 THEN [o \in Op |-> 0] ELSE s.open[k].ops
          IN  t.open[j].ops = With(ops, op, ops[op] + 1)
       /\ IF k = 0 THEN EntryOf(s, p) = {} ELSE s.open[k].path = p

\* And l2_close.
Closed(s, t, i) ==
  /\ i \in INode /\ s.newest[i].type = "REGULAR"
  /\ \A j \in INode \ {i} : t.newest[j] = s.newest[j]
  /\ \/ /\ t.newest = s.newest /\ t.dir = s.dir
        /\ i \in DOMAIN t.table \/ s.newest[i].links # 0
     \/ /\ s.newest[i].links = 0 /\ t.newest[i] = Node("FREE", 0)
        /\ t.dir = With(s.dir, i, <<>>)
  /\ \A l \in DOMAIN t.open : Among(t, l, s)
  /\ DOMAIN s.table \ {i} \subseteq DOMAIN t.table

\* One operation less; the entry goes with the last of them.
OneLess(s, t, p, i, op) ==
  /\ \A l \in INode \ {i} : t.disk[l] = s.disk[l]
  /\ \/ t.newest = s.newest /\ t.disk = s.disk
     \/ /\ s.newest[i].links = 0 /\ t.newest[i] = Node("FREE", 0)
        /\ i \notin DOMAIN t.table
  /\ \E k \in DOMAIN s.open, j \in {0} \union DOMAIN t.open :
       /\ s.open[k].path = p /\ s.open[k].id = i /\ s.open[k].ops[op] > 0
       /\ OthersStay(s, t, k, j)
       /\ LET ops == With(s.open[k].ops, op, s.open[k].ops[op] - 1)
          IN  IF j = 0 THEN Count(ops) = 0 /\ DOMAIN t.table = DOMAIN s.table \ {i}
              ELSE /\ Count(ops) # 0 /\ DOMAIN t.table = DOMAIN s.table
                   /\ t.open[j].path = p /\ t.open[j].id = i /\ t.open[j].ops = ops

\* l2_open leaves what is open as it is; or it ends the process, for an inode
\* that is open under another path.
LEMMA OpenMoves ==
  ASSUME Sound(State), NEW p \in Path, NEW op \in Op, Open(p, op)
  PROVE  LET i == Namei(State, p).id
         IN  /\ i \in INode /\ State.newest[i].type = "REGULAR"
             /\ \/ Abort /\ EntryOf(State, p) = {} /\ i \in DOMAIN State.table
                \/ \E t : /\ Moves(State, t) /\ Become(t) /\ Opened(State, t, p, i)
                          /\ OneMore(State, t, p, i, op)
<1> DEFINE n == Namei(State, p)
           i == n.id
           none == EntryOf(n.s, p) = {}
           e == [path |-> p, id |-> i, ops |-> [o \in Op |-> 0]]
           s == IF ~none THEN n.s
                ELSE [IntoTable(n.s, i) EXCEPT !.open = <<e>> \o n.s.open]
           j == IF ~none THEN Min(EntryOf(n.s, p)) ELSE 1
           old(l) == IF none THEN l - 1 ELSE l
           v == s.open[j].ops[op] + 1
           r == s.table[i].ref + 1
           t == Counted(s, j, op, v, i, r)
<1>1. /\ Found(i)
      /\ InCore(n.s, i).type = "REGULAR"
      /\ IF Count(t.open[j].ops) = t.table[i].ref
           THEN Become(t) /\ UNCHANGED odd
           ELSE Abort
  BY Zenon DEF Open, Counted
<1>2. /\ Keeps(State, n.s) /\ Sound(n.s) /\ n.s \in States
      /\ n.s.newest = State.newest /\ n.s.open = State.open
      /\ n.s.disk = State.disk /\ n.s.dir = State.dir
      /\ i \in INode
  <2>1. Len(p) \in Nat
    BY PathFields
  <2>2. /\ Keeps(State, n.s) /\ Sound(n.s) /\ i \in Ids
        /\ n.s.newest = State.newest /\ n.s.open = State.open
        /\ n.s.disk = State.disk /\ n.s.dir = State.dir
    BY <2>1, NameiKeeps
  <2> HIDE DEF n
  <2> QED BY <1>1, <2>2, Zenon DEF Found, Ids, Sound
<1>3. n.s.newest[i].type = "REGULAR" /\ i # Root
  <2> HIDE DEF n
  <2> QED BY <1>1, <1>2, Zenon DEF Sound, RootStays
\* The state in which the counts are increased.
<1>4. /\ s \in States /\ j \in DOMAIN s.open /\ i \in DOMAIN s.table
      /\ s.dir = n.s.dir /\ s.disk = n.s.disk /\ s.newest = n.s.newest
      /\ Apart(s) /\ \A l \in INode : InCore(s, l) = InCore(n.s, l)
      /\ s.open[j].id = i /\ s.open[j].path = p
      /\ DOMAIN s.table = DOMAIN n.s.table \union {i}
      /\ \A l \in DOMAIN n.s.table : s.table[l] = n.s.table[l]
      /\ i \notin DOMAIN n.s.table => s.table[i].ref = 0
      /\ \A l \in DOMAIN s.open \ {j} :
           old(l) \in DOMAIN n.s.open /\ s.open[l] = n.s.open[old(l)]
      /\ \A k \in DOMAIN n.s.open :
           \E l \in DOMAIN s.open : old(l) = k /\ s.open[l] = n.s.open[k]
      /\ ~none => i \in DOMAIN n.s.table
      /\ none => Count(s.open[j].ops) = 0 /\ s.open[j].ops = [o \in Op |-> 0]
      /\ ~none => s = n.s
  <2>1. CASE ~none
    <3>1. s = n.s /\ j = Min(EntryOf(n.s, p))
      BY <2>1
    <3>2. i = n.s.open[j].id
      <4>1. EntryOf(State, p) = EntryOf(n.s, p)
        BY <1>2 DEF EntryOf
      <4>2. i = State.open[Min(EntryOf(State, p))].id
        BY <2>1, <4>1, Zenon DEF Namei
      <4> QED BY <1>2, <3>1, <4>1, <4>2
    <3>3. j \in DOMAIN n.s.open /\ n.s.open[j].path = p
      <4> HIDE DEF n
      <4> QED BY <1>2, <2>1, <3>1, EntryIn DEF j
    <3>4. i \in DOMAIN n.s.table
      <4> HIDE DEF n, j
      <4> QED BY <1>2, <3>2, <3>3, OpenIds
    <3>5. \A l : old(l) = l
      BY <2>1
    <3> HIDE DEF s, j, n, none, old
    <3> QED BY <1>2, <2>1, <3>1, <3>2, <3>3, <3>4, <3>5 DEF Sound
  <2>2. CASE none
    <3> DEFINE m == IntoTable(n.s, i)
    <3>1. /\ m \in States
          /\ m.dir = n.s.dir /\ m.disk = n.s.disk /\ m.open = n.s.open
          /\ m.newest = n.s.newest
          /\ DOMAIN m.table = DOMAIN n.s.table \union {i}
          /\ \A l \in DOMAIN n.s.table : m.table[l] = n.s.table[l]
          /\ i \notin DOMAIN n.s.table => m.table[i].ref = 0
          /\ \A l \in INode : InCore(m, l) = InCore(n.s, l)
          /\ Apart(m)
      <4> HIDE DEF n
      <4> QED BY <1>2, IntoTableFields DEF Sound
    <3>2. /\ e \in OpenFile /\ e.id = i /\ e.path = p /\ Count(e.ops) = 0
          /\ e.ops = [o \in Op |-> 0]
      <4> HIDE DEF n
      <4> QED BY <1>2 DEF OpenFile, Count, Op
    <3> HIDE DEF m, e
    <3>3. s = AddEntry(m, e) /\ j = 1
      BY <2>2, <3>1 DEF m, AddEntry
    <3> HIDE DEF s, j, n
    <3>4. /\ s \in States
          /\ s.dir = m.dir /\ s.disk = m.disk /\ s.table = m.table
          /\ s.cache = m.cache /\ s.newest = m.newest
          /\ 1 \in DOMAIN s.open /\ s.open[1] = e
          /\ Len(m.open) \in Nat /\ DOMAIN m.open = 1 .. Len(m.open)
          /\ DOMAIN s.open = 1 .. Len(m.open) + 1
          /\ \A k \in DOMAIN m.open : s.open[k + 1] = m.open[k]
      <4>1. m \in States /\ e \in OpenFile
        BY <3>1, <3>2
      <4> DEFINE x == AddEntry(m, e)
      <4>2. /\ x \in States
            /\ x.dir = m.dir /\ x.disk = m.disk /\ x.table = m.table
            /\ x.cache = m.cache /\ x.newest = m.newest
            /\ x.open[1] = e
            /\ Len(m.open) \in Nat /\ DOMAIN m.open = 1 .. Len(m.open)
            /\ DOMAIN x.open = 1 .. Len(m.open) + 1
            /\ \A k \in DOMAIN m.open : x.open[k + 1] = m.open[k]
        BY <4>1, NewEntryFields
      <4>3. 1 \in DOMAIN x.open
        BY <4>2
      <4> HIDE DEF x
      <4> QED BY <3>3, <4>2, <4>3 DEF x
    <3>5. \A l \in INode : InCore(s, l) = InCore(m, l)
      BY <3>4 DEF InCore
    <3>6. Apart(s)
      BY <3>1, <3>4 DEF Apart
    <3>7. \A l : old(l) = l - 1
      BY <2>2
    <3> HIDE DEF none, old
    <3>8. \A l \in DOMAIN s.open \ {j} :
            old(l) \in DOMAIN n.s.open /\ s.open[l] = n.s.open[old(l)]
      <4> TAKE l \in DOMAIN s.open \ {j}
      <4>1. l - 1 \in DOMAIN m.open /\ l = (l - 1) + 1
        BY <3>3, <3>4
      <4> QED BY <4>1, <3>1, <3>4, <3>7
    <3>9. \A k \in DOMAIN n.s.open :
            \E l \in DOMAIN s.open : old(l) = k /\ s.open[l] = n.s.open[k]
      <4> TAKE k \in DOMAIN n.s.open
      <4>1. k + 1 \in DOMAIN s.open /\ (k + 1) - 1 = k
        BY <3>1, <3>4
      <4> QED BY <4>1, <3>1, <3>4, <3>7
    <3> QED BY <2>2, <3>1, <3>2, <3>3, <3>4, <3>5, <3>6, <3>8, <3>9
  <2> QED BY <2>1, <2>2, Zenon
<1>5. /\ s.open[j].ops \in [Op -> Nat] /\ s.open[j].ops[op] \in Nat
      /\ s.table[i].ref \in Nat
  <2> HIDE DEF s, i, j
  <2>1. s.open[j] \in OpenFile /\ s.table[i] \in TableEntry
    BY <1>4, StatesFields
  <2> QED BY <2>1 DEF OpenFile, TableEntry
<1>6. /\ t \in States
      /\ t.dir = s.dir /\ t.disk = s.disk /\ t.cache = s.cache
      /\ t.newest = s.newest
      /\ DOMAIN t.open = DOMAIN s.open
      /\ \A l \in DOMAIN s.open \ {j} : t.open[l] = s.open[l]
      /\ t.open[j].id = i /\ t.open[j].path = p
      /\ t.open[j].ops = With(s.open[j].ops, op, v)
      /\ DOMAIN t.table = DOMAIN s.table
      /\ \A l \in DOMAIN s.table \ {i} : t.table[l] = s.table[l]
      /\ t.table[i].ref = r /\ t.table[i].node = s.table[i].node
  <2> HIDE DEF s, i, j
  <2>1. v \in Nat /\ r \in Nat
    BY <1>5
  <2> HIDE DEF v, r
  <2>2. s \in States /\ j \in DOMAIN s.open /\ i \in DOMAIN s.table
    BY <1>4
  <2>3. /\ t \in States
        /\ t.dir = s.dir /\ t.disk = s.disk /\ t.cache = s.cache
        /\ t.newest = s.newest
        /\ DOMAIN t.open = DOMAIN s.open
        /\ \A l \in DOMAIN s.open \ {j} : t.open[l] = s.open[l]
        /\ t.open[j].id = s.open[j].id /\ t.open[j].path = s.open[j].path
        /\ t.open[j].ops = With(s.open[j].ops, op, v)
        /\ DOMAIN t.table = DOMAIN s.table
        /\ \A l \in DOMAIN s.table \ {i} : t.table[l] = s.table[l]
        /\ t.table[i].ref = r /\ t.table[i].node = s.table[i].node
    BY <2>1, <2>2, CountedFields
  <2> HIDE DEF t
  <2> QED BY <2>3, <1>4
<1>7. Count(t.open[j].ops) = Count(s.open[j].ops) + 1 /\ Count(s.open[j].ops) \in Nat
  <2> HIDE DEF s, i, j, t
  <2> QED BY <1>5, <1>6, CountType
<1>11. none <=> EntryOf(State, p) = {}
  BY <1>2 DEF EntryOf
<1>12. DOMAIN n.s.table = DOMAIN State.table
  BY <1>2 DEF Keeps, StaysOpen
<1>13. i \in INode /\ State.newest[i].type = "REGULAR"
  BY <1>2, <1>3
<1> HIDE DEF t, s, j, old, none, i, n, e, v
<1>8. \A l \in INode : InCore(t, l) = InCore(s, l)
  BY <1>4, <1>6 DEF InCore
<1>9. CASE Count(t.open[j].ops) # t.table[i].ref
  <2>1. none
    <3> SUFFICES ASSUME ~none PROVE FALSE
      OBVIOUS
    <3>1. s = n.s /\ OpenAgree(n.s)
      BY <1>2, <1>4 DEF Sound
    <3>2. s.table[i].ref = Count(s.open[j].ops)
      BY <1>4, <3>1 DEF OpenAgree
    <3> QED BY <1>6, <1>7, <1>9, <3>2 DEF r
  <2>2. i \in DOMAIN n.s.table
    <3> SUFFICES ASSUME i \notin DOMAIN n.s.table PROVE FALSE
      OBVIOUS
    <3>1. s.table[i].ref = 0 /\ Count(s.open[j].ops) = 0
      BY <1>4, <2>1
    <3> QED BY <1>6, <1>7, <1>9, <3>1 DEF r
  <2> QED BY <1>1, <1>9, <1>11, <1>12, <1>13, <2>1, <2>2 DEF i, n
<1>10. CASE Count(t.open[j].ops) = t.table[i].ref
  \* What was open is still open, under another inode.
  <2>1. none => i \notin DOMAIN n.s.table
    <3> SUFFICES ASSUME none, i \in DOMAIN n.s.table PROVE FALSE
      OBVIOUS
    <3>1. PICK k \in DOMAIN n.s.open : n.s.open[k].id = i
      BY <1>2 DEF Sound, OpenAgree
    <3>2. n.s.table[i].ref = Count(n.s.open[k].ops) /\ Count(n.s.open[k].ops) # 0
      BY <1>2, <3>1 DEF Sound, OpenAgree
    <3>3. s.table[i].ref # 0 /\ Count(s.open[j].ops) = 0
      BY <1>4, <3>2
    <3> QED BY <1>5, <1>6, <1>7, <1>10, <3>3 DEF r
  <2>2. \A l \in DOMAIN s.open \ {j} :
          /\ s.open[l].id \in DOMAIN n.s.table /\ s.open[l].id # i
          /\ s.open[l] = n.s.open[old(l)] /\ old(l) \in DOMAIN n.s.open
    <3> TAKE l \in DOMAIN s.open \ {j}
    <3>1. old(l) \in DOMAIN n.s.open /\ s.open[l] = n.s.open[old(l)]
      BY <1>4
    <3>2. s.open[l].id \in DOMAIN n.s.table
      BY <1>2, <3>1, OpenIds
    <3>3. s.open[l].id # i
      <4>1. CASE none
        BY <2>1, <3>2, <4>1
      <4>2. CASE ~none
        BY <1>2, <1>4, <4>2 DEF Sound, OpenAgree
      <4> QED BY <4>1, <4>2
    <3> QED BY <3>1, <3>2, <3>3
  <2>3. \A l, m \in DOMAIN s.open \ {j} : old(l) = old(m) => l = m
    <3>1. DOMAIN s.open = 1 .. Len(s.open)
      BY <1>4, StatesFields
    <3> QED BY <3>1 DEF old
  <2>4. OpenAgree(t)
    <3>1. ASSUME NEW l \in DOMAIN t.open
          PROVE  /\ t.open[l].id \in DOMAIN t.table
                 /\ t.table[t.open[l].id].ref = Count(t.open[l].ops)
                 /\ Count(t.open[l].ops) # 0
                 /\ t.newest[t.open[l].id].type = "REGULAR"
      <4>1. CASE l = j
        BY <1>3, <1>4, <1>6, <1>7, <1>10, <4>1
      <4>2. CASE l # j
        <5>1. t.open[l] = s.open[l] /\ l \in DOMAIN s.open \ {j}
          BY <1>6, <3>1, <4>2
        <5>2. /\ t.table[t.open[l].id] = n.s.table[t.open[l].id]
              /\ t.open[l] = n.s.open[old(l)] /\ old(l) \in DOMAIN n.s.open
              /\ t.open[l].id \in DOMAIN t.table
          BY <1>4, <1>6, <2>2, <5>1
        <5>3. OpenAgree(n.s) /\ t.newest = n.s.newest
          BY <1>2, <1>4, <1>6 DEF Sound
        <5> HIDE DEF n, s, t, i, j, old
        <5>4. \A k \in DOMAIN n.s.open :
                /\ n.s.table[n.s.open[k].id].ref = Count(n.s.open[k].ops)
                /\ Count(n.s.open[k].ops) # 0
                /\ n.s.newest[n.s.open[k].id].type = "REGULAR"
          BY <5>3 DEF OpenAgree
        <5> QED BY <5>2, <5>3, <5>4, Zenon
      <4> QED BY <4>1, <4>2
    <3>2. ASSUME NEW l \in DOMAIN t.open, NEW m \in DOMAIN t.open,
                 t.open[l].id = t.open[m].id
          PROVE  l = m
      <4>1. \A k \in DOMAIN s.open \ {j} : t.open[k].id # i
        BY <1>6, <2>2
      <4>2. CASE l = j \/ m = j
        BY <1>6, <3>2, <4>1, <4>2
      <4>3. CASE l # j /\ m # j
        <5>1. l \in DOMAIN s.open \ {j} /\ m \in DOMAIN s.open \ {j}
          BY <1>6, <4>3
        <5>2. old(l) = old(m)
          BY SMTT(30), <1>2, <1>6, <2>2, <3>2, <5>1 DEF Sound, OpenAgree
        <5> QED BY <2>3, <5>1, <5>2
      <4> QED BY <4>2, <4>3
    <3>3. ASSUME NEW x \in DOMAIN t.table
          PROVE  \E l \in DOMAIN t.open : t.open[l].id = x
      <4>1. CASE x = i
        BY <1>4, <1>6, <4>1
      <4>2. CASE x # i
        <5>1. PICK k \in DOMAIN n.s.open : n.s.open[k].id = x
          BY <1>2, <1>4, <1>6, <3>3, <4>2 DEF Sound, OpenAgree
        <5>2. PICK l \in DOMAIN s.open : s.open[l] = n.s.open[k]
          BY <1>4
        <5> QED BY <1>4, <1>6, <4>2, <5>1, <5>2
      <4> QED BY <4>1, <4>2
    <3> QED BY <3>1, <3>2, <3>3 DEF OpenAgree
  <2>5. Sound(t)
    <3>1. Apart(t)
      BY <1>4, <1>6 DEF Apart
    <3>2. RootStays(t)
      BY <1>2, <1>4, <1>6 DEF Sound, RootStays
    <3> QED BY <1>2, <1>4, <1>6, <1>8, <2>4, <3>1, <3>2 DEF Sound
  <2>6. \A l \in DOMAIN State.table \intersect DOMAIN t.table :
          /\ t.newest[l].type = State.newest[l].type
          /\ t.newest[l].links <= State.newest[l].links
    <3>1. \A l \in DOMAIN State.table : State.newest[l].links <= State.newest[l].links
      BY StatesFields, NodeFields DEF Sound
    <3> QED BY <3>1, <1>2, <1>4, <1>6
  <2>7. State.disk = State.newest => t.disk = t.newest
    BY <1>2, <1>4, <1>6
  <2>8. Moves(State, t)
    BY <2>5, <2>6, <2>7 DEF Moves
  <2>9. \A l \in DOMAIN t.open \ {j} : Among(t, l, State)
    <3> TAKE l \in DOMAIN t.open \ {j}
    <3>1. /\ t.open[l] = State.open[old(l)] /\ old(l) \in DOMAIN State.open
      BY <1>2, <1>6, <2>2
    <3> QED BY <3>1 DEF Among
  <2>10. ~none => /\ DOMAIN t.open = DOMAIN State.open
                  /\ \A k \in DOMAIN State.open : /\ t.open[k].path = State.open[k].path
                                                  /\ t.open[k].id = State.open[k].id
    BY <1>2, <1>4, <1>6
  <2>11. Opened(State, t, p, i)
    BY <1>2, <1>4, <1>6, <1>11, <1>12, <2>9, <2>10 DEF Opened
  <2>12. t.open[j].ops = With(s.open[j].ops, op, s.open[j].ops[op] + 1)
    BY <1>6 DEF v
  <2>13. /\ \A l \in DOMAIN t.open \ {j} :
              old(l) \in DOMAIN State.open /\ t.open[l] = State.open[old(l)]
         /\ \A k \in DOMAIN State.open :
              \E l \in DOMAIN t.open : old(l) = k /\ s.open[l] = State.open[k]
    BY <1>2, <1>4, <1>6, <2>2
  <2>14. OneMore(State, t, p, i, op)
    <3>1. CASE none
      <4>1. OthersStay(State, t, 0, j)
        <5>1. State.open \in Seq(OpenFile) /\ 0 \notin DOMAIN State.open
          BY StatesFields DEF Sound
        <5>2. \A l \in DOMAIN t.open : old(l) \in DOMAIN State.open => l # j
          BY <1>4, <5>1, <3>1 DEF old, j
        <5> QED BY <1>6, <2>13, <5>1, <5>2 DEF OthersStay
      <4>2. s.open[j].ops = [o \in Op |-> 0]
        BY <1>4, <3>1
      <4> QED BY <1>2, <1>4, <1>6, <1>11, <2>12, <3>1, <4>1, <4>2 DEF OneMore
    <3>2. CASE ~none
      <4>1. \A l : old(l) = l
        BY <3>2 DEF old
      <4>2. OthersStay(State, t, j, j)
        BY <1>6, <2>13, <4>1 DEF OthersStay
      <4>3. j \in DOMAIN State.open /\ j # 0 /\ s.open[j] = State.open[j]
        <5>1. s.open = State.open
          BY <1>2, <1>4, <3>2
        <5>2. State.open \in Seq(OpenFile) /\ 0 \notin DOMAIN State.open
          BY StatesFields DEF Sound
        <5> QED BY <1>4, <5>1, <5>2
      <4>4. t.disk = State.disk /\ j \in DOMAIN t.open
        BY <1>2, <1>4, <1>6
      <4>5. t.open[j].path = p /\ t.open[j].id = i /\ State.open[j].path = p
        BY <1>4, <1>6, <4>3
      <4>6. t.open[j].ops = With(State.open[j].ops, op, State.open[j].ops[op] + 1)
        BY <2>12, <4>3
      <4> HIDE DEF i, j, s, t, n, none
      <4> QED BY <4>2, <4>3, <4>4, <4>5, <4>6 DEF OneMore
    <3> QED BY <3>1, <3>2
  <2> QED BY <1>1, <1>10, <1>13, <2>8, <2>11, <2>14 DEF i, n
<1> QED BY <1>9, <1>10

\* freeINode of an inode that is open.
LEMMA FreeOpenFields ==
  ASSUME NEW s \in States, NEW i \in DOMAIN s.table
  PROVE  LET t == FreeINode(s, i)
         IN  /\ t \in States /\ t.open = s.open
             /\ t.dir = With(s.dir, i, <<>>)
             /\ t.disk = With(s.disk, i, Node("FREE", 0))
             /\ t.newest = With(s.newest, i, Node("FREE", 0))
             /\ DOMAIN t.table = DOMAIN s.table
             /\ \A j \in DOMAIN s.table \ {i} : t.table[j] = s.table[j]
             /\ DOMAIN t.cache = DOMAIN s.cache
             /\ \A j \in INode \ {i} : InCore(t, j) = InCore(s, j)
<1> DEFINE free == Node("FREE", 0)
           r == ReadINode(s, {i})
           u == SetInCore(r, i, free)
           d == With(u.disk, i, free)
           dd == With(u.dir, i, <<>>)
           t == FreeINode(s, i)
<1>1. free \in INodeType /\ i \in INode
  BY StatesFields DEF Node, INodeType
<1>2. ReadTo(s, r) /\ DOMAIN r.cache = DOMAIN s.cache
  <2>1. DOMAIN r.cache = DOMAIN s.cache
    BY StatesFields DEF ReadINode
  <2>2. ReadTo(s, r)
    BY <1>1, ReadINodeReads
  <2> QED BY <2>1, <2>2
<1>3. /\ r \in States
      /\ r.dir = s.dir /\ r.disk = s.disk /\ r.table = s.table /\ r.open = s.open
      /\ r.newest = s.newest
      /\ \A j \in INode : InCore(r, j) = InCore(s, j)
  <2> HIDE DEF r
  <2> QED BY <1>2 DEF ReadTo
<1> HIDE DEF r, free
<1>4. /\ u \in States
      /\ u.dir = r.dir /\ u.disk = r.disk /\ u.open = r.open
      /\ u.newest = With(r.newest, i, free)
      /\ DOMAIN u.table = DOMAIN r.table
      /\ \A j \in DOMAIN r.table \ {i} : u.table[j] = r.table[j]
      /\ DOMAIN u.cache = DOMAIN r.cache
      /\ \A j \in INode :
           InCore(u, j) = IF j = i /\ i \in DOMAIN r.table \union DOMAIN r.cache
                            THEN free ELSE InCore(r, j)
  BY <1>1, <1>3, SetInCoreFields
<1>5. t = [u EXCEPT !.disk = d, !.dir = dd]
  <2>1. WriteINode(r, i, free) = [u EXCEPT !.disk = d]
    <3> HIDE DEF u
    <3> QED BY DEF WriteINode, With, u
  <2> DEFINE w == WriteINode(r, i, free)
  <2>2. t = [w EXCEPT !.dir = With(w.dir, i, <<>>)]
    BY DEF FreeINode, r, free, With
  <2>3. w = [u EXCEPT !.disk = d]
    BY <2>1
  <2> HIDE DEF w, u, t, d
  <2>4. w.dir = u.dir
    BY <2>3, <1>4, StatesFields
  <2> QED BY <2>2, <2>3, <2>4, <1>4, StatesFields
<1> HIDE DEF u, t
<1>6. d \in [INode -> INodeType] /\ dd \in [INode -> Seq(Slot)]
  BY <1>1, <1>4, StatesFields DEF With
<1>7. /\ t \in States /\ t.disk = d /\ t.dir = dd
      /\ t.table = u.table /\ t.cache = u.cache /\ t.open = u.open
      /\ t.newest = u.newest
  <2> HIDE DEF d, dd
  <2> QED BY <1>4, <1>5, <1>6, StatesFields DEF States
<1>8. \A j \in INode \ {i} : InCore(t, j) = InCore(s, j)
  <2> TAKE j \in INode \ {i}
  <2>1. InCore(u, j) = InCore(s, j)
    BY <1>3, <1>4
  <2>2. d[j] = u.disk[j]
    BY <1>4, StatesFields DEF With
  <2> HIDE DEF d, dd
  <2>3. InCore(t, j) = InCore(u, j)
    BY <1>7, <2>2 DEF InCore
  <2> QED BY <2>1, <2>3
<1> QED BY <1>2, <1>3, <1>4, <1>7, <1>8 DEF t, free

\* The last l2_close frees the inode, or moves it to the cache.
LEMMA ReleaseFields ==
  ASSUME NEW s \in States, Apart(s), NEW i \in DOMAIN s.table,
         \A j \in INode : InCore(s, j) = s.newest[j]
  PROVE  LET t == Release(s, i)
         IN  /\ t \in States /\ Apart(t) /\ t.open = s.open
             /\ DOMAIN t.table = DOMAIN s.table \ {i}
             /\ \A j \in DOMAIN t.table : t.table[j] = s.table[j]
             /\ \A j \in INode : InCore(t, j) = t.newest[j]
             /\ \A j \in INode \ {i} : /\ t.newest[j] = s.newest[j]
                                       /\ t.disk[j] = s.disk[j]
             /\ \/ /\ s.newest[i].links # 0
                   /\ t.newest = s.newest /\ t.disk = s.disk /\ t.dir = s.dir
                \/ /\ s.newest[i].links = 0
                   /\ t.newest[i] = Node("FREE", 0) /\ t.disk[i] = t.newest[i]
                   /\ t.dir = With(s.dir, i, <<>>)
<1>1. i \in INode /\ s.newest[i] = s.table[i].node
  BY StatesFields DEF InCore
<1>2. CASE s.table[i].node.links = 0
  <2> DEFINE f == FreeINode(s, i)
             tab == Without(f.table, i)
             t == [f EXCEPT !.table = tab]
  <2>1. Release(s, i) = t
    BY <1>2 DEF Release
  <2>2. /\ f \in States /\ f.open = s.open
        /\ f.dir = With(s.dir, i, <<>>)
        /\ f.disk = With(s.disk, i, Node("FREE", 0))
        /\ f.newest = With(s.newest, i, Node("FREE", 0))
        /\ DOMAIN f.table = DOMAIN s.table
        /\ \A j \in DOMAIN s.table \ {i} : f.table[j] = s.table[j]
        /\ DOMAIN f.cache = DOMAIN s.cache
        /\ \A j \in INode \ {i} : InCore(f, j) = InCore(s, j)
    BY FreeOpenFields
  <2> HIDE DEF f
  <2>3. /\ DOMAIN tab = DOMAIN s.table \ {i}
        /\ \A j \in DOMAIN tab : tab[j] = s.table[j] /\ tab[j] = f.table[j]
    BY <2>2 DEF Without
  <2>4. tab \in Partial(TableEntry)
    <3>1. tab = [j \in DOMAIN tab |-> tab[j]]
      BY DEF Without
    <3> HIDE DEF tab
    <3> QED BY <2>3, <3>1, StatesFields, PartialFunction
  <2>5. /\ t \in States /\ t.table = tab
        /\ t.dir = f.dir /\ t.disk = f.disk /\ t.cache = f.cache
        /\ t.open = f.open /\ t.newest = f.newest
    <3> HIDE DEF tab
    <3> QED BY <2>2, <2>4, StatesFields DEF States
  <2> HIDE DEF tab, t
  <2>6. /\ \A j \in INode \ {i} : f.newest[j] = s.newest[j] /\ f.disk[j] = s.disk[j]
        /\ f.newest[i] = f.disk[i] /\ f.newest[i] = Node("FREE", 0)
    BY <1>1, <2>2, StatesFields DEF With
  <2>7. ASSUME NEW j \in INode
        PROVE  InCore(t, j) = t.newest[j]
    <3>1. CASE j = i
      <4>1. i \notin DOMAIN t.table /\ i \notin DOMAIN t.cache
        BY <2>2, <2>3, <2>5 DEF Apart
      <4> QED BY <3>1, <4>1, <2>5, <2>6 DEF InCore
    <3>2. CASE j # i
      <4>1. InCore(t, j) = InCore(f, j)
        BY <2>2, <2>3, <2>5, <3>2 DEF InCore
      <4> QED BY <2>2, <2>5, <2>6, <3>2, <4>1
    <3> QED BY <3>1, <3>2
  <2>8. Apart(t)
    BY <2>2, <2>3, <2>5 DEF Apart
  <2> QED BY <1>1, <1>2, <2>1, <2>2, <2>3, <2>5, <2>6, <2>7, <2>8
<1>3. CASE s.table[i].node.links # 0
  <2> DEFINE tab == Without(s.table, i)
             c == [j \in DOMAIN s.cache \union {i} |->
                     IF j = i THEN s.table[i].node ELSE s.cache[j]]
             t == [s EXCEPT !.table = tab, !.cache = c]
  <2>1. Release(s, i) = t
    BY <1>3 DEF Release
  <2>2. /\ DOMAIN tab = DOMAIN s.table \ {i}
        /\ \A j \in DOMAIN tab : tab[j] = s.table[j]
    BY DEF Without
  <2>3. tab \in Partial(TableEntry)
    <3>1. tab = [j \in DOMAIN tab |-> tab[j]]
      BY DEF Without
    <3> HIDE DEF tab
    <3> QED BY <2>2, <3>1, StatesFields, PartialFunction
  <2>4. /\ DOMAIN c = DOMAIN s.cache \union {i} /\ c[i] = s.table[i].node
        /\ \A j \in DOMAIN s.cache \ {i} : c[j] = s.cache[j]
    OBVIOUS
  <2>5. c \in Partial(INodeType)
    <3>1. s.table[i].node \in INodeType
      BY StatesFields DEF TableEntry
    <3>2. c \in [DOMAIN s.cache \union {i} -> INodeType]
      BY <3>1, StatesFields
    <3>3. DOMAIN s.cache \union {i} \in SUBSET INode
      BY <1>1, StatesFields
    <3> HIDE DEF c
    <3> QED BY <3>2, <3>3, FunctionPartial
  <2>6. /\ t \in States /\ t.table = tab /\ t.cache = c
        /\ t.dir = s.dir /\ t.disk = s.disk /\ t.open = s.open /\ t.newest = s.newest
    <3> HIDE DEF tab, c
    <3> QED BY <2>3, <2>5, StatesFields DEF States
  <2> HIDE DEF t, tab, c
  <2>7. \A j \in INode : InCore(t, j) = InCore(s, j)
    BY <2>2, <2>4, <2>6 DEF InCore, Apart
  <2>8. Apart(t)
    BY <2>2, <2>4, <2>6 DEF Apart
  <2> QED BY <1>1, <1>3, <2>1, <2>2, <2>6, <2>7, <2>8
<1> QED BY <1>2, <1>3

\* Removing an entry of the open file table.
LEMMA RemoveAtFields ==
  ASSUME NEW X, NEW s \in Seq(X), NEW k \in DOMAIN s
  PROVE  /\ RemoveAt(s, k) \in Seq(X)
         /\ Len(s) \in Nat /\ DOMAIN s = 1 .. Len(s)
         /\ DOMAIN RemoveAt(s, k) = 1 .. Len(s) - 1
         /\ \A j \in 1 .. Len(s) - 1 :
              RemoveAt(s, k)[j] = s[IF j < k THEN j ELSE j + 1]
<1>1. /\ Len(s) \in Nat /\ DOMAIN s = 1 .. Len(s) /\ k \in 1 .. Len(s)
      /\ \A j \in 1 .. Len(s) : s[j] \in X
  OBVIOUS
<1> DEFINE a == SubSeq(s, 1, k - 1)
           b == SubSeq(s, k + 1, Len(s))
<1>2. /\ a \in Seq(X) /\ Len(a) = k - 1 /\ \A j \in 1 .. k - 1 : a[j] = s[j]
  <2>1. /\ a \in Seq(X)
        /\ Len(a) = IF 1 <= k - 1 THEN (k - 1) - 1 + 1 ELSE 0
        /\ \A j \in 1 .. (k - 1) - 1 + 1 : a[j] = s[1 + j - 1]
    BY <1>1, SubSeqProperties
  <2> HIDE DEF a
  <2> QED BY <1>1, <2>1
<1>3. /\ b \in Seq(X) /\ Len(b) = Len(s) - k
      /\ \A j \in 1 .. Len(s) - k : b[j] = s[k + j]
  <2>1. k + 1 \in Int /\ Len(s) \in Int /\ \A j \in k + 1 .. Len(s) : s[j] \in X
    BY <1>1
  <2>2. /\ b \in Seq(X)
        /\ Len(b) = IF k + 1 <= Len(s) THEN Len(s) - (k + 1) + 1 ELSE 0
        /\ \A j \in 1 .. Len(s) - (k + 1) + 1 : b[j] = s[(k + 1) + j - 1]
    BY <2>1, SubSeqProperties
  <2> HIDE DEF b
  <2>3. Len(b) = Len(s) - k /\ Len(s) - (k + 1) + 1 = Len(s) - k
    BY <1>1, <2>2
  <2>4. \A j \in 1 .. Len(s) - k : (k + 1) + j - 1 = k + j
    BY <1>1
  <2>5. \A j \in 1 .. Len(s) - k : b[j] = s[k + j]
    BY <2>2, <2>3, <2>4
  <2> QED BY <2>2, <2>3, <2>5
<1>4. RemoveAt(s, k) = a \o b
  BY DEF RemoveAt
<1> HIDE DEF a, b
<1> DEFINE c == a \o b
<1>5. /\ c \in Seq(X) /\ Len(c) = Len(a) + Len(b)
      /\ \A j \in 1 .. Len(a) + Len(b) : c[j] = IF j <= Len(a) THEN a[j] ELSE b[j - Len(a)]
  BY <1>2, <1>3, ConcatProperties
<1> HIDE DEF c
<1>6. Len(c) = Len(s) - 1 /\ DOMAIN c = 1 .. Len(s) - 1
  BY <1>1, <1>2, <1>3, <1>5
<1>7. ASSUME NEW j \in 1 .. Len(s) - 1
      PROVE  c[j] = s[IF j < k THEN j ELSE j + 1]
  <2>1. c[j] = IF j <= k - 1 THEN a[j] ELSE b[j - (k - 1)]
    BY <1>1, <1>2, <1>3, <1>5
  <2>2. CASE j < k
    <3>1. j <= k - 1 /\ j \in 1 .. k - 1
      BY <1>1, <2>2
    <3> QED BY <1>2, <2>1, <2>2, <3>1
  <2>3. CASE ~(j < k)
    <3>1. ~(j <= k - 1) /\ j - (k - 1) \in 1 .. Len(s) - k /\ k + (j - (k - 1)) = j + 1
      BY <1>1, <2>3
    <3>2. b[j - (k - 1)] = s[k + (j - (k - 1))]
      BY <1>3, <3>1
    <3> QED BY <2>1, <2>3, <3>1, <3>2
  <2> QED BY <2>2, <2>3
<1> QED BY <1>1, <1>4, <1>5, <1>6, <1>7, Zenon DEF c

\* l2_close never ends the process, and leaves what stays open as it is.
LEMMA CloseMoves ==
  ASSUME Sound(State), NEW p \in Path, NEW op \in Op, Close(p, op)
  PROVE  \E t, i : /\ Moves(State, t) /\ Become(t) /\ Closed(State, t, i)
                   /\ OneLess(State, t, p, i, op)
<1> DEFINE s == State
           k == Min(EntryOf(State, p))
           i == open[k].id
           v == open[k].ops[op] - 1
           r == table[i].ref - 1
           t == Counted(s, k, op, v, i, r)
           o == RemoveAt(open, k)
           t2 == [t EXCEPT !.open = o]
           u == Release(t2, i)
<1>1. /\ EntryOf(State, p) # {} /\ open[k].ops[op] > 0
      /\ IF Count(t.open[k].ops) # t.table[i].ref THEN Abort
         ELSE Become(IF t.table[i].ref > 0 THEN t ELSE u)
  BY DEF Close, Counted
<1>2. /\ s.open = open /\ s.table = table /\ Sound(s) /\ s \in States
      /\ s.newest = newest
  BY DEF State, Sound
<1>3. /\ k \in DOMAIN open /\ open[k] \in OpenFile
      /\ i \in INode /\ i \in DOMAIN table /\ i # Root
      /\ open[k].ops \in [Op -> Nat]
      /\ table[i].ref = Count(open[k].ops)
  BY <1>1, OpenEntry, Zenon
<1>4. v \in Nat /\ r \in Nat /\ Count(With(open[k].ops, op, v)) = r
  <2>1. /\ Count(open[k].ops) \in Nat /\ open[k].ops[op] \in Nat
        /\ open[k].ops[op] <= Count(open[k].ops)
    <3> HIDE DEF k
    <3> QED BY <1>3, CountType
  <2>2. v \in Nat /\ r \in Nat
    <3> HIDE DEF k, i
    <3> QED BY <1>1, <1>3, <2>1
  <2>3. Count(With(open[k].ops, op, v)) = Count(open[k].ops) - open[k].ops[op] + v
    <3> HIDE DEF k, v
    <3> QED BY <1>3, <2>2, CountType
  <2> HIDE DEF k, i
  <2> QED BY <1>3, <2>1, <2>2, <2>3
<1>14. /\ s.open[k].path = p /\ s.open[k].id = i /\ s.open[k].ops[op] > 0
       /\ 0 \notin DOMAIN s.open /\ k # 0
  <2>1. open[k].path = p
    BY <1>1, <1>2, EntryIn
  <2>2. s.open \in Seq(OpenFile)
    BY <1>2, StatesFields
  <2> QED BY <1>1, <1>2, <1>3, <2>1, <2>2
<1> HIDE DEF k, v, r, s
<1>5. /\ t \in States
      /\ t.dir = s.dir /\ t.disk = s.disk /\ t.cache = s.cache
      /\ t.newest = s.newest
      /\ DOMAIN t.open = DOMAIN s.open
      /\ \A j \in DOMAIN s.open \ {k} : t.open[j] = s.open[j]
      /\ t.open[k].id = s.open[k].id /\ t.open[k].path = s.open[k].path
      /\ t.open[k].ops = With(s.open[k].ops, op, v)
      /\ DOMAIN t.table = DOMAIN s.table
      /\ \A j \in DOMAIN s.table \ {i} : t.table[j] = s.table[j]
      /\ t.table[i].ref = r /\ t.table[i].node = s.table[i].node
  <2>1. /\ s \in States /\ k \in DOMAIN s.open /\ i \in DOMAIN s.table
        /\ v \in Nat /\ r \in Nat
    BY <1>2, <1>3, <1>4
  <2> HIDE DEF i
  <2> QED BY <2>1, CountedFields
<1>6. Become(IF r > 0 THEN t ELSE u)
  <2> HIDE DEF i, t, u
  <2> QED BY <1>1, <1>2, <1>4, <1>5
<1>7. \A j \in DOMAIN s.open \ {k} :
        /\ s.open[j].id # i /\ s.open[j].id \in DOMAIN s.table
        /\ s.table[s.open[j].id].ref = Count(s.open[j].ops)
        /\ Count(s.open[j].ops) # 0
        /\ s.newest[s.open[j].id].type = "REGULAR"
  BY <1>2, <1>3 DEF Sound, OpenAgree
<1>8. \A j \in INode : InCore(t, j) = InCore(s, j)
  <2> HIDE DEF t, i
  <2> QED BY <1>5 DEF InCore
<1>9. Apart(t)
  <2> HIDE DEF t, i
  <2> QED BY <1>2, <1>5 DEF Apart, Sound
<1>10. \A j \in DOMAIN s.table : s.newest[j].links <= s.newest[j].links
  BY <1>2, StatesFields, NodeFields
<1>13. s.newest[i].type = "REGULAR"
  BY <1>2, <1>3 DEF Sound, OpenAgree
<1>11. CASE r > 0
  <2> HIDE DEF t, u
  <2>1. OpenAgree(t)
    <3>1. ASSUME NEW j \in DOMAIN t.open
          PROVE  /\ t.open[j].id \in DOMAIN t.table
                 /\ t.table[t.open[j].id].ref = Count(t.open[j].ops)
                 /\ Count(t.open[j].ops) # 0
                 /\ t.newest[t.open[j].id].type = "REGULAR"
      <4>1. CASE j = k
        <5>1. s.newest[i].type = "REGULAR"
          BY <1>2, <1>3 DEF Sound, OpenAgree
        <5> QED BY <1>2, <1>3, <1>4, <1>5, <1>11, <4>1, <5>1
      <4>2. CASE j # k
        BY <1>5, <1>7, <3>1, <4>2
      <4> QED BY <4>1, <4>2
    <3>2. \A j \in DOMAIN t.open : t.open[j].id = s.open[j].id
      BY <1>5
    <3> HIDE DEF i
    <3> QED BY <3>1, <3>2, <1>2, <1>5 DEF Sound, OpenAgree
  <2>2. Sound(t)
    BY <1>2, <1>5, <1>8, <1>9, <2>1 DEF Sound, RootStays
  <2>3. Moves(s, t)
    BY <1>5, <1>10, <2>2 DEF Moves
  <2>4. \A l \in DOMAIN t.open : Among(t, l, s)
    BY <1>5 DEF Among
  <2>5. Closed(s, t, i)
    <3> HIDE DEF i
    <3> QED BY <1>2, <1>3, <1>5, <1>13, <2>4 DEF Closed
  <2>6. OneLess(s, t, p, i, op)
    <3>1. OthersStay(s, t, k, k)
      BY <1>5 DEF OthersStay
    <3>2. t.open[k].ops = With(s.open[k].ops, op, s.open[k].ops[op] - 1)
      BY <1>2, <1>5 DEF v
    <3>3. Count(With(s.open[k].ops, op, s.open[k].ops[op] - 1)) # 0
      BY <1>2, <1>4, <1>11 DEF v
    <3> HIDE DEF i
    <3> QED BY <1>2, <1>3, <1>5, <1>14, <3>1, <3>2, <3>3 DEF OneLess
  <2> HIDE DEF i
  <2> QED BY <1>6, <1>11, <2>3, <2>5, <2>6 DEF s
<1>12. CASE ~(r > 0)
  <2> DEFINE old(j) == IF j < k THEN j ELSE j + 1
  <2>1. /\ open \in Seq(OpenFile) /\ k \in DOMAIN open
    BY <1>2, <1>3, StatesFields
  <2>2. /\ o \in Seq(OpenFile)
        /\ Len(open) \in Nat /\ DOMAIN open = 1 .. Len(open)
        /\ DOMAIN o = 1 .. Len(open) - 1
        /\ \A j \in 1 .. Len(open) - 1 : o[j] = open[old(j)]
    BY <2>1, RemoveAtFields
  <2> HIDE DEF t, o, i
  <2>3. /\ t2 \in States /\ t2.open = o
        /\ t2.dir = t.dir /\ t2.disk = t.disk /\ t2.cache = t.cache
        /\ t2.newest = t.newest /\ t2.table = t.table
    BY <1>5, <2>2, StatesFields DEF States
  <2> HIDE DEF t2
  <2>4. /\ i \in DOMAIN t2.table /\ Apart(t2)
        /\ \A j \in INode : InCore(t2, j) = t2.newest[j]
    BY <1>2, <1>3, <1>5, <1>8, <1>9, <2>3 DEF Apart, InCore, Sound
  <2>5. /\ u \in States /\ Apart(u) /\ u.open = t2.open
        /\ DOMAIN u.table = DOMAIN t2.table \ {i}
        /\ \A j \in DOMAIN u.table : u.table[j] = t2.table[j]
        /\ \A j \in INode : InCore(u, j) = u.newest[j]
        /\ \A j \in INode \ {i} : /\ u.newest[j] = t2.newest[j]
                                  /\ u.disk[j] = t2.disk[j]
        /\ \/ u.newest = t2.newest /\ u.disk = t2.disk /\ u.dir = t2.dir
           \/ u.newest[i] = u.disk[i] /\ u.dir = With(t2.dir, i, <<>>)
        /\ \/ /\ t2.newest[i].links # 0 /\ u.newest = t2.newest /\ u.dir = t2.dir
              /\ u.disk = t2.disk
           \/ /\ t2.newest[i].links = 0 /\ u.newest[i] = Node("FREE", 0)
              /\ u.dir = With(t2.dir, i, <<>>)
    BY <2>3, <2>4, ReleaseFields
  <2> HIDE DEF u
  <2>6. \A j \in 1 .. Len(open) - 1 : /\ old(j) \in DOMAIN s.open \ {k}
                                      /\ u.open[j] = s.open[old(j)]
    BY <1>2, <1>3, <2>2, <2>3, <2>5
  <2>7. \A j, l \in 1 .. Len(open) - 1 : old(j) = old(l) => j = l
    BY <1>3, <2>2
  <2>8. \A l \in DOMAIN s.open \ {k} : \E j \in 1 .. Len(open) - 1 : old(j) = l
    <3> TAKE l \in DOMAIN s.open \ {k}
    <3>1. l < k => l \in 1 .. Len(open) - 1 /\ old(l) = l
      BY <1>2, <1>3, <2>2
    <3>2. l > k => l - 1 \in 1 .. Len(open) - 1 /\ old(l - 1) = l
      BY <1>2, <1>3, <2>2
    <3>3. l < k \/ l > k
      BY <1>2, <1>3, <2>2
    <3> QED BY <3>1, <3>2, <3>3
  <2> HIDE DEF old
  <2>9. \A j \in INode : /\ u.disk[j].type = u.newest[j].type
                         /\ u.disk[j].links = u.newest[j].links
    BY <1>2, <1>5, <2>3, <2>5 DEF Sound
  <2>10. OpenAgree(u)
    <3>1. ASSUME NEW j \in DOMAIN u.open
          PROVE  /\ u.open[j].id \in DOMAIN u.table
                 /\ u.table[u.open[j].id].ref = Count(u.open[j].ops)
                 /\ Count(u.open[j].ops) # 0
                 /\ u.newest[u.open[j].id].type = "REGULAR"
      <4>1. j \in 1 .. Len(open) - 1
        BY <2>2, <2>3, <2>5, <3>1
      <4> DEFINE l == old(j)
      <4>2. l \in DOMAIN s.open \ {k} /\ u.open[j] = s.open[l]
        BY <2>6, <4>1
      <4> HIDE DEF l
      <4>3. s.open[l].id \in DOMAIN u.table /\ s.open[l].id \in INode
        BY <1>2, <1>5, <1>7, <2>3, <2>5, <4>2, OpenIds
      <4>4. /\ u.table[s.open[l].id] = s.table[s.open[l].id]
            /\ u.newest[s.open[l].id] = s.newest[s.open[l].id]
        BY <1>5, <1>7, <2>3, <2>5, <4>2, <4>3
      <4> QED BY <1>7, <4>2, <4>3, <4>4
    <3>2. ASSUME NEW j \in DOMAIN u.open, NEW l \in DOMAIN u.open,
                 u.open[j].id = u.open[l].id
          PROVE  j = l
      <4>1. j \in 1 .. Len(open) - 1 /\ l \in 1 .. Len(open) - 1
        BY <2>2, <2>3, <2>5, <3>2
      <4>2. old(j) = old(l)
        BY <1>2, <2>6, <3>2, <4>1 DEF Sound, OpenAgree
      <4> QED BY <2>7, <4>1, <4>2
    <3>3. ASSUME NEW x \in DOMAIN u.table
          PROVE  \E j \in DOMAIN u.open : u.open[j].id = x
      <4>1. x \in DOMAIN s.table /\ x # i
        BY <1>5, <2>3, <2>5, <3>3
      <4>2. PICK l \in DOMAIN s.open : s.open[l].id = x
        BY <1>2, <4>1 DEF Sound, OpenAgree
      <4>3. l # k
        BY <1>2, <4>1, <4>2 DEF i
      <4>4. PICK j \in 1 .. Len(open) - 1 : old(j) = l
        BY <2>8, <4>2, <4>3
      <4> QED BY <2>2, <2>3, <2>5, <2>6, <4>2, <4>4
    <3> QED BY <3>1, <3>2, <3>3 DEF OpenAgree
  <2>11. RootStays(u)
    <3>1. Root \in INode
      BY PathAssumption, Zenon
    <3>2. s.dir \in [INode -> Seq(Slot)]
      BY <1>2, StatesFields
    <3>3. u.newest[Root].type = "DIRECTORY"
      BY <1>2, <1>3, <1>5, <2>3, <2>5, <3>1 DEF Sound, RootStays
    <3>4. ASSUME NEW x \in INode, NEW y \in DOMAIN u.dir[x]
          PROVE  u.dir[x][y].id # Root
      <4>1. CASE u.dir = s.dir
        BY <1>2, <3>4, <4>1 DEF Sound, RootStays
      <4>2. CASE u.dir = With(s.dir, i, <<>>)
        <5>1. u.dir[x] = IF x = i THEN <<>> ELSE s.dir[x]
          BY <3>2, <4>2 DEF With
        <5>2. x # i
          BY <3>4, <5>1
        <5> QED BY <1>2, <3>4, <5>1, <5>2 DEF Sound, RootStays
      <4> QED BY <1>5, <2>3, <2>5, <4>1, <4>2
    <3> QED BY <3>3, <3>4 DEF RootStays
  <2>12. Sound(u)
    BY <2>5, <2>9, <2>10, <2>11 DEF Sound
  <2>13. s.disk = s.newest => u.disk = u.newest
    <3> SUFFICES ASSUME s.disk = s.newest PROVE u.disk = u.newest
      OBVIOUS
    <3>1. u.disk \in [INode -> INodeType] /\ u.newest \in [INode -> INodeType]
      BY <2>5, StatesFields
    <3>2. \A j \in INode : u.disk[j] = u.newest[j]
      BY <1>5, <2>3, <2>5
    <3> QED BY <3>1, <3>2
  <2>14. Moves(s, u)
    <3>1. ASSUME NEW j \in DOMAIN s.table \intersect DOMAIN u.table
          PROVE  /\ u.newest[j].type = s.newest[j].type
                 /\ u.newest[j].links <= s.newest[j].links
      <4>1. j \in INode \ {i}
        BY <1>2, <2>5, <3>1, StatesFields
      <4>2. u.newest[j] = s.newest[j]
        BY <1>5, <2>3, <2>5, <4>1
      <4> QED BY <1>10, <3>1, <4>2
    <3> QED BY <2>12, <2>13, <3>1 DEF Moves
  <2>15. \A l \in DOMAIN u.open : Among(u, l, s)
    BY <2>2, <2>3, <2>5, <2>6 DEF Among
  <2>16. Closed(s, u, i)
    BY <1>2, <1>3, <1>5, <1>13, <2>3, <2>5, <2>15 DEF Closed
  <2>17. OneLess(s, u, p, i, op)
    <3>1. OthersStay(s, u, k, 0)
      <4>1. 0 \notin DOMAIN u.open /\ DOMAIN u.open = 1 .. Len(open) - 1
        BY <2>2, <2>3, <2>5
      <4> QED BY <2>6, <2>8, <4>1 DEF OthersStay
    <3>2. Count(With(s.open[k].ops, op, s.open[k].ops[op] - 1)) = 0
      BY <1>2, <1>4, <1>12 DEF v
    <3>3. DOMAIN u.table = DOMAIN s.table \ {i}
      BY <1>5, <2>3, <2>5
    <3>4. \A l \in INode \ {i} : u.disk[l] = s.disk[l]
      BY <1>5, <2>3, <2>5
    <3>5. \/ u.newest = s.newest /\ u.disk = s.disk
          \/ s.newest[i].links = 0 /\ u.newest[i] = Node("FREE", 0)
      BY <1>5, <2>3, <2>5
    <3> QED BY <1>2, <1>3, <1>14, <3>1, <3>2, <3>3, <3>4, <3>5 DEF OneLess
  <2> QED BY <1>6, <1>12, <2>14, <2>16, <2>17 DEF s
<1> QED BY <1>11, <1>12

-----------------------------------------------------------------------------
(* The invariant and the theorems.                                           *)

\* What ends in another state than it began with.
LEMMA BecomeState ==
  ASSUME NEW t \in States, Become(t)
  PROVE  State' = t
BY StatesFields DEF Become, State

\* The inductive invariant.
StoredUnlessFailed == "write_failed" \in odd \/ disk = newest

IInv ==
  /\ Sound(State)
  /\ odd \subseteq Oddities
  /\ StoredUnlessFailed

\* What keeps all leaves what stays open as it is.
LEMMA KeepsMoves ==
  ASSUME NEW s, NEW t, Sound(s), Keeps(s, t)
  PROVE  Moves(s, t)
BY DEF Keeps, StaysOpen, Moves

\* The part of OpenFileStays that is about one step.
FilesStay ==
  \A i \in DOMAIN table \intersect DOMAIN table' :
    newest'[i].type = newest[i].type /\ newest'[i].links <= newest[i].links

\* A step that does has the invariant.
LEMMA MovesInv ==
  ASSUME IInv, NEW t, Moves(State, t), Become(t), odd' \subseteq Oddities,
         "write_failed" \in odd => "write_failed" \in odd'
  PROVE  IInv' /\ FilesStay
<1>1. t \in States /\ Sound(t)
  BY DEF Moves, Sound
<1>2. State' = t
  BY <1>1, BecomeState
<1>3. Sound(State)'
  BY <1>1, <1>2
<1>4. t.table = table' /\ t.newest = newest' /\ t.disk = disk'
  BY DEF Become
<1>5. State.table = table /\ State.newest = newest /\ State.disk = disk
  BY DEF State
<1>6. FilesStay
  BY <1>4, <1>5 DEF Moves, FilesStay
<1>7. StoredUnlessFailed'
  BY <1>4, <1>5 DEF Moves, StoredUnlessFailed, IInv
<1> QED BY <1>3, <1>6, <1>7 DEF IInv

\* The tables are empty after l2_mount.
LEMMA EmptyPartial ==
  ASSUME NEW R, NEW f, f = [i \in {} |-> 0]
  PROVE  f \in Partial(R)
<1>1. f \in [{} -> R] /\ {} \in SUBSET INode
  OBVIOUS
<1> QED BY <1>1, FunctionPartial

\* The file system l2_mkfs makes has the invariant.
LEMMA InitInv ==
  ASSUME Init
  PROVE  IInv
<1> DEFINE node(i) == IF i = Root THEN Node("DIRECTORY", 2) ELSE Node("FREE", 0)
<1>1. /\ Node("DIRECTORY", 2) \in INodeType /\ Node("FREE", 0) \in INodeType
      /\ Node("DIRECTORY", 2).type = "DIRECTORY"
  BY DEF Node, INodeType
<1>2. /\ State = [dir |-> dir, disk |-> disk, table |-> table, cache |-> cache,
                  open |-> open, newest |-> newest]
      /\ State.dir = dir /\ State.disk = disk /\ State.table = table
      /\ State.cache = cache /\ State.open = open /\ State.newest = newest
  BY DEF State
<1>3. /\ dir = [i \in INode |-> <<>>] /\ newest = disk /\ open = <<>> /\ odd = {}
      /\ disk = [i \in INode |-> node(i)]
  BY DEF Init
<1>4. DOMAIN table = {} /\ DOMAIN cache = {}
      /\ table = [i \in {} |-> 0] /\ cache = [i \in {} |-> 0]
  BY DEF Init
<1>5. /\ table \in Partial(TableEntry) /\ cache \in Partial(INodeType)
      /\ dir \in [INode -> Seq(Slot)] /\ open \in Seq(OpenFile)
  <2>1. <<>> \in Seq(Slot) /\ <<>> \in Seq(OpenFile)
    OBVIOUS
  <2> QED BY <1>3, <1>4, <2>1, EmptyPartial
<1>6. disk \in [INode -> INodeType] /\ disk[Root].type = "DIRECTORY"
  BY <1>1, <1>3, PathAssumption, Zenon
<1>7. State \in States
  BY <1>2, <1>3, <1>5, <1>6 DEF States
<1>8. Apart(State)
  BY <1>2, <1>4 DEF Apart
<1>9. \A i \in INode : InCore(State, i) = State.newest[i]
  BY <1>2, <1>3, <1>4 DEF InCore
<1>10. OpenAgree(State)
  BY <1>2, <1>3, <1>4 DEF OpenAgree
<1>11. RootStays(State)
  BY <1>2, <1>3, <1>6 DEF RootStays
<1>12. Sound(State)
  BY <1>2, <1>3, <1>7, <1>8, <1>9, <1>10, <1>11 DEF Sound
<1> QED BY <1>3, <1>12 DEF IInv, StoredUnlessFailed

\* A remount keeps the invariant, because all is on disk but what a write failed
\* to store.
LEMMA MountInv ==
  ASSUME IInv, Mount
  PROVE  IInv' /\ FilesStay
<1> DEFINE t == [dir |-> dir, disk |-> disk, table |-> table', cache |-> cache',
                 open |-> open', newest |-> disk]
<1>1. State' = t
  BY DEF Mount, StartOver, State
<1>2. /\ State.dir = dir /\ State.disk = disk /\ State.newest = newest
      /\ State \in States
  BY DEF State, IInv, Sound
<1>3. /\ t.dir = dir /\ t.disk = disk /\ t.table = table' /\ t.cache = cache'
      /\ t.open = open' /\ t.newest = disk
  OBVIOUS
<1>4. DOMAIN table' = {} /\ DOMAIN cache' = {} /\ open' = <<>>
  BY DEF Mount, StartOver
<1>5. /\ table' \in Partial(TableEntry) /\ cache' \in Partial(INodeType)
      /\ open' \in Seq(OpenFile)
  <2>1. table' = [i \in {} |-> 0] /\ cache' = [i \in {} |-> 0]
    BY DEF Mount, StartOver
  <2>2. <<>> \in Seq(OpenFile)
    OBVIOUS
  <2> QED BY <1>4, <2>1, <2>2, EmptyPartial
<1>6. t \in States
  BY <1>2, <1>5, StatesFields DEF States
<1> HIDE DEF t
<1>7. Apart(t)
  BY <1>3, <1>4 DEF Apart
<1>8. \A i \in INode : InCore(t, i) = t.newest[i]
  BY <1>3, <1>4 DEF InCore
<1>9. OpenAgree(t)
  BY <1>3, <1>4 DEF OpenAgree
<1>10. RootStays(t)
  <2>1. Root \in INode
    BY PathAssumption, Zenon
  <2> QED BY <1>2, <1>3, <2>1 DEF RootStays, IInv, Sound
<1>11. Sound(t)
  BY <1>3, <1>6, <1>7, <1>8, <1>9, <1>10 DEF Sound
<1>12. Sound(State)'
  BY <1>1, <1>11
<1>13. (odd \subseteq Oddities)'
  BY DEF Mount, IInv, Oddities, Harmless
<1>14. StoredUnlessFailed'
  BY DEF Mount, StartOver, StoredUnlessFailed
<1>15. FilesStay
  BY <1>4 DEF FilesStay
<1> QED BY <1>12, <1>13, <1>14, <1>15 DEF IInv

\* A step that changes nothing, and one that ends the process.
LEMMA SameInv ==
  ASSUME IInv, UNCHANGED <<dir, disk, table, cache, open, newest, odd>>
  PROVE  IInv' /\ FilesStay
<1>1. State' = State
  BY DEF State
<1>2. IInv'
  BY <1>1 DEF IInv, StoredUnlessFailed
<1>3. ASSUME NEW i \in DOMAIN table
      PROVE  newest[i].links <= newest[i].links
  <2>1. State.table = table /\ State.newest = newest
    BY DEF State
  <2>2. newest[i] \in INodeType
    BY <1>3, <2>1, StatesFields DEF IInv, Sound
  <2> QED BY <2>2, NodeFields
<1>4. FilesStay
  BY <1>3 DEF FilesStay
<1> QED BY <1>2, <1>4

\* A call that keeps all, and notes at most an oddity.
LEMMA KeptInv ==
  ASSUME IInv, Kept, odd \subseteq odd', odd' \subseteq Oddities
  PROVE  IInv' /\ FilesStay
<1>1. PICK t : Keeps(State, t) /\ Become(t)
  BY DEF Kept
<1>2. Moves(State, t)
  BY <1>1, KeepsMoves DEF IInv
<1> QED BY <1>1, <1>2, MovesInv

\* l2_write keeps the invariant, with and without blocks.
LEMMA WriteInv ==
  ASSUME IInv, NEW p \in Path, NEW room \in BOOLEAN, Write(p, room)
  PROVE  IInv' /\ FilesStay
<1>1. PICK t : /\ Become(t) /\ Sound(t) /\ StaysOpen(State, t)
               /\ room => Keeps(State, t)
  BY WriteKeeps DEF IInv
<1>2. odd' = odd \union (IF room THEN {} ELSE {"write_failed"})
  BY DEF Write
<1>3. odd \subseteq odd' /\ odd' \subseteq Oddities
  BY <1>2 DEF IInv, Oddities, Harmless
<1>4. CASE room
  <2>1. Kept
    BY <1>1, <1>4 DEF Kept
  <2> QED BY <1>3, <2>1, KeptInv
<1>5. CASE ~room
  <2>1. State' = t
    BY <1>1, BecomeState DEF Sound
  <2>2. Sound(State)'
    BY <1>1, <2>1
  <2>3. "write_failed" \in odd'
    BY <1>2, <1>5
  <2>4. /\ State.table = table /\ State.newest = newest
        /\ t.table = table' /\ t.newest = newest'
    BY <1>1 DEF State, Become
  <2>5. FilesStay
    BY <1>1, <2>4 DEF StaysOpen, FilesStay
  <2> QED BY <1>3, <2>2, <2>3, <2>5 DEF IInv, StoredUnlessFailed
<1> QED BY <1>4, <1>5

\* A changed mark leaves the type and the links of an inode.
LEMMA ChangedFields ==
  ASSUME NEW node \in INodeType
  PROVE  /\ Changed(node) \in INodeType
         /\ Changed(node).type = node.type /\ Changed(node).links = node.links
         /\ Changed(node).links <= node.links
BY DEF Changed, INodeType

\* The module goes no further; the types are still right.
Ended == TypeOK /\ ~Followed

\* l2_close of an inode with others behind it ends what the module follows.
LEMMA CloseRunsOnEnds ==
  ASSUME IInv, NEW p \in Path, NEW op \in Op, CloseRunsOn(p, op)
  PROVE  Ended' /\ FilesStay
<1> DEFINE k == Min(EntryOf(State, p))
           i == open[k].id
           o == RemoveAt(open, k)
           t == [State EXCEPT !.open = o]
           s == Release(t, i)
           c == [j \in DOMAIN s.cache \union Behind(k)
                   |-> IF j \in DOMAIN s.cache THEN s.cache[j] ELSE s.table[j].node]
<1>1. /\ EntryOf(State, p) # {} /\ table[i].node.links # 0
      /\ Become([s EXCEPT !.cache = c]) /\ odd' = odd \union {"same_bin"}
  BY DEF CloseRunsOn, RunsOn
<1>2. /\ State \in States /\ State.dir = dir /\ State.disk = disk
      /\ State.table = table /\ State.cache = cache /\ State.open = open
      /\ State.newest = newest
  BY DEF IInv, Sound, State
<1>3. k \in DOMAIN open /\ i \in INode /\ i \in DOMAIN table
  BY <1>1, OpenEntry, Zenon DEF IInv
<1>4. /\ \A l \in DOMAIN open : open[l].id \in DOMAIN table
      /\ \A j \in DOMAIN table : \E l \in DOMAIN open : open[l].id = j
      /\ \A l, m \in DOMAIN open : open[l].id = open[m].id => l = m
  BY <1>2 DEF IInv, Sound, OpenAgree
<1>5. \A j \in DOMAIN table : table[j] \in TableEntry /\ table[j].ref # 0
  <2>1. \A j \in DOMAIN table : table[j] \in TableEntry
    BY <1>2, StatesFields
  <2>2. \A l \in DOMAIN open : table[open[l].id].ref # 0
    BY <1>2 DEF IInv, Sound, OpenAgree
  <2> QED BY <1>4, <2>1, <2>2
<1>6. /\ s.dir = dir /\ s.disk = disk /\ s.open = o /\ s.newest = newest
      /\ s.table = Without(table, i)
      /\ s.cache = [j \in DOMAIN cache \union {i} |->
                      IF j = i THEN table[i].node ELSE cache[j]]
  <2>1. /\ t.dir = dir /\ t.disk = disk /\ t.open = o /\ t.newest = newest
        /\ t.table = table /\ t.cache = cache
        /\ t = [dir |-> t.dir, disk |-> t.disk, table |-> t.table, cache |-> t.cache,
                open |-> t.open, newest |-> t.newest]
    BY DEF State
  <2> HIDE DEF t, o, i
  <2> QED BY <1>1, <2>1 DEF Release
<1>7. \A j \in Behind(k) : j \in DOMAIN table /\ j # i
  BY <1>2, <1>3, <1>4, StatesFields DEF Behind
<1>8. DOMAIN table \subseteq INode /\ DOMAIN cache \subseteq INode
  BY <1>2, StatesFields
<1>9. DOMAIN c \subseteq INode /\ \A j \in DOMAIN c : c[j] \in INodeType
  <2>1. DOMAIN s.cache \subseteq INode /\ \A j \in DOMAIN s.cache : s.cache[j] \in INodeType
    <3>1. \A j \in DOMAIN cache : cache[j] \in INodeType
      BY <1>2, StatesFields
    <3> QED BY <1>3, <1>5, <1>6, <1>8, <3>1 DEF TableEntry
  <2>2. \A j \in Behind(k) : s.table[j].node \in INodeType
    BY <1>5, <1>6, <1>7 DEF Without, TableEntry
  <2> HIDE DEF s, k
  <2> QED BY <1>7, <1>8, <2>1, <2>2
<1>10. o \in Seq(OpenFile)
  BY <1>2, <1>3, StatesFields, RemoveAtFields
<1> DEFINE u == [s EXCEPT !.cache = c]
<1>11. /\ dir' = dir /\ disk' = disk /\ open' = o /\ newest' = newest /\ cache' = c
       /\ table' = Without(table, i)
  <2>1. s = [dir |-> s.dir, disk |-> s.disk, table |-> s.table, cache |-> s.cache,
             open |-> s.open, newest |-> s.newest]
    BY <1>1 DEF Release, State
  <2>2. /\ u.dir = s.dir /\ u.disk = s.disk /\ u.open = s.open /\ u.newest = s.newest
        /\ u.cache = c /\ u.table = s.table
    <3> HIDE DEF s, c
    <3> QED BY <2>1
  <2>3. /\ dir' = u.dir /\ disk' = u.disk /\ open' = u.open /\ newest' = u.newest
        /\ cache' = u.cache /\ table' = u.table
    <3> HIDE DEF s, c
    <3> QED BY <1>1 DEF Become
  <2> HIDE DEF s, c, u
  <2> QED BY <1>6, <2>2, <2>3
<1>12. /\ DOMAIN table' \subseteq DOMAIN table
       /\ \A j \in DOMAIN table' : table'[j] = table[j]
  BY <1>11 DEF Without
<1>13. Ended'
  <2>1. odd' \subseteq Oddities /\ odd' \intersect Fatal # {}
    BY <1>1 DEF IInv, Oddities, Fatal
  <2>2. dir \in [INode -> Seq(Slot)] /\ disk \in [INode -> INodeType]
    BY <1>2, StatesFields
  <2>3. dir \in [INode -> Seq(Slot \union {Zeroed})]
    BY <2>2
  <2> HIDE DEF c, o
  <2> QED BY <1>5, <1>8, <1>9, <1>10, <1>11, <1>12, <2>1, <2>2, <2>3
          DEF Ended, TypeOK, Followed, TableEntry
<1>14. FilesStay
  <2>1. \A j \in INode : newest[j].links <= newest[j].links
    BY <1>2, StatesFields, NodeFields
  <2> QED BY <1>8, <1>11, <2>1 DEF FilesStay
<1> QED BY <1>13, <1>14

\* So does l2_unmount of a full disk.
LEMMA MountWipesEnds ==
  ASSUME IInv, MountWipes
  PROVE  Ended' /\ FilesStay
<1>1. /\ State \in States /\ State.dir = dir /\ State.disk = disk
  BY DEF IInv, Sound, State
<1>2. dir \in [INode -> Seq(Slot)] /\ disk \in [INode -> INodeType]
  BY <1>1, StatesFields
<1>3. DOMAIN table' = {} /\ DOMAIN cache' = {} /\ open' = <<>>
  BY DEF MountWipes, StartOver
<1>4. open' \in Seq(OpenFile)
  BY <1>3
<1>5. odd' \subseteq Oddities /\ odd' \intersect Fatal # {}
  BY DEF MountWipes, IInv, Oddities, Fatal
<1>6. dir \in [INode -> Seq(Slot \union {Zeroed})]
  BY <1>2
<1>7. /\ dir' \in [INode -> Seq(Slot \union {Zeroed})]
      /\ disk' \in [INode -> INodeType]
  <2>1. ASSUME NEW d \in INode, NEW m \in DOMAIN dir[d], NEW n \in DOMAIN dir[d],
               dir' = [dir EXCEPT ![d] = [k \in DOMAIN dir[d] |->
                                 IF k \in m .. n THEN Zeroed ELSE dir[d][k]]],
               UNCHANGED disk
        PROVE  dir' \in [INode -> Seq(Slot \union {Zeroed})] /\ disk' \in [INode -> INodeType]
    <3>1. /\ DOMAIN dir[d] = 1 .. Len(dir[d]) /\ Len(dir[d]) \in Nat
          /\ \A k \in DOMAIN dir[d] : dir[d][k] \in Slot
      BY <1>2
    <3>2. [k \in DOMAIN dir[d] |-> IF k \in m .. n THEN Zeroed ELSE dir[d][k]]
            \in Seq(Slot \union {Zeroed})
      BY <3>1
    <3> QED BY <1>2, <1>6, <2>1, <3>2
  <2>2. ASSUME NEW i \in INode, disk' = [disk EXCEPT ![i] = Changed(disk[i])],
               UNCHANGED dir
        PROVE  dir' \in [INode -> Seq(Slot \union {Zeroed})] /\ disk' \in [INode -> INodeType]
    <3>1. Changed(disk[i]) \in INodeType
      BY <1>2, ChangedFields
    <3> QED BY <1>2, <1>6, <2>2, <3>1
  <2> QED BY <2>1, <2>2 DEF MountWipes
<1>8. Ended'
  BY <1>3, <1>4, <1>5, <1>7 DEF Ended, TypeOK, Followed
<1>9. FilesStay
  BY <1>3 DEF FilesStay
<1> QED BY <1>8, <1>9

\* Every step keeps the invariant, or ends what the module follows, and leaves
\* open files what they are.
LEMMA NextInv ==
  ASSUME IInv, Next
  PROVE  (IInv' \/ Ended') /\ FilesStay
<1> USE DEF IInv
<1>2. ASSUME NEW p \in Path, GetAttr(p)
      PROVE  IInv' /\ FilesStay
  <2>1. odd' = odd
    BY <1>2 DEF GetAttr
  <2> QED BY <1>2, <2>1, GetAttrKeeps, KeptInv
<1>3. ASSUME NEW p \in Path, NEW i \in INode,
             NEW type \in {"REGULAR", "DIRECTORY"}, Create(p, type, i)
      PROVE  IInv' /\ FilesStay
  <2>1. odd \subseteq odd' /\ odd' \subseteq Oddities
    BY <1>3 DEF Create, Oddities
  <2>2. Kept
    BY <1>3, CreateKeeps
  <2> QED BY <2>1, <2>2, KeptInv
<1>4. ASSUME NEW p \in Path, Unlink(p)
      PROVE  IInv' /\ FilesStay
  <2>1. odd \subseteq odd' /\ odd' \subseteq Oddities
    BY <1>4 DEF Unlink, Oddities
  <2> QED BY <1>4, <2>1, UnlinkKeeps, KeptInv
<1>5. ASSUME NEW p \in Path, NEW q \in Path, Rename(p, q)
      PROVE  IInv' /\ FilesStay
  <2>1. odd \subseteq odd' /\ odd' \subseteq Oddities
    BY <1>5 DEF Rename, Oddities
  <2> QED BY <1>5, <2>1, RenameKeeps, KeptInv
<1>6. ASSUME NEW p \in Path, NEW op \in Op, Open(p, op)
      PROVE  IInv' /\ FilesStay
  <2>1. CASE Abort
    BY <2>1, SameInv DEF Abort
  <2>2. ASSUME NEW t, Moves(State, t), Become(t)
        PROVE  IInv' /\ FilesStay
    <3>1. CASE odd' = odd
      BY <2>2, <3>1, MovesInv
    <3>2. CASE Abort
      BY <3>2, SameInv DEF Abort
    <3> QED BY <1>6, <3>1, <3>2 DEF Open
  <2> QED BY <1>6, <2>1, <2>2, OpenMoves
<1>7. ASSUME NEW p \in Path, NEW op \in Op, Close(p, op)
      PROVE  IInv' /\ FilesStay
  <2>1. PICK t : Moves(State, t) /\ Become(t)
    BY <1>7, CloseMoves
  <2>2. CASE odd' = odd
    BY <2>1, <2>2, MovesInv
  <2>3. CASE Abort
    BY <2>3, SameInv DEF Abort
  <2> QED BY <1>7, <2>2, <2>3 DEF Close
<1>8. ASSUME NEW p \in Path, Read(p)
      PROVE  IInv' /\ FilesStay
  <2>1. odd' = odd
    BY <1>8 DEF Read
  <2> QED BY <1>8, <2>1, ReadKeepsState, KeptInv
<1>9. ASSUME NEW p \in Path, Chmod(p)
      PROVE  IInv' /\ FilesStay
  <2>1. odd' = odd
    BY <1>9 DEF Chmod
  <2> QED BY <1>9, <2>1, ChmodKeeps, KeptInv
<1>10. ASSUME NEW p \in Path, NEW op \in Op, CloseRunsOn(p, op)
       PROVE  Ended' /\ FilesStay
  BY <1>10, CloseRunsOnEnds
<1>11. MountWipes => Ended' /\ FilesStay
  BY MountWipesEnds
<1> QED BY <1>2, <1>3, <1>4, <1>5, <1>6, <1>7, <1>8, <1>9, <1>10, <1>11,
           WriteInv, MountInv DEF Next

-----------------------------------------------------------------------------
(* What the invariant says.                                                  *)

\* The invariant says that the types are right.
LEMMA InvType ==
  ASSUME IInv
  PROVE  TypeOK
<1>1. /\ State \in States
      /\ State.dir = dir /\ State.disk = disk /\ State.table = table
      /\ State.cache = cache /\ State.open = open
  BY DEF IInv, Sound, State
<1>2. ASSUME NEW i \in DOMAIN table
      PROVE  table[i] \in [ref : Nat \ {0}, node : INodeType]
  <2>1. table[i] \in TableEntry
    BY <1>1, <1>2, StatesFields
  <2>2. PICK k \in DOMAIN open : open[k].id = i
    BY <1>1, <1>2 DEF IInv, Sound, OpenAgree
  <2>3. table[i].ref # 0
    BY <1>1, <2>2 DEF IInv, Sound, OpenAgree
  <2> QED BY <2>1, <2>3 DEF TableEntry
<1>3. dir \in [INode -> Seq(Slot \union {Zeroed})]
  <2>1. dir \in [INode -> Seq(Slot)]
    BY <1>1, StatesFields
  <2> QED BY <2>1
<1> QED BY <1>1, <1>2, <1>3, StatesFields DEF TypeOK, IInv

\* It says that what is in core, in the table or the cache, and on disk is right.
LEMMA InvNewest ==
  ASSUME IInv \/ Ended
  PROVE  NewestINode /\ TableOrCache /\ WrittenThrough
BY DEF IInv, Sound, State, NewestINode, TableOrCache, Apart, WrittenThrough,
       StoredUnlessFailed, Ended

-----------------------------------------------------------------------------
(* The theorems.                                                             *)

\* What changes nothing keeps the invariant, and an end is an end.
LEMMA SameUInv ==
  ASSUME IInv \/ Ended, UNCHANGED vars
  PROVE  IInv' \/ Ended'
<1>1. CASE IInv
  BY <1>1, SameInv DEF vars
<1>2. CASE Ended
  BY <1>2 DEF Ended, TypeOK, Followed, vars
<1> QED BY <1>1, <1>2

\* The invariant holds throughout, or until the end.
LEMMA SpecInv == Spec => [](IInv \/ Ended) /\ [][FilesStay]_vars
<1>1. (IInv \/ Ended) /\ [Next]_vars => (IInv' \/ Ended') /\ [FilesStay]_vars
  <2>1. Ended => ~Next
    BY DEF Ended, Next
  <2> QED BY <2>1, NextInv, SameUInv
<1>2. Init => IInv
  BY InitInv
<1> QED BY <1>1, <1>2, PTL DEF Spec

\* Every call, also one that is cut short, leaves the directories, the inodes
\* and the three tables well formed; an inode in the inode table has at least
\* one reference.
THEOREM TypeCorrect == Spec => []TypeOK
<1>1. IInv \/ Ended => TypeOK
  BY InvType DEF Ended
<1> QED BY <1>1, SpecInv, PTL

\* readINode returns what was last written, wherever the inode was then.
THEOREM Newest == Spec => []NewestINode
BY InvNewest, SpecInv, PTL

\* No inode is both in the inode table and in the inode cache: until an inode
\* with others behind it in its chain goes from one to the other, every move
\* between them in l2_open, l2_close and l2_unlink takes it out of the one.
THEOREM OneInCore == Spec => []TableOrCache
BY InvNewest, SpecInv, PTL

\* The end of the process loses no inode, unless a write ran out of blocks.
THEOREM Through == Spec => []WrittenThrough
BY InvNewest, SpecInv, PTL

\* The file that is open stays what it is, whatever happens to its names, as
\* far as the module follows the code.
THEOREM OpenStays == Spec => OpenFileStays
<1>1. FilesStay <=> \A i \in DOMAIN table \intersect DOMAIN table' :
                      newest'[i].type = newest[i].type /\ newest'[i].links <= newest[i].links
  BY DEF FilesStay
<1> QED BY <1>1, SpecInv, PTL DEF OpenFileStays

\* As many references as operations: the assertion of l2_close holds.
CountsAgree ==
  Followed => \A k \in DOMAIN open : table[open[k].id].ref = Count(open[k].ops)

THEOREM CountsMatch == Spec => []CountsAgree
<1>1. IInv \/ Ended => CountsAgree
  BY DEF IInv, Sound, State, OpenAgree, CountsAgree, Ended
<1> QED BY <1>1, SpecInv, PTL

-----------------------------------------------------------------------------
(* The tree of names.  A directory is seen as the set of its entries, a name  *)
(* and an inode each; a path leads to an inode through two of them at most.   *)

\* A slot says that name leads to inode i; no two slots have one name.
Entry(slots, name, i) ==
  \E k \in DOMAIN slots : slots[k].key = name /\ slots[k].id = i

OnceEach(slots) ==
  \A k, l \in DOMAIN slots :
    /\ slots[k].id # Removed /\ slots[l].id # Removed
    /\ slots[k].key = slots[l].key
    => k = l

\* The slot a new entry takes is a removed one.
LEMMA FirstRemovedIs ==
  ASSUME NEW slots \in Seq(Slot), ~Full(slots)
  PROVE  /\ FirstRemoved(slots) \in DOMAIN slots
         /\ slots[FirstRemoved(slots)].id = Removed
<1> DEFINE gone == {k \in DOMAIN slots : slots[k].id = Removed}
           m == Min(gone)
<1>1. DOMAIN slots = 1 .. Len(slots) /\ Len(slots) \in Nat
  OBVIOUS
<1>2. gone # {} /\ gone \in SUBSET Nat
  BY <1>1 DEF Full
<1>3. m \in gone /\ \A k \in gone : m <= k
  <2> HIDE DEF gone
  <2> QED BY <1>2, MinIn
<1>4. /\ m \in DOMAIN slots /\ slots[m].id = Removed
      /\ \A j \in 1 .. m - 1 : slots[j].id # Removed
  <2> HIDE DEF m
  <2> QED BY <1>1, <1>3
<1> HIDE DEF m
<1> QED BY <1>4 DEF FirstRemoved

\* The entry of a new name, and those there were.
LEMMA PutSlotEntries ==
  ASSUME NEW slots \in Seq(Slot), NEW entry \in Slot, entry.id # Removed,
         OnceEach(slots), \A i \in INode : ~Entry(slots, entry.key, i)
  PROVE  /\ OnceEach(PutSlot(slots, entry))
         /\ \A name, i : i # Removed =>
              (Entry(PutSlot(slots, entry), name, i)
                 <=> Entry(slots, name, i) \/ (name = entry.key /\ i = entry.id))
<1> DEFINE new == PutSlot(slots, entry)
           N   == Len(slots)
<1>1. /\ N \in Nat /\ DOMAIN slots = 1 .. N
      /\ \A k \in DOMAIN slots : slots[k].id \in INode \union {Removed}
  BY LiveSlots, Zenon
<1>2. \E j \in DOMAIN new :
        /\ new[j] = entry
        /\ j \in DOMAIN slots => slots[j].id = Removed
        /\ DOMAIN new = DOMAIN slots \union {j}
        /\ \A k \in DOMAIN slots \ {j} : new[k] = slots[k]
  <2>1. CASE Full(slots)
    <3>1. new = Append(slots, entry)
      BY <2>1 DEF PutSlot
    <3>2. /\ DOMAIN new = 1 .. N + 1 /\ new[N + 1] = entry
          /\ \A k \in 1 .. N : new[k] = slots[k]
      BY <1>1, <3>1
    <3>3. N + 1 \in DOMAIN new /\ N + 1 \notin DOMAIN slots
          /\ DOMAIN new = DOMAIN slots \union {N + 1}
      BY <1>1, <3>2
    <3> HIDE DEF new, N
    <3> QED BY <1>1, <3>2, <3>3
  <2>2. CASE ~Full(slots)
    <3> DEFINE j == FirstRemoved(slots)
    <3>1. new = [slots EXCEPT ![j] = entry]
      BY <2>2 DEF PutSlot
    <3>2. j \in DOMAIN slots /\ slots[j].id = Removed
      BY <2>2, FirstRemovedIs
    <3> HIDE DEF j
    <3> QED BY <1>1, <3>1, <3>2
  <2> QED BY <2>1, <2>2
<1> HIDE DEF new
<1>3. PICK j \in DOMAIN new :
        /\ new[j] = entry
        /\ j \in DOMAIN slots => slots[j].id = Removed
        /\ DOMAIN new = DOMAIN slots \union {j}
        /\ \A k \in DOMAIN slots \ {j} : new[k] = slots[k]
  BY <1>2
<1>4. \A k \in DOMAIN slots : slots[k].id # Removed => slots[k].key # entry.key
  BY <1>1 DEF Entry
<1>5. OnceEach(new)
  BY <1>3, <1>4 DEF OnceEach
<1>6. \A name, i : i # Removed =>
        (Entry(new, name, i) <=> Entry(slots, name, i) \/ (name = entry.key /\ i = entry.id))
  BY <1>3 DEF Entry
<1> QED BY <1>5, <1>6 DEF new

\* A name is removed.
LEMMA OverwriteEntries ==
  ASSUME NEW slots \in Seq(Slot), NEW name, NEW entry \in Slot, entry.id = Removed,
         OnceEach(slots)
  PROVE  /\ OnceEach(Overwrite(slots, name, entry))
         /\ \A n, i : i # Removed =>
              (Entry(Overwrite(slots, name, entry), n, i)
                 <=> Entry(slots, n, i) /\ n # name)
<1> DEFINE new == Overwrite(slots, name, entry)
<1>1. /\ DOMAIN new = DOMAIN slots
      /\ \A k \in DOMAIN slots : new[k] = IF slots[k].key = name THEN entry ELSE slots[k]
  BY OverwriteSlots
<1> HIDE DEF new
<1>2. OnceEach(new)
  BY <1>1 DEF OnceEach
<1>3. \A n, i : i # Removed =>
        (Entry(new, n, i) <=> Entry(slots, n, i) /\ n # name)
  BY <1>1 DEF Entry
<1> QED BY <1>2, <1>3 DEF new

\* Directory d has an entry of a name, for inode i.
At(s, d, name, i) == Entry(s.dir[d], name, i)

\* The path p leads to inode i; the path of no names is that of the root.
LeadsTo(s, p, i) ==
  IF Len(p) = 0 THEN i = Root
  ELSE IF Len(p) = 1 THEN At(s, Root, p[1], i)
  ELSE \E d \in INode : At(s, Root, p[1], d) /\ At(s, d, p[2], i)

\* The inode a directory has under a name is what l2_namei finds there.
LEMMA NextIdAt ==
  ASSUME NEW s, Sound(s), NEW d \in INode, NEW name, OnceEach(s.dir[d]),
         s.newest[d].type = "DIRECTORY"
  PROVE  /\ NextId(s, d, name) \in INode \union {ENOENT}
         /\ \A i \in INode : NextId(s, d, name) = i <=> At(s, d, name, i)
<1> DEFINE slots == s.dir[d]
           live  == LiveNamed(slots, name)
           to    == slots[Min(live)].id
<1>1. slots \in Seq(Slot) /\ Found(d)
  BY StatesFields, PathAssumption, Zenon DEF Sound, Found
<1>2. /\ \A k \in live : k \in DOMAIN slots /\ slots[k].key = name /\ slots[k].id # Removed
      /\ \A k \in DOMAIN slots : slots[k].key = name /\ slots[k].id # Removed => k \in live
  BY DEF LiveNamed, SlotsNamed
<1>3. live # {} => Min(live) \in live /\ to \in INode
  BY <1>1, LiveSlots, Zenon
<1>4. NextId(s, d, name) = IF live = {} THEN ENOENT ELSE to
  BY <1>1 DEF NextId
<1>5. \A i \in INode : i # Removed /\ i # ENOENT
  BY PathAssumption, Zenon
<1> HIDE DEF to
<1>6. ASSUME NEW i \in INode
      PROVE  NextId(s, d, name) = i <=> At(s, d, name, i)
  <2> HIDE DEF live, slots
  <2>1. CASE live = {}
    BY <1>2, <1>4, <1>5, <2>1 DEF At, Entry, slots
  <2>2. CASE live # {}
    <3>1. to = i => At(s, d, name, i)
      BY <1>2, <1>3, <2>2 DEF At, Entry, slots, to
    <3>2. At(s, d, name, i) => to = i
      <4> SUFFICES ASSUME At(s, d, name, i) PROVE to = i
        OBVIOUS
      <4>1. PICK k \in DOMAIN slots : slots[k].key = name /\ slots[k].id = i
        BY DEF At, Entry, slots
      <4>2. /\ Min(live) \in DOMAIN slots /\ slots[Min(live)].key = name
            /\ slots[Min(live)].id # Removed
        BY <1>2, <1>3, <2>2
      <4>3. k = Min(live)
        BY <4>1, <4>2, <1>5 DEF OnceEach, slots
      <4> QED BY <4>1, <4>3 DEF to
    <3> QED BY <1>4, <2>2, <3>1, <3>2
  <2> QED BY <2>1, <2>2
<1> QED BY <1>3, <1>4, <1>6

-----------------------------------------------------------------------------
(* What holds of the names between calls.                                    *)

\* No directory has two entries of one name, and no inode has two entries.
OneEntry(s) ==
  /\ \A d \in INode : OnceEach(s.dir[d])
  /\ \A d, e, i \in INode, n, m \in Key :
       At(s, d, n, i) /\ At(s, e, m, i) => d = e /\ n = m

\* An entry is in a directory in use and leads to an inode in use; below a
\* directory that is not the root it leads to none that is a directory.
EntriesInUse(s) ==
  \A d, i \in INode, n \in Key :
    At(s, d, n, i) =>
      /\ s.newest[d].type = "DIRECTORY" /\ s.newest[d].links > 0
      /\ s.newest[i].links > 0
      /\ d # Root => s.newest[i].type # "DIRECTORY"

\* Each inode in use but the root has an entry.
AllEntered(s) ==
  \A i \in INode \ {Root} :
    s.newest[i].links > 0 => \E d \in INode, n \in Key : At(s, d, n, i)

\* What is in use is a file or a directory, with one link.
OneLink(s) ==
  /\ s.newest[Root].links = 2
  /\ \A i \in INode : /\ s.newest[i].links > 0 => s.newest[i].type \in {"REGULAR", "DIRECTORY"}
                      /\ i # Root => s.newest[i].links \in {0, 1}

Named(s) == OneEntry(s) /\ EntriesInUse(s) /\ AllEntered(s) /\ OneLink(s)

\* Open files have different paths, and a path leads to its open file until that
\* is unlinked; then it leads nowhere.
OpenNamed(s) ==
  /\ \A k, l \in DOMAIN s.open : s.open[k].path = s.open[l].path => k = l
  /\ \A k \in DOMAIN s.open :
       IF s.newest[s.open[k].id].links > 0
         THEN LeadsTo(s, s.open[k].path, s.open[k].id)
         ELSE \A i \in INode : ~LeadsTo(s, s.open[k].path, i)

\* An inode without links that is not FREE is open.
NoneKept(s) ==
  \A i \in INode : \/ s.newest[i].type = "FREE" \/ s.newest[i].links > 0
                   \/ i \in DOMAIN s.table

\* A path leads where l2_namei's walk ends.
LEMMA WalkLeads ==
  ASSUME NEW s, Sound(s), Named(s), NEW p, Len(p) \in 0 .. 2, 
         \A k \in 1 .. Len(p) : p[k] \in Key
  PROVE  /\ \A i \in INode : Walk(s, p).id = i <=> LeadsTo(s, p, i)
         /\ Found(Walk(s, p).id) => Walk(s, p).id \in INode
<1>1. \A d \in INode, n \in Key, i \in INode :
        At(s, d, n, i) => s.newest[d].type = "DIRECTORY"
  BY DEF Named, EntriesInUse
<1>2. \A d \in INode : OnceEach(s.dir[d])
  BY DEF Named, OneEntry
<1>3. Root \in INode /\ \A i \in INode : i # ENOENT /\ i # ENOTDIR
  BY PathAssumption, Zenon
<1>4. ASSUME NEW d \in INode, NEW n \in Key
      PROVE  /\ NextId(s, d, n) \in Ids
             /\ \A i \in INode : NextId(s, d, n) = i <=> At(s, d, n, i)
  <2>1. CASE s.newest[d].type = "DIRECTORY"
    BY <1>2, <2>1, NextIdAt DEF Ids
  <2>2. CASE s.newest[d].type # "DIRECTORY"
    <3>1. NextId(s, d, n) = ENOTDIR
      BY <1>3, <2>2 DEF NextId, Found
    <3> QED BY <1>1, <1>3, <2>2, <3>1 DEF Ids
  <2> QED BY <2>1, <2>2
<1>5. Walk(s, p).id \in Ids
  BY WalkReads
<1>6. Found(Walk(s, p).id) => Walk(s, p).id \in INode
  BY <1>5 DEF Ids, Found
<1>7. ASSUME NEW i \in INode
      PROVE  Walk(s, p).id = i <=> LeadsTo(s, p, i)
  <2>1. CASE Len(p) = 0
    BY <2>1, WalkIds DEF LeadsTo
  <2>2. CASE Len(p) = 1
    <3>1. Walk(s, p).id = NextId(s, Root, p[1]) /\ p[1] \in Key
      BY <2>2, WalkIds
    <3> QED BY <1>3, <1>4, <2>2, <3>1 DEF LeadsTo
  <2>3. CASE Len(p) = 2
    <3> DEFINE d == NextId(s, Root, p[1])
    <3>1. Walk(s, p).id = NextId(s, d, p[2]) /\ p[1] \in Key /\ p[2] \in Key
      BY <2>3, WalkIds
    <3>2. d \in Ids /\ \A e \in INode : d = e <=> At(s, Root, p[1], e)
      BY <1>3, <1>4, <3>1
    <3> HIDE DEF d
    <3>3. LeadsTo(s, p, i) <=> \E e \in INode : At(s, Root, p[1], e) /\ At(s, e, p[2], i)
      BY <2>3 DEF LeadsTo
    <3>4. CASE d \in INode
      BY <1>4, <3>1, <3>2, <3>3, <3>4
    <3>5. CASE d \notin INode
      <4>1. NextId(s, d, p[2]) = d
        BY <3>2, <3>5 DEF NextId, Found, Ids
      <4> QED BY <3>1, <3>2, <3>3, <3>5, <4>1
    <3> QED BY <3>4, <3>5
  <2> QED BY <2>1, <2>2, <2>3
<1> QED BY <1>6, <1>7

\* A path of one or two names.
IsPath(p) == p \in Seq(Key) /\ Len(p) \in 1 .. 2

\* What a path leads to is in a directory that the path without its last name
\* leads to.
LEMMA LeadsFront ==
  ASSUME NEW s, NEW p, IsPath(p), NEW i \in INode
  PROVE  /\ LeadsTo(s, p, i) <=> \E d \in INode : LeadsTo(s, Front(p), d)
                                                /\ At(s, d, Last(p), i)
         /\ Front(p) \in Seq(Key) /\ Len(Front(p)) = Len(p) - 1
         /\ Last(p) = p[Len(p)] /\ Last(p) \in Key
         /\ Len(p) = 2 => Front(p)[1] = p[1] /\ p[1] \in Key
<1>1. /\ Front(p) \in Seq(Key) /\ Len(Front(p)) = Len(p) - 1
      /\ Last(p) = p[Len(p)] /\ Last(p) \in Key
      /\ Len(p) = 2 => Front(p)[1] = p[1] /\ p[1] \in Key
  <2>1. p \in Seq(Key) /\ Len(p) > 0 /\ Len(p) \in 1 .. 2
    BY DEF IsPath
  <2>2. /\ Front(p) \in Seq(Key) /\ Len(Front(p)) = Len(p) - 1
        /\ Last(p) = p[Len(p)] /\ Last(p) \in Key
        /\ \A k \in 1 .. Len(p) - 1 : Front(p)[k] = p[k]
    BY <2>1, FrontSeq
  <2>3. Len(p) = 2 => 1 \in 1 .. Len(p) - 1
    OBVIOUS
  <2>4. \A k \in 1 .. Len(p) : p[k] \in Key
    BY <2>1
  <2> QED BY <2>1, <2>2, <2>3, <2>4
<1>2. Len(p) = 1 \/ Len(p) = 2
  BY DEF IsPath
<1>3. Root \in INode
  BY PathAssumption, Zenon
<1>4. CASE Len(p) = 1
  <2>1. \A d : LeadsTo(s, Front(p), d) <=> d = Root
    BY <1>1, <1>4 DEF LeadsTo
  <2>2. LeadsTo(s, p, i) <=> At(s, Root, p[1], i)
    BY <1>4 DEF LeadsTo
  <2> QED BY <1>1, <1>3, <1>4, <2>1, <2>2
<1>5. CASE Len(p) = 2
  <2>1. \A d : LeadsTo(s, Front(p), d) <=> At(s, Root, p[1], d)
    BY <1>1, <1>5 DEF LeadsTo
  <2>2. LeadsTo(s, p, i) <=> \E d \in INode : At(s, Root, p[1], d) /\ At(s, d, p[2], i)
    BY <1>5 DEF LeadsTo
  <2> QED BY <1>1, <1>5, <2>1, <2>2
<1> QED BY <1>1, <1>2, <1>4, <1>5

\* No entry is for the root.
LEMMA NotTheRoot ==
  ASSUME NEW s, Sound(s), NEW d \in INode, NEW n
  PROVE  ~At(s, d, n, Root)
BY DEF Sound, RootStays, At, Entry

\* An entry of a directory is one inode.
LEMMA AtOne ==
  ASSUME NEW s, OneEntry(s), NEW d \in INode, NEW n, NEW i \in INode, NEW j \in INode,
         At(s, d, n, i), At(s, d, n, j)
  PROVE  i = j
<1>1. i # Removed /\ j # Removed
  BY PathAssumption, Zenon
<1>2. OnceEach(s.dir[d])
  BY DEF OneEntry
<1> QED BY <1>1, <1>2 DEF At, Entry, OnceEach

\* A path leads to one inode, and an inode has one path.
LEMMA LeadsOne ==
  ASSUME NEW s, OneEntry(s), NEW p, IsPath(p), NEW i \in INode, NEW j \in INode,
         LeadsTo(s, p, i), LeadsTo(s, p, j)
  PROVE  i = j
<1>1. Root \in INode
  BY PathAssumption, Zenon
<1>2. CASE Len(p) = 1
  BY <1>1, <1>2, AtOne DEF LeadsTo
<1>3. CASE Len(p) = 2
  <2>1. PICK d \in INode : At(s, Root, p[1], d) /\ At(s, d, p[2], i)
    BY <1>3 DEF LeadsTo
  <2>2. PICK e \in INode : At(s, Root, p[1], e) /\ At(s, e, p[2], j)
    BY <1>3 DEF LeadsTo
  <2>3. d = e
    BY <1>1, <2>1, <2>2, AtOne
  <2> QED BY <2>1, <2>2, <2>3, AtOne
<1> QED BY <1>2, <1>3 DEF IsPath

\* Two paths with the same names are the same.
LEMMA PathEq ==
  ASSUME NEW p, IsPath(p), NEW q, IsPath(q), Len(p) = Len(q), p[1] = q[1],
         Len(p) = 2 => p[2] = q[2]
  PROVE  p = q
<1>1. Len(p) = 1 \/ Len(p) = 2
  BY DEF IsPath
<1>2. \A k \in 1 .. Len(p) : p[k] = q[k]
  BY <1>1
<1> QED BY <1>2 DEF IsPath

\* An inode has one path.
LEMMA PathOne ==
  ASSUME NEW s, Sound(s), OneEntry(s), NEW p, IsPath(p), NEW q, IsPath(q),
         NEW i \in INode, LeadsTo(s, p, i), LeadsTo(s, q, i)
  PROVE  p = q
<1>1. Root \in INode
  BY PathAssumption, Zenon
<1>2. PICK d \in INode : LeadsTo(s, Front(p), d) /\ At(s, d, Last(p), i)
  BY LeadsFront
<1>3. PICK e \in INode : LeadsTo(s, Front(q), e) /\ At(s, e, Last(q), i)
  BY LeadsFront
<1>4. /\ Last(p) \in Key /\ Last(q) \in Key /\ Last(p) = p[Len(p)] /\ Last(q) = q[Len(q)]
      /\ Len(p) = 2 => p[1] \in Key /\ Front(p)[1] = p[1]
      /\ Len(q) = 2 => q[1] \in Key /\ Front(q)[1] = q[1]
      /\ Len(Front(p)) = Len(p) - 1 /\ Len(Front(q)) = Len(q) - 1
  BY LeadsFront
<1>5. d = e /\ Last(p) = Last(q)
  BY <1>2, <1>3, <1>4 DEF OneEntry
<1>6. /\ Len(p) = 1 => d = Root
      /\ Len(p) = 2 => At(s, Root, p[1], d) /\ d # Root
  BY <1>1, <1>2, <1>4, NotTheRoot DEF LeadsTo
<1>7. /\ Len(q) = 1 => d = Root
      /\ Len(q) = 2 => At(s, Root, q[1], d) /\ d # Root
  BY <1>1, <1>3, <1>4, <1>5, NotTheRoot DEF LeadsTo
<1>8. Len(p) = Len(q)
  BY <1>6, <1>7 DEF IsPath
<1>9. p[1] = q[1] /\ (Len(p) = 2 => p[2] = q[2])
  <2>1. CASE Len(p) = 1
    BY <1>4, <1>5, <1>8, <2>1
  <2>2. CASE Len(p) = 2
    BY <1>1, <1>4, <1>5, <1>6, <1>7, <1>8, <2>2 DEF OneEntry
  <2> QED BY <2>1, <2>2 DEF IsPath
<1> QED BY <1>8, <1>9, PathEq

\* The paths of the calls, and those of the open file table.
LEMMA PathIs ==
  ASSUME NEW p \in Path
  PROVE  IsPath(p)
BY PathFields DEF IsPath

\* An open file has a path and is a file.
LEMMA OpenPathIs ==
  ASSUME NEW s, Sound(s), NEW k \in DOMAIN s.open
  PROVE  /\ s.open[k].path \in Path /\ IsPath(s.open[k].path)
         /\ s.open[k].id \in INode /\ s.newest[s.open[k].id].type = "REGULAR"
         /\ s.open[k].id \in DOMAIN s.table /\ s.open[k].id # Root
<1>1. s.open[k].path \in Path /\ s.open[k].id \in INode
  BY OpenPaths
<1> QED BY <1>1, PathIs, OpenIds DEF Sound, OpenAgree

\* What l2_namei returns: the inode a path leads to, or the one that is open
\* under it and was unlinked.
LEMMA NameiLeads ==
  ASSUME NEW s, Sound(s), Named(s), OpenNamed(s), NEW p \in Seq(Key), Len(p) \in 0 .. 2
  PROVE  /\ \A i \in INode : LeadsTo(s, p, i) => Namei(s, p).id = i
         /\ \A i \in INode : Namei(s, p).id = i /\ s.newest[i].links > 0 => LeadsTo(s, p, i)
         /\ ~Found(Namei(s, p).id) => \A k \in DOMAIN s.open : s.open[k].path # p
         /\ Found(Namei(s, p).id) => Namei(s, p).id \in INode
<1>1. \A i \in INode : Found(i)
  BY PathAssumption, Zenon DEF Found
<1>2. /\ \A i \in INode : Walk(s, p).id = i <=> LeadsTo(s, p, i)
      /\ Found(Walk(s, p).id) => Walk(s, p).id \in INode
  <2>1. \A k \in 1 .. Len(p) : p[k] \in Key
    OBVIOUS
  <2> QED BY <2>1, WalkLeads
<1>3. CASE EntryOf(s, p) = {}
  <2>1. Namei(s, p).id = Walk(s, p).id
    BY <1>3 DEF Namei
  <2>2. \A k \in DOMAIN s.open : s.open[k].path # p
    BY <1>3 DEF EntryOf
  <2> QED BY <1>2, <2>1, <2>2
<1>4. CASE EntryOf(s, p) # {}
  <2> DEFINE k == Min(EntryOf(s, p))
  <2>1. k \in DOMAIN s.open /\ s.open[k].path = p
    BY <1>4, EntryIn
  <2>2. Namei(s, p).id = s.open[k].id
    BY <1>4 DEF Namei
  <2> HIDE DEF k
  <2>3. s.open[k].id \in INode /\ IsPath(p)
    BY <2>1, OpenPathIs
  <2>4. \A i \in INode : LeadsTo(s, p, i) => s.open[k].id = i
    <3> SUFFICES ASSUME NEW i \in INode, LeadsTo(s, p, i) PROVE s.open[k].id = i
      OBVIOUS
    <3>1. LeadsTo(s, p, s.open[k].id)
      BY <2>1 DEF OpenNamed
    <3>2. OneEntry(s)
      BY DEF Named
    <3> QED BY <2>3, <3>1, <3>2, LeadsOne
  <2>5. \A i \in INode : s.open[k].id = i /\ s.newest[i].links > 0 => LeadsTo(s, p, i)
    BY <2>1 DEF OpenNamed
  <2> QED BY <1>1, <2>2, <2>3, <2>4, <2>5
<1> QED BY <1>3, <1>4

-----------------------------------------------------------------------------
(* What a call may do to the names, and that it keeps them in order.         *)

\* The names stay, and what is open stays open.
SameNames(s, t) ==
  /\ t.dir = s.dir
  /\ \A i \in INode : /\ t.newest[i].type = s.newest[i].type
                      /\ t.newest[i].links = s.newest[i].links
SameOpen(s, t) ==
  /\ DOMAIN t.open = DOMAIN s.open /\ DOMAIN t.table = DOMAIN s.table
  /\ \A k \in DOMAIN s.open : /\ t.open[k].path = s.open[k].path
                              /\ t.open[k].id = s.open[k].id

\* What changes neither names nor types nor links leaves the names in order.
LEMMA SameNamed ==
  ASSUME NEW s, NEW t, Named(s), SameNames(s, t)
  PROVE  Named(t)
<1>1. \A d, n, i : At(t, d, n, i) <=> At(s, d, n, i)
  BY DEF At, SameNames
<1>2. Root \in INode
  BY PathAssumption, Zenon
<1>3. OneEntry(t)
  BY <1>1 DEF SameNames, OneEntry, Named
<1>4. EntriesInUse(t)
  BY <1>1 DEF SameNames, EntriesInUse, Named
<1>5. AllEntered(t)
  BY <1>1 DEF SameNames, AllEntered, Named
<1>6. OneLink(t)
  BY <1>2 DEF SameNames, OneLink, Named
<1> QED BY <1>3, <1>4, <1>5, <1>6 DEF Named

\* If what is open stays too, paths still lead to what is open.
LEMMA SameOpenNamed ==
  ASSUME NEW s, NEW t, Sound(s), OpenNamed(s), SameNames(s, t), SameOpen(s, t)
  PROVE  OpenNamed(t)
<1>1. \A p, i : LeadsTo(t, p, i) <=> LeadsTo(s, p, i)
  BY DEF At, SameNames, LeadsTo
<1>2. \A k \in DOMAIN s.open : s.open[k].id \in INode
  BY OpenIds
<1> QED BY <1>1, <1>2 DEF OpenNamed, SameOpen, SameNames

\* A new file or directory i is entered in directory d, which path p leads to
\* without its last name.
LEMMA EnterNamed ==
  ASSUME NEW s, NEW t, Sound(s), Named(s), OpenNamed(s),
         NEW p, IsPath(p), NEW d \in INode, NEW i \in INode,
         LeadsTo(s, Front(p), d), s.newest[d].type = "DIRECTORY", s.newest[d].links > 0,
         s.newest[i].type = "FREE",
         \A j \in INode : ~At(s, d, Last(p), j),
         \A k \in DOMAIN s.open : s.open[k].path # p,
         \A x \in INode : OnceEach(t.dir[x]),
         \A x, j \in INode, n \in Key :
           At(t, x, n, j) <=> At(s, x, n, j) \/ (x = d /\ n = Last(p) /\ j = i),
         \A j \in INode \ {i} : t.newest[j] = s.newest[j],
         t.newest[i].type \in {"REGULAR", "DIRECTORY"}, t.newest[i].links = 1,
         t.newest[i].type = "DIRECTORY" => Len(p) = 1,
         t.open = s.open
  PROVE  Named(t) /\ OpenNamed(t)
<1>1. s.newest[i].links = 0 /\ i # Root /\ Root \in INode
  <2>1. Root \in INode
    BY PathAssumption, Zenon
  <2>2. ~(s.newest[i].links > 0)
    BY DEF Named, OneLink
  <2>3. i # Root
    BY <2>1, <2>2 DEF Named, OneLink
  <2> QED BY <2>1, <2>2, <2>3 DEF Named, OneLink
<1>2. \A x \in INode, n \in Key : ~At(s, x, n, i) /\ ~At(s, i, n, x)
  BY <1>1 DEF Named, EntriesInUse
<1>3. Last(p) \in Key /\ (Len(p) = 2 => p[1] \in Key)
  BY LeadsFront
<1>4. d # Root => Len(p) = 2 /\ At(s, Root, p[1], d)
  <2>1. Len(Front(p)) = Len(p) - 1 /\ (Len(p) = 2 => Front(p)[1] = p[1])
    BY LeadsFront
  <2>2. Len(p) = 1 \/ Len(p) = 2
    BY DEF IsPath
  <2> QED BY <2>1, <2>2 DEF LeadsTo
<1>5. Len(p) = 2 => d # Root
  BY <1>1, <1>3, LeadsFront, NotTheRoot DEF LeadsTo
<1>6. d # i
  BY <1>1
<1>7. OneEntry(t)
  BY <1>2, <1>3 DEF OneEntry, Named
<1>8. EntriesInUse(t)
  <2>1. ASSUME NEW x \in INode, NEW j \in INode, NEW n \in Key, At(s, x, n, j)
        PROVE  /\ t.newest[x].type = "DIRECTORY" /\ t.newest[x].links > 0
               /\ t.newest[j].links > 0
               /\ x # Root => t.newest[j].type # "DIRECTORY"
    <3>1. x # i /\ j # i
      BY <1>2, <2>1
    <3> QED BY <2>1, <3>1 DEF EntriesInUse, Named
  <2>2. /\ t.newest[d].type = "DIRECTORY" /\ t.newest[d].links > 0
        /\ t.newest[i].links > 0
        /\ d # Root => t.newest[i].type # "DIRECTORY"
    BY <1>4, <1>6
  <2> QED BY <2>1, <2>2 DEF EntriesInUse
<1>9. AllEntered(t)
  BY <1>3 DEF AllEntered, Named
<1>10. OneLink(t)
  BY <1>1 DEF OneLink, Named
<1>11. ASSUME NEW r, IsPath(r), r # p, NEW j \in INode
       PROVE  LeadsTo(t, r, j) <=> LeadsTo(s, r, j)
  <2>1. r[1] \in Key /\ (Len(r) = 2 => r[2] \in Key)
    BY <1>11 DEF IsPath
  <2>2. CASE Len(r) = 1
    <3>1. ~(Root = d /\ r[1] = Last(p))
      <4> SUFFICES ASSUME Root = d, r[1] = Last(p) PROVE FALSE
        OBVIOUS
      <4>1. Len(p) = 1 /\ p[1] = r[1]
        BY <1>5, LeadsFront DEF IsPath
      <4> QED BY <1>11, <2>2, <4>1, PathEq
    <3> QED BY <1>1, <2>1, <2>2, <3>1 DEF LeadsTo
  <2>3. CASE Len(r) = 2
    <3>1. LeadsTo(s, r, j) <=> \E e \in INode : At(s, Root, r[1], e) /\ At(s, e, r[2], j)
      BY <2>3 DEF LeadsTo
    <3>2. LeadsTo(t, r, j) <=> \E e \in INode : At(t, Root, r[1], e) /\ At(t, e, r[2], j)
      BY <2>3 DEF LeadsTo
    <3>3. ASSUME NEW e \in INode, At(t, Root, r[1], e), At(t, e, r[2], j)
          PROVE  At(s, Root, r[1], e) /\ At(s, e, r[2], j)
      <4>1. e # i
        BY <1>2, <1>6, <2>1, <2>3, <3>3
      <4>2. At(s, Root, r[1], e)
        BY <1>1, <2>1, <3>3, <4>1
      <4>3. ~(e = d /\ r[2] = Last(p))
        <5> SUFFICES ASSUME e = d, r[2] = Last(p) PROVE FALSE
          OBVIOUS
        <5>1. d # Root
          BY <1>1, <4>2, NotTheRoot
        <5>2. Len(p) = 2 /\ p[1] = r[1]
          BY <1>1, <1>3, <1>4, <2>1, <4>2, <5>1 DEF Named, OneEntry
        <5>3. p[2] = r[2]
          BY ZenonT(30), <5>2, LeadsFront
        <5> QED BY <1>11, <2>3, <5>2, <5>3, PathEq
      <4> QED BY <2>1, <2>3, <3>3, <4>2, <4>3
    <3> QED BY <1>1, <2>1, <2>3, <3>1, <3>2, <3>3
  <2> QED BY <2>2, <2>3, <1>11 DEF IsPath
<1>12. OpenNamed(t)
  <2>1. ASSUME NEW k \in DOMAIN s.open
        PROVE  /\ s.open[k].id \in INode \ {i}
               /\ \A j \in INode : LeadsTo(t, s.open[k].path, j) <=> LeadsTo(s, s.open[k].path, j)
    BY <1>11, <2>1, OpenPathIs
  <2> QED BY <2>1 DEF OpenNamed
<1> QED BY <1>7, <1>8, <1>9, <1>10, <1>12 DEF Named

\* The inodes in gone lose their entries and their links; with a directory go
\* the inodes below it.
LEMMA UnlinkNamed ==
  ASSUME NEW s, NEW t, Sound(s), Named(s), OpenNamed(s),
         NEW gone \in SUBSET INode, Root \notin gone,
         \A x, j \in INode, n \in Key : At(s, x, n, j) /\ x \in gone => j \in gone,
         \A x \in INode : OnceEach(t.dir[x]),
         \A x, j \in INode, n \in Key : At(t, x, n, j) <=> At(s, x, n, j) /\ j \notin gone,
         \A j \in INode \ gone : /\ t.newest[j].type = s.newest[j].type
                                 /\ t.newest[j].links = s.newest[j].links,
         \A j \in gone : t.newest[j].links = 0,
         t.open = s.open
  PROVE  Named(t) /\ OpenNamed(t)
<1>1. Root \in INode
  BY PathAssumption, Zenon
<1>2. OneEntry(t)
  BY DEF OneEntry, Named
<1>3. EntriesInUse(t)
  <2> SUFFICES ASSUME NEW x \in INode, NEW j \in INode, NEW n \in Key, At(t, x, n, j)
               PROVE  /\ t.newest[x].type = "DIRECTORY" /\ t.newest[x].links > 0
                      /\ t.newest[j].links > 0
                      /\ x # Root => t.newest[j].type # "DIRECTORY"
    BY DEF EntriesInUse
  <2>1. At(s, x, n, j) /\ j \notin gone /\ x \notin gone
    OBVIOUS
  <2> QED BY <2>1 DEF EntriesInUse, Named
<1>4. AllEntered(t)
  <2> SUFFICES ASSUME NEW j \in INode \ {Root}, t.newest[j].links > 0
               PROVE  \E x \in INode, n \in Key : At(t, x, n, j)
    BY DEF AllEntered
  <2>1. j \notin gone
    OBVIOUS
  <2> QED BY <2>1 DEF AllEntered, Named
<1>5. OneLink(t)
  BY <1>1 DEF OneLink, Named
<1>6. ASSUME NEW r, IsPath(r), NEW j \in INode
      PROVE  /\ LeadsTo(t, r, j) => LeadsTo(s, r, j) /\ j \notin gone
             /\ LeadsTo(s, r, j) /\ j \notin gone => LeadsTo(t, r, j)
  <2>1. r[1] \in Key /\ (Len(r) = 2 => r[2] \in Key)
    BY <1>6 DEF IsPath
  <2>2. CASE Len(r) = 1
    BY <1>1, <2>1, <2>2 DEF LeadsTo
  <2>3. CASE Len(r) = 2
    <3>1. LeadsTo(s, r, j) <=> \E e \in INode : At(s, Root, r[1], e) /\ At(s, e, r[2], j)
      BY <2>3 DEF LeadsTo
    <3>2. LeadsTo(t, r, j) <=> \E e \in INode : At(t, Root, r[1], e) /\ At(t, e, r[2], j)
      BY <2>3 DEF LeadsTo
    <3> QED BY <1>1, <2>1, <2>3, <3>1, <3>2
  <2> QED BY <1>6, <2>2, <2>3 DEF IsPath
<1>7. OpenNamed(t)
  <2>1. ASSUME NEW k \in DOMAIN s.open
        PROVE  IF t.newest[s.open[k].id].links > 0
                 THEN LeadsTo(t, s.open[k].path, s.open[k].id)
                 ELSE \A j \in INode : ~LeadsTo(t, s.open[k].path, j)
    <3> DEFINE r == s.open[k].path
               i == s.open[k].id
    <3>1. IsPath(r) /\ i \in INode
      BY OpenPathIs
    <3>2. IF s.newest[i].links > 0 THEN LeadsTo(s, r, i)
                                   ELSE \A j \in INode : ~LeadsTo(s, r, j)
      BY DEF OpenNamed
    <3> HIDE DEF r, i
    <3>3. CASE i \in gone
      <4>1. t.newest[i].links = 0
        BY <3>3
      <4>2. \A j \in INode : ~LeadsTo(t, r, j)
        <5> SUFFICES ASSUME NEW j \in INode, LeadsTo(t, r, j) PROVE FALSE
          OBVIOUS
        <5>1. LeadsTo(s, r, j) /\ j \notin gone
          BY <1>6, <3>1
        <5>2. j = i
          BY <3>1, <3>2, <5>1, LeadsOne DEF Named
        <5> QED BY <3>3, <5>1, <5>2
      <4> QED BY <4>1, <4>2 DEF r, i
    <3>4. CASE i \notin gone
      <4>1. t.newest[i].links = s.newest[i].links
        BY <3>1, <3>4
      <4> QED BY <1>6, <3>1, <3>2, <3>4, <4>1 DEF r, i
    <3> QED BY <3>3, <3>4
  <2> QED BY <2>1 DEF OpenNamed
<1> QED BY <1>2, <1>3, <1>4, <1>5, <1>7 DEF Named

\* Inode i moves from path p to path q, which led nowhere, with the path of
\* the open file table; no open file is below one of them.
LEMMA MoveNamed ==
  ASSUME NEW s, NEW t, Sound(s), Named(s), OpenNamed(s),
         NEW p, IsPath(p), NEW q, IsPath(q), Front(q) # p, p # q,
         NEW i \in INode, LeadsTo(s, p, i),
         NEW e \in INode, LeadsTo(s, Front(q), e),
         s.newest[e].type = "DIRECTORY", s.newest[e].links > 0,
         Len(q) = 2 => s.newest[i].type # "DIRECTORY",
         \A j \in INode : ~At(s, e, Last(q), j),
         \A x \in INode : OnceEach(t.dir[x]),
         \A x, j \in INode, n \in Key :
           At(t, x, n, j) <=> (At(s, x, n, j) /\ j # i) \/ (x = e /\ n = Last(q) /\ j = i),
         \A j \in INode : /\ t.newest[j].type = s.newest[j].type
                          /\ t.newest[j].links = s.newest[j].links,
         DOMAIN t.open = DOMAIN s.open,
         \A k \in DOMAIN s.open :
           /\ t.open[k].id = s.open[k].id
           /\ t.open[k].path = IF s.open[k].path = p THEN q ELSE s.open[k].path
           /\ s.open[k].path # q
           /\ Len(s.open[k].path) = 2 => /\ <<s.open[k].path[1]>> # p
                                         /\ <<s.open[k].path[1]>> # q
  PROVE  Named(t) /\ OpenNamed(t)
<1>1. Root \in INode /\ \A d \in INode, n \in Key : ~At(s, d, n, Root)
  BY PathAssumption, NotTheRoot, Zenon
<1>2. Last(q) \in Key /\ Last(q) = q[Len(q)] /\ (Len(q) = 2 => q[1] \in Key)
  BY LeadsFront
<1>3. PICK d \in INode : LeadsTo(s, Front(p), d) /\ At(s, d, Last(p), i) /\ Last(p) \in Key
  BY LeadsFront
<1>4. /\ Len(q) = 1 => e = Root
      /\ Len(q) = 2 => At(s, Root, q[1], e) /\ e # Root
  <2>1. Len(Front(q)) = Len(q) - 1 /\ (Len(q) = 2 => Front(q)[1] = q[1])
    BY LeadsFront
  <2> QED BY <1>1, <1>2, <2>1 DEF LeadsTo
<1>5. i # Root
  BY <1>1, <1>3
<1>6. Len(q) = 1 \/ Len(q) = 2
  BY DEF IsPath
<1>7. e # i
  <2> SUFFICES ASSUME e = i PROVE FALSE
    OBVIOUS
  <2>1. Len(q) = 2
    BY <1>4, <1>5, <1>6
  <2>2. IsPath(Front(q))
    BY <2>1, LeadsFront DEF IsPath
  <2>3. Front(q) = p
    BY <2>2, PathOne DEF Named
  <2> QED BY <2>3
<1>8. OneEntry(t)
  BY <1>2 DEF OneEntry, Named
<1>9. EntriesInUse(t)
  <2> SUFFICES ASSUME NEW x \in INode, NEW j \in INode, NEW n \in Key, At(t, x, n, j)
               PROVE  /\ s.newest[x].type = "DIRECTORY" /\ s.newest[x].links > 0
                      /\ s.newest[j].links > 0
                      /\ x # Root => s.newest[j].type # "DIRECTORY"
    BY DEF EntriesInUse
  <2>1. CASE At(s, x, n, j)
    BY <2>1 DEF EntriesInUse, Named
  <2>2. CASE x = e /\ j = i
    <3>1. s.newest[i].links > 0
      BY <1>3 DEF EntriesInUse, Named
    <3>2. x # Root => s.newest[i].type # "DIRECTORY"
      BY <1>4, <1>6, <2>2
    <3> QED BY <2>2, <3>1, <3>2
  <2> QED BY <2>1, <2>2
<1>10. AllEntered(t)
  BY <1>2 DEF AllEntered, Named
<1>11. OneLink(t)
  BY <1>1 DEF OneLink, Named
<1>12. ASSUME NEW r, IsPath(r), r # p, r # q, NEW j \in INode,
              Len(r) = 2 => <<r[1]>> # p /\ <<r[1]>> # q
       PROVE  LeadsTo(t, r, j) <=> LeadsTo(s, r, j)
  <2>1. r[1] \in Key /\ (Len(r) = 2 => r[2] \in Key)
    BY <1>12 DEF IsPath
  <2>2. LeadsTo(s, r, j) => j # i
    BY <1>12, PathOne DEF Named
  <2>3. CASE Len(r) = 1
    <3>1. ~(Root = e /\ r[1] = Last(q))
      <4> SUFFICES ASSUME Root = e, r[1] = Last(q) PROVE FALSE
        OBVIOUS
      <4>1. Len(q) = 1 /\ q[1] = r[1]
        BY <1>2, <1>4, <1>6
      <4> QED BY <1>12, <2>3, <4>1, PathEq
    <3> QED BY <1>1, <2>1, <2>2, <2>3, <3>1 DEF LeadsTo
  <2>4. CASE Len(r) = 2
    <3>1. LeadsTo(s, r, j) <=> \E x \in INode : At(s, Root, r[1], x) /\ At(s, x, r[2], j)
      BY <2>4 DEF LeadsTo
    <3>2. LeadsTo(t, r, j) <=> \E x \in INode : At(t, Root, r[1], x) /\ At(t, x, r[2], j)
      BY <2>4 DEF LeadsTo
    <3> DEFINE top == <<r[1]>>
    <3>3. IsPath(top) /\ Len(top) = 1 /\ top[1] = r[1]
      BY <2>1 DEF IsPath
    <3>4. top # p /\ top # q
      BY <1>12, <2>4
    <3> HIDE DEF top
    <3>5. ASSUME NEW x \in INode, At(t, Root, r[1], x), At(t, x, r[2], j)
          PROVE  At(s, Root, r[1], x) /\ At(s, x, r[2], j)
      <4>1. ~(Root = e /\ r[1] = Last(q))
        <5> SUFFICES ASSUME Root = e, r[1] = Last(q) PROVE FALSE
          OBVIOUS
        <5>1. Len(q) = 1 /\ q[1] = top[1]
          BY <1>2, <1>4, <1>6, <3>3
        <5> QED BY <3>3, <3>4, <5>1, PathEq
      <4>2. At(s, Root, r[1], x)
        BY <1>1, <2>1, <3>5, <4>1
      <4>3. ~(x = e /\ r[2] = Last(q))
        <5> SUFFICES ASSUME x = e, r[2] = Last(q) PROVE FALSE
          OBVIOUS
        <5>1. e # Root
          BY <1>1, <2>1, <4>2
        <5>2. Len(q) = 2 /\ q[1] = r[1]
          BY <1>1, <1>2, <1>4, <1>6, <2>1, <4>2, <5>1 DEF Named, OneEntry
        <5>3. q[2] = r[2]
          BY <5>2, <1>2
        <5> QED BY <1>12, <2>4, <5>2, <5>3, PathEq
      <4> QED BY <2>1, <2>4, <3>5, <4>2, <4>3
    <3>6. ASSUME NEW x \in INode, At(s, Root, r[1], x), At(s, x, r[2], j)
          PROVE  At(t, Root, r[1], x) /\ At(t, x, r[2], j)
      <4>1. LeadsTo(s, top, x)
        BY <3>3, <3>6 DEF LeadsTo
      <4>2. x # i
        BY <3>3, <3>4, <4>1, PathOne DEF Named
      <4>3. j # i
        BY <2>2, <3>1, <3>6
      <4> QED BY <1>1, <2>1, <2>4, <3>6, <4>2, <4>3
    <3> QED BY <3>1, <3>2, <3>5, <3>6
  <2> QED BY <2>3, <2>4, <1>12 DEF IsPath
<1>13. LeadsTo(t, q, i)
  <2>1. At(t, e, Last(q), i)
    BY <1>2
  <2>2. CASE Len(q) = 1
    BY <1>2, <1>4, <2>1, <2>2 DEF LeadsTo
  <2>3. CASE Len(q) = 2
    <3>1. At(t, Root, q[1], e)
      BY <1>1, <1>2, <1>4, <1>7, <2>3
    <3> QED BY <1>2, <2>1, <2>3, <3>1 DEF LeadsTo
  <2> QED BY <1>6, <2>2, <2>3
<1>14. OpenNamed(t)
  <2>1. ASSUME NEW k \in DOMAIN t.open
        PROVE  IF t.newest[t.open[k].id].links > 0
                 THEN LeadsTo(t, t.open[k].path, t.open[k].id)
                 ELSE \A j \in INode : ~LeadsTo(t, t.open[k].path, j)
    <3> DEFINE r == s.open[k].path
               x == s.open[k].id
    <3>1. IsPath(r) /\ x \in INode /\ k \in DOMAIN s.open
      BY <2>1, OpenPathIs
    <3>2. IF s.newest[x].links > 0 THEN LeadsTo(s, r, x)
                                   ELSE \A j \in INode : ~LeadsTo(s, r, j)
      BY <3>1 DEF OpenNamed
    <3>3. t.open[k].id = x /\ t.open[k].path = (IF r = p THEN q ELSE r)
      BY <3>1
    <3>4. r # q /\ (Len(r) = 2 => <<r[1]>> # p /\ <<r[1]>> # q)
      BY <3>1
    <3> HIDE DEF r, x
    <3>5. t.newest[x].links = s.newest[x].links
      BY <3>1
    <3>6. CASE r = p
      <4>1. s.newest[x].links > 0 /\ LeadsTo(s, p, x)
        BY <3>2, <3>6
      <4>2. x = i
        BY <3>1, <4>1, LeadsOne DEF Named
      <4> QED BY <1>13, <3>3, <3>5, <3>6, <4>1, <4>2
    <3>7. CASE r # p
      <4>1. \A j \in INode : LeadsTo(t, r, j) <=> LeadsTo(s, r, j)
        BY <1>12, <3>1, <3>4, <3>7
      <4> QED BY <3>1, <3>2, <3>3, <3>5, <3>7, <4>1
    <3> QED BY <3>6, <3>7
  <2>2. ASSUME NEW k \in DOMAIN t.open, NEW l \in DOMAIN t.open,
               t.open[k].path = t.open[l].path
        PROVE  k = l
    <3>1. s.open[k].path = s.open[l].path
      BY <2>2
    <3> QED BY <2>2, <3>1 DEF OpenNamed
  <2> QED BY <2>1, <2>2 DEF OpenNamed
<1> QED BY <1>8, <1>9, <1>10, <1>11, <1>14 DEF Named

\* Path p, which leads to file i, is opened for the first time; the file was not
\* open.
LEMMA OpenNewNamed ==
  ASSUME NEW s, NEW t, Sound(s), Named(s), OpenNamed(s), SameNames(s, t),
         NEW p, IsPath(p), NEW i \in INode, LeadsTo(s, p, i),
         \A k \in DOMAIN s.open : s.open[k].path # p,
         NEW j \in DOMAIN t.open, t.open[j].path = p, t.open[j].id = i,
         \A l \in DOMAIN t.open \ {j} :
           \E k \in DOMAIN s.open : /\ t.open[l].path = s.open[k].path
                                    /\ t.open[l].id = s.open[k].id,
         \A l, m \in DOMAIN t.open : t.open[l].id = t.open[m].id => l = m
  PROVE  OpenNamed(t)
<1>1. \A r, x : LeadsTo(t, r, x) <=> LeadsTo(s, r, x)
  BY DEF At, SameNames, LeadsTo
<1>2. s.newest[i].links > 0
  <2>1. PICK d \in INode : At(s, d, Last(p), i) /\ Last(p) \in Key
    BY LeadsFront
  <2> QED BY <2>1 DEF Named, EntriesInUse
<1>3. ASSUME NEW l \in DOMAIN t.open
      PROVE  IF t.newest[t.open[l].id].links > 0
               THEN LeadsTo(t, t.open[l].path, t.open[l].id)
               ELSE \A x \in INode : ~LeadsTo(t, t.open[l].path, x)
  <2>1. CASE l = j
    BY <1>1, <1>2, <2>1 DEF SameNames
  <2>2. CASE l # j
    <3>1. PICK k \in DOMAIN s.open : /\ t.open[l].path = s.open[k].path
                                     /\ t.open[l].id = s.open[k].id
      BY <1>3, <2>2
    <3>2. s.open[k].id \in INode
      BY OpenPathIs
    <3> QED BY <1>1, <3>1, <3>2 DEF SameNames, OpenNamed
  <2> QED BY <2>1, <2>2
<1>4. ASSUME NEW l \in DOMAIN t.open, NEW m \in DOMAIN t.open,
             t.open[l].path = t.open[m].path
      PROVE  l = m
  <2>1. CASE l = j \/ m = j
    BY <1>4, <2>1
  <2>2. CASE l # j /\ m # j
    <3>1. PICK k \in DOMAIN s.open : /\ t.open[l].path = s.open[k].path
                                     /\ t.open[l].id = s.open[k].id
      BY <1>4, <2>2
    <3>2. PICK h \in DOMAIN s.open : /\ t.open[m].path = s.open[h].path
                                     /\ t.open[m].id = s.open[h].id
      BY <1>4, <2>2
    <3>3. k = h
      BY <1>4, <3>1, <3>2 DEF OpenNamed
    <3> QED BY <3>1, <3>2, <3>3
  <2> QED BY <2>1, <2>2
<1> QED BY <1>3, <1>4 DEF OpenNamed

\* File i is closed: it stays, or is freed if it was unlinked.
LEMMA CloseNamed ==
  ASSUME NEW s, NEW t, Sound(s), Sound(t), Named(s), OpenNamed(s), NEW i \in INode,
         s.newest[i].type = "REGULAR",
         \A j \in INode \ {i} : t.newest[j] = s.newest[j],
         \/ t.newest = s.newest /\ t.dir = s.dir
         \/ /\ s.newest[i].links = 0 /\ t.newest[i] = Node("FREE", 0)
            /\ t.dir = With(s.dir, i, <<>>),
         \A l \in DOMAIN t.open :
           \E k \in DOMAIN s.open : /\ t.open[l].path = s.open[k].path
                                    /\ t.open[l].id = s.open[k].id
  PROVE  Named(t) /\ OpenNamed(t)
<1>1. i # Root /\ Root \in INode
  BY PathAssumption, Zenon DEF Sound, RootStays
<1>2. \A j \in INode : /\ t.newest[j].links = s.newest[j].links
                       /\ j # i => t.newest[j].type = s.newest[j].type
  BY DEF Node
<1>3. t.newest[i].type # "DIRECTORY" /\ (s.newest[i].links > 0 => t.newest[i].type = "REGULAR")
  BY DEF Node
<1>4. \A x, j \in INode, n \in Key : At(t, x, n, j) <=> At(s, x, n, j)
  <2>1. CASE t.dir = s.dir
    BY <2>1 DEF At
  <2>2. CASE t.dir = With(s.dir, i, <<>>)
    <3>1. s.dir \in [INode -> Seq(Slot)]
      BY StatesFields DEF Sound
    <3>2. /\ \A x \in INode \ {i} : t.dir[x] = s.dir[x]
          /\ t.dir[i] = <<>>
      BY <2>2, <3>1 DEF With
    <3>3. \A j \in INode, n \in Key : ~At(s, i, n, j)
      BY DEF Named, EntriesInUse
    <3>4. \A j \in INode, n \in Key : ~At(t, i, n, j)
      BY <3>2 DEF At, Entry
    <3>5. \A x \in INode \ {i}, j \in INode, n \in Key : At(t, x, n, j) <=> At(s, x, n, j)
      BY <3>2 DEF At
    <3> QED BY <3>3, <3>4, <3>5
  <2> QED BY <2>1, <2>2
<1>5. \A x \in INode : OnceEach(t.dir[x])
  <2>1. CASE t.dir = s.dir
    BY <2>1 DEF Named, OneEntry
  <2>2. CASE t.dir = With(s.dir, i, <<>>)
    <3>1. s.dir \in [INode -> Seq(Slot)]
      BY StatesFields DEF Sound
    <3>2. /\ \A x \in INode \ {i} : t.dir[x] = s.dir[x]
          /\ t.dir[i] = <<>>
      BY <2>2, <3>1 DEF With
    <3>3. OnceEach(<<>>)
      BY DEF OnceEach
    <3> QED BY <3>2, <3>3 DEF Named, OneEntry
  <2> QED BY <2>1, <2>2
<1>6. OneEntry(t)
  BY <1>4, <1>5 DEF Named, OneEntry
<1>7. EntriesInUse(t)
  <2> SUFFICES ASSUME NEW x \in INode, NEW j \in INode, NEW n \in Key, At(t, x, n, j)
               PROVE  /\ t.newest[x].type = "DIRECTORY" /\ t.newest[x].links > 0
                      /\ t.newest[j].links > 0
                      /\ x # Root => t.newest[j].type # "DIRECTORY"
    BY DEF EntriesInUse
  <2>1. /\ s.newest[x].type = "DIRECTORY" /\ s.newest[x].links > 0
        /\ s.newest[j].links > 0
        /\ x # Root => s.newest[j].type # "DIRECTORY"
    BY <1>4 DEF Named, EntriesInUse
  <2>2. x # i
    BY <2>1
  <2> QED BY <1>2, <1>3, <2>1, <2>2
<1>8. AllEntered(t)
  BY <1>2, <1>4 DEF AllEntered, Named
<1>9. OneLink(t)
  BY <1>1, <1>2, <1>3 DEF OneLink, Named
<1>10. ASSUME NEW r, IsPath(r), NEW x \in INode
       PROVE  LeadsTo(t, r, x) <=> LeadsTo(s, r, x)
  <2>1. r[1] \in Key /\ (Len(r) = 2 => r[2] \in Key)
    BY <1>10 DEF IsPath
  <2> QED BY <1>1, <1>4, <1>10, <2>1 DEF LeadsTo, IsPath
<1>11. ASSUME NEW l \in DOMAIN t.open
       PROVE  IF t.newest[t.open[l].id].links > 0
                THEN LeadsTo(t, t.open[l].path, t.open[l].id)
                ELSE \A x \in INode : ~LeadsTo(t, t.open[l].path, x)
  <2>1. PICK k \in DOMAIN s.open : /\ t.open[l].path = s.open[k].path
                                   /\ t.open[l].id = s.open[k].id
    OBVIOUS
  <2>2. s.open[k].id \in INode /\ IsPath(s.open[k].path)
    BY OpenPathIs
  <2> QED BY <1>2, <1>10, <2>1, <2>2 DEF OpenNamed
<1>12. ASSUME NEW l \in DOMAIN t.open, NEW m \in DOMAIN t.open,
              t.open[l].path = t.open[m].path
       PROVE  l = m
  <2>1. PICK k \in DOMAIN s.open : /\ t.open[l].path = s.open[k].path
                                   /\ t.open[l].id = s.open[k].id
    OBVIOUS
  <2>2. PICK h \in DOMAIN s.open : /\ t.open[m].path = s.open[h].path
                                   /\ t.open[m].id = s.open[h].id
    OBVIOUS
  <2>3. k = h
    BY <1>12, <2>1, <2>2 DEF OpenNamed
  <2>4. t.open[l].id = t.open[m].id
    BY <2>1, <2>2, <2>3
  <2> QED BY <2>4 DEF Sound, OpenAgree
<1>13. OpenNamed(t)
  BY <1>11, <1>12 DEF OpenNamed
<1> QED BY <1>6, <1>7, <1>8, <1>9, <1>13 DEF Named

-----------------------------------------------------------------------------
(* What each call does to the names.                                         *)

\* Names, open files and inodes are in order.
InOrder(s) == Sound(s) /\ Named(s) /\ OpenNamed(s)

\* A call has left the names in order, and nothing is kept without need.
SettlesAt(t) ==
  /\ Become(t) /\ Sound(t) /\ Named(t) /\ OpenNamed(t)
  /\ NoneKept(State) => NoneKept(t)

Settles == \E t : SettlesAt(t)

\* A call has left all but the inode cache as it was; or it has stored node in
\* inode i, which was of the same type and had as many links.
AllSame(s, t) ==
  /\ t.dir = s.dir /\ t.disk = s.disk /\ t.newest = s.newest /\ t.open = s.open
  /\ DOMAIN t.table = DOMAIN s.table

Marked(s, t, i, node) ==
  /\ t.dir = s.dir /\ t.open = s.open /\ DOMAIN t.table = DOMAIN s.table
  /\ t.newest = With(s.newest, i, node)
  /\ node \in INodeType
  /\ node.type = s.newest[i].type /\ node.links = s.newest[i].links

\* It has put inode i into directory d, under the last name of path p.
Created(s, t, p, type, i, d) ==
  /\ s.newest[i].type = "FREE" /\ i # Root
  /\ LeadsTo(s, Front(p), d) /\ s.newest[d].type = "DIRECTORY"
  /\ \A j \in INode : ~LeadsTo(s, p, j)
  /\ \A k \in DOMAIN s.open : s.open[k].path # p
  /\ \A x, j \in INode, m \in Key :
       At(t, x, m, j) <=> At(s, x, m, j) \/ (x = d /\ m = Last(p) /\ j = i)
  /\ \A j \in INode \ {i} : /\ t.newest[j] = s.newest[j]
                            /\ t.disk[j] = s.disk[j] \/ (j = d /\ t.disk[j] = s.newest[j])
  /\ t.newest[i] = Node(type, 1) /\ t.disk[i] = Node(type, 1)
  /\ t.open = s.open /\ DOMAIN t.table = DOMAIN s.table

\* One that changes neither names nor what is open does.
LEMMA SameSettles ==
  ASSUME Sound(State), Named(State), OpenNamed(State), NEW t, Sound(t), Become(t),
         SameNames(State, t), SameOpen(State, t)
  PROVE  SettlesAt(t)
<1>1. Named(t)
  BY SameNamed
<1>2. OpenNamed(t)
  BY SameOpenNamed
<1>3. NoneKept(State) => NoneKept(t)
  BY DEF NoneKept, SameNames, SameOpen
<1> QED BY <1>1, <1>2, <1>3 DEF SettlesAt

\* Reads do, and changes of the mark of an inode.
LEMMA ReadSettles ==
  ASSUME Sound(State), Named(State), OpenNamed(State), NEW t, Become(t), ReadTo(State, t)
  PROVE  SettlesAt(t) /\ AllSame(State, t)
<1>1. Sound(t)
  BY ReadKeeps DEF Keeps
<1>2. SameNames(State, t) /\ SameOpen(State, t)
  BY DEF ReadTo, SameNames, SameOpen
<1>3. AllSame(State, t)
  BY DEF ReadTo, AllSame
<1> QED BY <1>1, <1>2, <1>3, SameSettles

\* A change of the contents of one inode does.
LEMMA MarkSettles ==
  ASSUME Sound(State), Named(State), OpenNamed(State), NEW t, Become(t),
         Sound(t), StaysOpen(State, t), t.dir = State.dir, t.open = State.open,
         NEW i \in INode, NEW node \in INodeType, t.newest = With(State.newest, i, node),
         node.type = State.newest[i].type, node.links = State.newest[i].links
  PROVE  SettlesAt(t) /\ Marked(State, t, i, node)
<1>1. State.newest \in [INode -> INodeType]
  BY StatesFields DEF Sound
<1>2. \A j \in INode : /\ t.newest[j].type = State.newest[j].type
                       /\ t.newest[j].links = State.newest[j].links
  BY <1>1 DEF With
<1>3. SameNames(State, t) /\ SameOpen(State, t)
  BY <1>2 DEF SameNames, SameOpen, StaysOpen
<1>4. Marked(State, t, i, node)
  BY DEF Marked, StaysOpen
<1> QED BY <1>3, <1>4, SameSettles

\* l2_getattr.
LEMMA GetAttrSettles ==
  ASSUME Sound(State), Named(State), OpenNamed(State), NEW p \in Path, GetAttr(p)
  PROVE  \E t : SettlesAt(t) /\ AllSame(State, t)
<1> DEFINE n == Namei(State, p)
           r == ReadINode(n.s, {n.id})
<1>1. ReadTo(State, n.s) /\ Sound(n.s) /\ n.id \in Ids
  BY PathFields, NameiReads, NameiKeeps
<1>2. Found(n.id) => ReadTo(State, r)
  <2> HIDE DEF n
  <2> SUFFICES ASSUME Found(n.id) PROVE ReadTo(State, r)
    OBVIOUS
  <2>1. n.id \in INode
    BY <1>1 DEF Ids, Found
  <2>2. ReadTo(n.s, r)
    BY <1>1, <2>1, ReadINodeReads DEF Sound
  <2> HIDE DEF r
  <2> QED BY <1>1, <2>2, ReadToTrans
<1>3. Become(IF Found(n.id) THEN r ELSE n.s)
  BY DEF GetAttr
<1> HIDE DEF n, r
<1>4. CASE Found(n.id)
  BY <1>2, <1>3, <1>4, ReadSettles
<1>5. CASE ~Found(n.id)
  BY <1>1, <1>3, <1>5, ReadSettles
<1> QED BY <1>4, <1>5

\* l2_chmod.
LEMMA ChmodSettles ==
  ASSUME Sound(State), Named(State), OpenNamed(State), NEW p \in Path, Chmod(p)
  PROVE  LET i == Namei(State, p).id
             node == Changed(newest[i])
         IN  \E t : /\ SettlesAt(t) /\ Marked(State, t, i, node)
                    /\ t.disk = With(disk, i, node)
<1> DEFINE n == Namei(State, p)
           r == ReadINode(n.s, {n.id})
           node == Changed(InCore(r, n.id))
           t == WriteINode(r, n.id, node)
<1>1. ReadTo(State, n.s) /\ Sound(n.s) /\ n.id \in Ids
  BY PathFields, NameiReads, NameiKeeps
<1>2. n.id \in INode
  BY <1>1 DEF Chmod, Ids, Found
<1>3. ReadTo(State, r) /\ Sound(r)
  <2> HIDE DEF n
  <2>1. ReadTo(n.s, r)
    BY <1>1, <1>2, ReadINodeReads DEF Sound
  <2> HIDE DEF r
  <2>2. ReadTo(State, r)
    BY <1>1, <2>1, ReadToTrans
  <2> QED BY <2>2, ReadKeeps DEF Keeps
<1>4. Become(t)
  BY DEF Chmod
<1> HIDE DEF n, r
<1>5. InCore(r, n.id) = r.newest[n.id] /\ r.newest[n.id] \in INodeType
  BY <1>2, <1>3, StatesFields DEF Sound
<1>6. /\ node \in INodeType /\ node.type = r.newest[n.id].type
      /\ node.links = r.newest[n.id].links /\ node.links <= r.newest[n.id].links
  BY <1>5, ChangedFields
<1>10. node = Changed(newest[n.id])
  <2>1. r.newest = newest
    BY <1>3 DEF ReadTo, State
  <2> QED BY <1>5, <2>1
<1> HIDE DEF node
<1>7. MayStore(r, n.id, node)
  BY <1>2, <1>3, <1>6 DEF MayStore, Sound, RootStays
<1>8. /\ Keeps(r, t) /\ t.dir = r.dir /\ t.open = r.open
      /\ t.newest = With(r.newest, n.id, node)
      /\ t.disk = With(r.disk, n.id, node)
  BY <1>3, <1>7, WriteINodeFields
<1> HIDE DEF t
<1>9. /\ Sound(t) /\ StaysOpen(State, t) /\ t.dir = State.dir /\ t.open = State.open
      /\ t.newest = With(State.newest, n.id, node)
      /\ node.type = State.newest[n.id].type /\ node.links = State.newest[n.id].links
      /\ t.disk = With(State.disk, n.id, node)
  <2>1. Keeps(State, t)
    BY <1>3, <1>8, ReadKeeps, KeepsTrans
  <2> QED BY <1>3, <1>6, <1>8, <2>1 DEF ReadTo, Keeps
<1>11. SettlesAt(t) /\ Marked(State, t, n.id, node)
  BY <1>2, <1>4, <1>6, <1>9, MarkSettles
<1>12. t.disk = With(disk, n.id, node)
  BY <1>9 DEF State
<1> QED BY <1>10, <1>11, <1>12 DEF n

\* l2_read.
LEMMA ReadCallSettles ==
  ASSUME Sound(State), Named(State), OpenNamed(State), NEW p \in Path, Read(p)
  PROVE  LET i == open[Min(EntryOf(State, p))].id
         IN  \E t : /\ SettlesAt(t) /\ Marked(State, t, i, newest[i])
                    /\ t.disk = With(disk, i, newest[i])
<1> DEFINE k == Min(EntryOf(State, p))
           i == open[k].id
           t == WriteINode(State, i, table[i].node)
<1>1. EntryOf(State, p) # {} /\ Become(t)
  BY DEF Read
<1>2. i \in INode /\ i # Root /\ table[i].node = newest[i] /\ newest[i] \in INodeType
  BY <1>1, OpenEntry
<1>3. State.newest = newest
  BY DEF State
<1>4. MayStore(State, i, table[i].node)
  <2>1. newest[i].links <= newest[i].links
    BY <1>2, NodeFields
  <2> HIDE DEF i
  <2> QED BY <1>2, <1>3, <2>1 DEF MayStore
<1>5. /\ Keeps(State, t) /\ t.dir = State.dir /\ t.open = State.open
      /\ t.newest = With(State.newest, i, table[i].node)
      /\ t.disk = With(State.disk, i, table[i].node)
  <2> HIDE DEF i
  <2> QED BY <1>4, WriteINodeFields
<1> HIDE DEF t, i
<1>6. /\ table[i].node.type = State.newest[i].type
      /\ table[i].node.links = State.newest[i].links
  BY <1>2, <1>3
<1>7. Sound(t) /\ StaysOpen(State, t)
  BY <1>5 DEF Keeps
<1>8. SettlesAt(t) /\ Marked(State, t, i, table[i].node)
  BY <1>1, <1>2, <1>5, <1>6, <1>7, MarkSettles
<1>9. t.disk = With(disk, i, table[i].node)
  BY <1>5 DEF State
<1> QED BY <1>2, <1>8, <1>9 DEF i

\* l2_write, with and without blocks.
LEMMA WriteSettles ==
  ASSUME Sound(State), Named(State), OpenNamed(State), NEW p \in Path,
         NEW room \in BOOLEAN, Write(p, room)
  PROVE  LET i == open[Min(EntryOf(State, p))].id
             node == Changed(newest[i])
         IN  \E t : /\ SettlesAt(t) /\ Marked(State, t, i, node)
                    /\ t.disk = IF room THEN With(disk, i, node) ELSE disk
<1> DEFINE k == Min(EntryOf(State, p))
           i == open[k].id
           node == Changed(table[i].node)
           s == SetInCore(State, i, node)
           u == WriteINode(State, i, node)
<1>1. EntryOf(State, p) # {} /\ Become(IF room THEN u ELSE s)
  BY DEF Write
<1>2. /\ i \in INode /\ i # Root /\ table[i].node = newest[i] /\ newest[i] \in INodeType
  BY <1>1, OpenEntry
<1>3. State.newest = newest
  BY DEF State
<1>4. /\ node \in INodeType
      /\ node.type = newest[i].type /\ node.links = newest[i].links
      /\ node.links <= newest[i].links
  <2> HIDE DEF i
  <2> QED BY <1>2, ChangedFields
<1> HIDE DEF i, node
<1>5. MayStore(State, i, node)
  BY <1>2, <1>3, <1>4 DEF MayStore
<1>6. /\ Keeps(State, u) /\ u.dir = State.dir /\ u.open = State.open
      /\ u.newest = With(State.newest, i, node)
      /\ u.disk = With(State.disk, i, node)
  BY <1>5, WriteINodeFields
<1>7. /\ s.dir = State.dir /\ s.open = State.open /\ s.disk = State.disk
      /\ s.newest = With(State.newest, i, node)
  BY <1>2, <1>4, SetInCoreFields DEF Sound
<1>8. PICK t : Become(t) /\ Sound(t) /\ StaysOpen(State, t)
  BY WriteKeeps
<1> DEFINE v == IF room THEN u ELSE s
<1>9. /\ Become(v) /\ v.dir = State.dir /\ v.open = State.open
      /\ v.newest = With(State.newest, i, node)
      /\ v.disk = IF room THEN With(State.disk, i, node) ELSE State.disk
  <2> HIDE DEF u, s
  <2> QED BY <1>1, <1>6, <1>7
<1> HIDE DEF v
<1>10. t = State'
  BY <1>8, BecomeState DEF Sound
<1>11. /\ t.dir = v.dir /\ t.open = v.open /\ t.newest = v.newest /\ t.disk = v.disk
  BY <1>8, <1>9 DEF Become
<1>12. SettlesAt(t) /\ Marked(State, t, i, node)
  BY <1>2, <1>3, <1>4, <1>8, <1>9, <1>11, MarkSettles
<1>13. t.disk = IF room THEN With(disk, i, node) ELSE disk
  BY <1>9, <1>11 DEF State
<1>14. node = Changed(newest[i])
  BY <1>2 DEF node
<1> QED BY <1>12, <1>13, <1>14 DEF i

\* Reads leave the names.
LEMMA ReadNames ==
  ASSUME NEW s, NEW t, Sound(s), Named(s), OpenNamed(s), ReadTo(s, t)
  PROVE  /\ Sound(t) /\ Named(t) /\ OpenNamed(t)
         /\ \A p, i : LeadsTo(t, p, i) <=> LeadsTo(s, p, i)
<1>1. Sound(t)
  BY ReadKeeps DEF Keeps
<1>2. SameNames(s, t) /\ SameOpen(s, t)
  BY DEF ReadTo, SameNames, SameOpen
<1>3. Named(t)
  BY <1>2, SameNamed
<1>4. OpenNamed(t)
  BY <1>2, SameOpenNamed
<1>5. \A p, i : LeadsTo(t, p, i) <=> LeadsTo(s, p, i)
  BY DEF ReadTo, LeadsTo, At
<1> QED BY <1>1, <1>3, <1>4, <1>5

\* What a path leads to has a link.
LEMMA LeadsInUse ==
  ASSUME NEW s, Named(s), NEW p \in Seq(Key), Len(p) \in 0 .. 2,
         NEW i \in INode, LeadsTo(s, p, i)
  PROVE  s.newest[i].links > 0
<1>1. Root \in INode
  BY PathAssumption, Zenon
<1>2. CASE Len(p) = 0
  BY <1>2 DEF LeadsTo, Named, OneLink
<1>3. CASE Len(p) = 1
  <2>1. p[1] \in Key
    BY <1>3
  <2> QED BY <1>1, <1>3, <2>1 DEF LeadsTo, Named, EntriesInUse
<1>4. CASE Len(p) = 2
  <2>1. p[2] \in Key
    BY <1>4
  <2> QED BY <1>4, <2>1 DEF LeadsTo, Named, EntriesInUse
<1> QED BY <1>2, <1>3, <1>4

\* A directory that l2_namei finds is one its path leads to.
LEMMA NameiDirectory ==
  ASSUME NEW s, Sound(s), Named(s), NEW p \in Seq(Key), Len(p) \in 0 .. 2,
         NEW i \in INode, Namei(s, p).id = i, s.newest[i].type # "REGULAR"
  PROVE  LeadsTo(s, p, i) /\ s.newest[i].links > 0
<1>1. CASE EntryOf(s, p) = {}
  <2>1. Walk(s, p).id = i
    BY <1>1 DEF Namei
  <2>2. \A k \in 1 .. Len(p) : p[k] \in Key
    OBVIOUS
  <2>3. LeadsTo(s, p, i)
    BY <2>1, <2>2, WalkLeads
  <2> QED BY <2>3, LeadsInUse
<1>2. CASE EntryOf(s, p) # {}
  <2> DEFINE k == Min(EntryOf(s, p))
  <2>1. k \in DOMAIN s.open
    BY <1>2, EntryIn
  <2>2. s.open[k].id = i
    BY <1>2 DEF Namei
  <2> HIDE DEF k
  <2>3. s.newest[i].type = "REGULAR"
    BY <2>1, <2>2 DEF Sound, OpenAgree
  <2> QED BY <2>3
<1> QED BY <1>1, <1>2

\* The lengths of a path and of that of its parent.
LEMMA PathLengths ==
  ASSUME NEW p \in Path
  PROVE  /\ p \in Seq(Key) /\ Len(p) \in 0 .. 2 /\ Len(p) \in Nat /\ IsPath(p)
         /\ Front(p) \in Seq(Key) /\ Len(Front(p)) \in 0 .. 2 /\ Len(Front(p)) \in Nat
         /\ Last(p) \in Key
<1>1. /\ p \in Seq(Key) /\ Len(p) \in 1 .. 2
      /\ Front(p) \in Seq(Key) /\ Len(Front(p)) = Len(p) - 1
      /\ Last(p) \in Key
  BY PathFields
<1>2. IsPath(p)
  BY PathIs
<1>3. Len(p) \in 0 .. 2 /\ Len(p) \in Nat
  BY <1>1
<1>4. Len(Front(p)) \in 0 .. 2 /\ Len(Front(p)) \in Nat
  BY <1>1
<1> QED BY <1>1, <1>2, <1>3, <1>4

\* l2_mknod and l2_mkdir enter the new inode under the path.
LEMMA CreateSettles ==
  ASSUME Sound(State), Named(State), OpenNamed(State), odd' \subseteq Harmless,
         NEW p \in Path, NEW type \in {"REGULAR", "DIRECTORY"}, NEW i \in INode,
         type = "DIRECTORY" => Len(p) = 1, Create(p, type, i)
  PROVE  \E t, d : SettlesAt(t) /\ d \in INode /\ Created(State, t, p, type, i, d)
<1> DEFINE s == State
           n  == Namei(s, p)
           d  == Namei(n.s, Front(p))
           s1 == Initialised(d.s, d.id, i)
           s2 == Entered(s1, d.id, Last(p), i)
           s3 == WriteINode(s2, i, Node(type, 1))
           entry == [key |-> Last(p), id |-> i]
<1>1. /\ disk[i].type = "FREE" /\ n.id = ENOENT /\ Found(d.id)
      /\ InCore(d.s, d.id).type = "DIRECTORY" /\ Become(s3)
  BY DEF Create, Harmless
<1>2. /\ p \in Seq(Key) /\ Len(p) \in 0 .. 2 /\ Len(p) \in Nat /\ IsPath(p)
      /\ Front(p) \in Seq(Key) /\ Len(Front(p)) \in 0 .. 2 /\ Len(Front(p)) \in Nat
      /\ Last(p) \in Key
  BY PathLengths
<1>3. Sound(s) /\ Named(s) /\ OpenNamed(s) /\ s.disk = disk
  BY DEF State
<1> HIDE DEF s
<1>4. ReadTo(s, n.s) /\ Sound(n.s) /\ Named(n.s) /\ OpenNamed(n.s)
  BY <1>2, <1>3, NameiReads, ReadNames
<1>5. ~Found(n.id)
  BY <1>1 DEF Found
<1>6. /\ \A j \in INode : ~LeadsTo(s, p, j)
      /\ \A k \in DOMAIN s.open : s.open[k].path # p
  <2>1. \A j \in INode : Found(j)
    BY PathAssumption, Zenon DEF Found
  <2> QED BY <1>2, <1>3, <1>5, <2>1, NameiLeads
<1> HIDE DEF n
<1>7. ReadTo(n.s, d.s) /\ d.id \in Ids
  BY <1>2, <1>4, NameiReads
<1>8. ReadTo(s, d.s) /\ Sound(d.s) /\ d.id \in INode
  <2>1. d.id \in INode
    BY <1>1, <1>7 DEF Ids, Found
  <2> HIDE DEF d
  <2> QED BY <1>3, <1>4, <1>7, <2>1, ReadToTrans, ReadKeeps DEF Keeps
<1>9. s.newest[d.id].type = "DIRECTORY" /\ n.s.newest[d.id].type = "DIRECTORY"
  <2> HIDE DEF d
  <2>1. d.s.newest[d.id].type = "DIRECTORY"
    BY <1>1, <1>8 DEF Sound
  <2> QED BY <1>4, <1>8, <2>1 DEF ReadTo
<1>10. LeadsTo(s, Front(p), d.id) /\ s.newest[d.id].links > 0
  <2>1. LeadsTo(n.s, Front(p), d.id) /\ n.s.newest[d.id].links > 0
    BY <1>2, <1>4, <1>8, <1>9, NameiDirectory
  <2> QED BY <1>3, <1>4, <2>1, ReadNames DEF ReadTo
<1> HIDE DEF d
<1>11. \A j \in INode : ~At(s, d.id, Last(p), j)
  BY <1>2, <1>6, <1>8, <1>10, LeadsFront
<1>12. d.s.disk[i].type = "FREE" /\ s.newest[i].type = "FREE"
  BY <1>1, <1>3, <1>8 DEF ReadTo, Sound
<1>13. /\ Keeps(d.s, s1) /\ Sound(s1)
       /\ s1.dir = s.dir /\ s1.open = s.open
       /\ s1.newest = With(s.newest, i, Node("INIT", 0))
       /\ s1.disk = With(s.disk, i, Node("INIT", 0))
  BY <1>8, <1>12, InitialisedFields DEF Keeps, ReadTo
<1>14. i \notin DOMAIN s1.table /\ i # Root
  <2>1. i \notin DOMAIN d.s.table /\ i # Root
    BY <1>8, <1>12, DiskType
  <2> HIDE DEF s1
  <2> QED BY <2>1, <1>13 DEF Keeps, StaysOpen
<1> HIDE DEF s1
<1>15. /\ Keeps(s1, s2) /\ Sound(s2)
       /\ s2.dir = With(s.dir, d.id, PutSlot(s.dir[d.id], entry))
       /\ s2.open = s.open /\ s2.newest = s1.newest
       /\ s2.disk = s1.disk \/ s2.disk = With(s1.disk, d.id, s1.newest[d.id])
  <2>1. i \in INode \ {Root}
    BY <1>14
  <2> QED BY <1>2, <1>8, <1>13, <2>1, EnteredFields DEF Keeps
<1>16. MayStore(s2, i, Node(type, 1))
  <2>1. Node(type, 1) \in INodeType
    BY DEF Node, INodeType
  <2> HIDE DEF s2
  <2> QED BY <1>14, <1>15, <2>1 DEF MayStore, Keeps, StaysOpen
<1> HIDE DEF s2
<1>17. /\ Keeps(s2, s3) /\ s3.dir = s2.dir /\ s3.open = s2.open
       /\ s3.newest = With(s2.newest, i, Node(type, 1))
       /\ s3.disk = With(s2.disk, i, Node(type, 1))
  BY <1>15, <1>16, WriteINodeFields
<1> HIDE DEF s3, entry
<1>18. Keeps(s, s3) /\ Sound(s3)
  <2>1. Keeps(s, s1)
    BY <1>3, <1>8, <1>13, ReadKeeps, KeepsTrans
  <2>2. Keeps(s, s2)
    BY <1>3, <1>15, <2>1, KeepsTrans
  <2>3. Keeps(s, s3)
    BY <1>3, <1>17, <2>2, KeepsTrans
  <2> QED BY <2>3 DEF Keeps
<1>19. s.newest \in [INode -> INodeType] /\ s.dir \in [INode -> Seq(Slot)]
  BY <1>3, StatesFields DEF Sound
<1>20. /\ \A j \in INode \ {i} : s3.newest[j] = s.newest[j]
       /\ s3.newest[i] = Node(type, 1)
  BY <1>13, <1>15, <1>17, <1>19 DEF With
<1>21. s3.newest[i].type = type /\ s3.newest[i].links = 1
  BY <1>20 DEF Node
<1>22. /\ \A x \in INode \ {d.id} : s3.dir[x] = s.dir[x]
       /\ s3.dir[d.id] = PutSlot(s.dir[d.id], entry)
  BY <1>8, <1>15, <1>17, <1>19 DEF With
<1>23. /\ OnceEach(PutSlot(s.dir[d.id], entry))
       /\ \A m, j : j # Removed =>
            (Entry(PutSlot(s.dir[d.id], entry), m, j)
               <=> Entry(s.dir[d.id], m, j) \/ (m = Last(p) /\ j = i))
  <2>1. entry \in Slot /\ entry.id = i /\ entry.key = Last(p) /\ i # Removed
    BY <1>2, PathAssumption, Zenon DEF entry, Slot, Key
  <2>2. \A j \in INode : ~Entry(s.dir[d.id], entry.key, j)
    BY <1>11, <2>1 DEF At
  <2>3. s.dir[d.id] \in Seq(Slot) /\ OnceEach(s.dir[d.id]) /\ entry.id # Removed
    BY <1>3, <1>8, <1>19, <2>1 DEF Named, OneEntry
  <2> QED BY <2>1, <2>2, <2>3, PutSlotEntries
<1>24. \A x \in INode : OnceEach(s3.dir[x])
  BY <1>3, <1>22, <1>23 DEF Named, OneEntry
<1>25. \A x, j \in INode, m \in Key :
         At(s3, x, m, j) <=> At(s, x, m, j) \/ (x = d.id /\ m = Last(p) /\ j = i)
  <2>1. \A j \in INode : j # Removed
    BY PathAssumption, Zenon
  <2> QED BY <1>22, <1>23, <2>1 DEF At
<1>26. s3.open = s.open
  BY <1>15, <1>17
<1>27. Named(s3) /\ OpenNamed(s3)
  BY <1>2, <1>3, <1>6, <1>8, <1>9, <1>10, <1>11, <1>12, <1>20, <1>21, <1>24, <1>25,
     <1>26, EnterNamed
<1>28. NoneKept(s) => NoneKept(s3)
  BY <1>18, <1>20, <1>21 DEF NoneKept, Keeps, StaysOpen
<1>29. s.disk \in [INode -> INodeType] /\ d.id # i
  BY <1>3, <1>9, <1>12, StatesFields DEF Sound
<1>30. /\ s3.disk[i] = Node(type, 1)
       /\ \A j \in INode \ {i} : \/ s3.disk[j] = s.disk[j]
                                 \/ j = d.id /\ s3.disk[j] = s.newest[j]
  <2>1. s1.newest[d.id] = s.newest[d.id]
    BY <1>8, <1>13, <1>19, <1>29 DEF With
  <2> QED BY <1>8, <1>13, <1>15, <1>17, <1>29, <2>1 DEF With
<1>31. DOMAIN s3.table = DOMAIN s.table
  BY <1>18 DEF Keeps, StaysOpen
<1>32. Created(s, s3, p, type, i, d.id)
  BY <1>6, <1>9, <1>10, <1>12, <1>14, <1>20, <1>25, <1>26, <1>30, <1>31 DEF Created
<1>33. SettlesAt(s3)
  BY <1>1, <1>18, <1>27, <1>28 DEF SettlesAt, s
<1> QED BY <1>8, <1>32, <1>33 DEF s

\* The loop of l2_unlink finds all slots of a directory, since no two have one
\* name.
LEMMA EachOnceSame ==
  ASSUME NEW slots \in Seq(Slot), OnceEach(slots)
  PROVE  /\ DOMAIN EachOnce(slots) = DOMAIN slots
         /\ \A k \in DOMAIN slots : /\ EachOnce(slots)[k].key = slots[k].key
                                    /\ EachOnce(slots)[k].id = slots[k].id
<1>1. DOMAIN slots = 1 .. Len(slots) /\ Len(slots) \in Nat
  OBVIOUS
<1>2. DOMAIN EachOnce(slots) = DOMAIN slots
  BY DEF EachOnce
<1>3. ASSUME NEW k \in DOMAIN slots
      PROVE  /\ EachOnce(slots)[k].key = slots[k].key
             /\ EachOnce(slots)[k].id = slots[k].id
  <2>1. CASE \E j \in 1 .. k - 1 : slots[j].id # Removed /\ slots[j].key = slots[k].key
    <3>1. PICK j \in 1 .. k - 1 : slots[j].id # Removed /\ slots[j].key = slots[k].key
      BY <2>1
    <3>2. j \in DOMAIN slots /\ j # k
      BY <1>1, <1>3, <3>1
    <3>3. slots[k].id = Removed
      BY <1>3, <3>1, <3>2 DEF OnceEach
    <3>4. EachOnce(slots)[k] = [key |-> slots[k].key, id |-> Removed]
      BY <1>3, <2>1 DEF EachOnce
    <3> QED BY <3>3, <3>4
  <2>2. CASE ~\E j \in 1 .. k - 1 : slots[j].id # Removed /\ slots[j].key = slots[k].key
    BY <1>3, <2>2 DEF EachOnce
  <2> QED BY <2>1, <2>2
<1> QED BY <1>2, <1>3

\* An inode has lost its last link: it is FREE, or open and as it was.
Shed(s, t, i) ==
  /\ t.newest[i].links = 0
  /\ IF i \in DOMAIN s.table THEN NodeOf(t.newest[i]) = NodeOf(s.newest[i])
     ELSE t.newest[i].type = "FREE"

\* The end of l2_unlink, of an inode whose last link was taken: its name goes,
\* and if it is not open, it is FREE and its slots go.
LEMMA DropNames ==
  ASSUME NEW s, Sound(s), \A x \in INode : OnceEach(s.dir[x]),
         NEW d \in INode, NEW name \in Key, NEW i \in INode \ {Root}, d # i,
         s.newest[i].links = 0
  PROVE  LET t == Drop(s, d, name, i)
         IN  /\ Keeps(s, t) /\ Sound(t) /\ t.open = s.open
             /\ DOMAIN t.table = DOMAIN s.table
             /\ \A x \in INode : OnceEach(t.dir[x])
             /\ \A x, j \in INode, m \in Key :
                  At(t, x, m, j) <=> /\ At(s, x, m, j)
                                     /\ ~(x = d /\ m = name)
                                     /\ x # i \/ i \in DOMAIN s.table
             /\ \A j \in INode \ {i} : /\ t.newest[j] = s.newest[j]
                                       /\ t.disk[j] = s.disk[j]
             /\ Shed(s, t, i)
<1> DEFINE t == Drop(s, d, name, i)
           f == FreeUnlessOpen(s, i)
           entry == [key |-> name, id |-> Removed]
<1>1. /\ Keeps(s, t)
      /\ IF i \in DOMAIN s.table
           THEN f.dir = s.dir /\ f.newest = s.newest /\ f.disk = s.disk
           ELSE /\ f.dir = With(s.dir, i, <<>>)
                /\ f.newest = With(s.newest, i, Node("FREE", 0))
                /\ f.disk = With(s.disk, i, Node("FREE", 0))
      /\ t.open = s.open /\ t.newest = f.newest /\ t.disk = f.disk
      /\ t.dir = With(f.dir, d, Overwrite(f.dir[d], name, entry))
  BY DropFields
<1> HIDE DEF t, f
<1>2. Sound(t) /\ DOMAIN t.table = DOMAIN s.table
  BY <1>1 DEF Keeps, StaysOpen
<1>3. /\ s.dir \in [INode -> Seq(Slot)] /\ s.newest \in [INode -> INodeType]
      /\ s.disk \in [INode -> INodeType]
  BY StatesFields DEF Sound
<1>4. /\ \A x \in INode \ {i} : f.dir[x] = s.dir[x]
      /\ f.dir[i] = IF i \in DOMAIN s.table THEN s.dir[i] ELSE <<>>
      /\ f.dir \in [INode -> Seq(Slot)]
      /\ \A j \in INode \ {i} : f.newest[j] = s.newest[j] /\ f.disk[j] = s.disk[j]
      /\ f.newest[i] = IF i \in DOMAIN s.table THEN s.newest[i] ELSE Node("FREE", 0)
  <2>1. <<>> \in Seq(Slot)
    OBVIOUS
  <2>2. CASE i \in DOMAIN s.table
    BY <1>1, <1>3, <2>2
  <2>3. CASE i \notin DOMAIN s.table
    <3>1. /\ f.dir = With(s.dir, i, <<>>)
          /\ f.newest = With(s.newest, i, Node("FREE", 0))
          /\ f.disk = With(s.disk, i, Node("FREE", 0))
      BY <1>1, <2>3
    <3>2. /\ \A x \in INode \ {i} : f.dir[x] = s.dir[x]
          /\ f.dir[i] = <<>>
          /\ f.dir \in [INode -> Seq(Slot)]
      BY <1>3, <2>1, <3>1 DEF With
    <3>3. /\ \A j \in INode \ {i} : f.newest[j] = s.newest[j] /\ f.disk[j] = s.disk[j]
          /\ f.newest[i] = Node("FREE", 0)
      BY <1>3, <3>1 DEF With
    <3> QED BY <2>3, <3>2, <3>3
  <2> QED BY <2>2, <2>3
<1>5. /\ \A x \in INode \ {d} : t.dir[x] = f.dir[x]
      /\ t.dir[d] = Overwrite(s.dir[d], name, entry)
  BY <1>1, <1>4 DEF With
<1>6. /\ OnceEach(Overwrite(s.dir[d], name, entry))
      /\ \A n, j : j # Removed =>
           (Entry(Overwrite(s.dir[d], name, entry), n, j)
              <=> Entry(s.dir[d], n, j) /\ n # name)
  <2>1. entry \in Slot /\ entry.id = Removed
    BY Zenon DEF Slot, Key
  <2>2. s.dir[d] \in Seq(Slot) /\ OnceEach(s.dir[d])
    BY <1>3
  <2> HIDE DEF entry
  <2> QED BY <2>1, <2>2, OverwriteEntries
<1> HIDE DEF entry
<1>7. \A x \in INode : OnceEach(t.dir[x])
  <2>1. OnceEach(<<>>)
    BY DEF OnceEach
  <2> QED BY <1>4, <1>5, <1>6, <2>1
<1>8. \A n, j : ~Entry(<<>>, n, j)
  BY DEF Entry
<1>9. \A j \in INode : j # Removed
  BY PathAssumption, Zenon
<1>10. ASSUME NEW x \in INode, NEW j \in INode, NEW m \in Key
       PROVE  At(t, x, m, j) <=> /\ At(s, x, m, j)
                                 /\ ~(x = d /\ m = name)
                                 /\ x # i \/ i \in DOMAIN s.table
  <2>1. CASE x = d
    BY <1>5, <1>6, <1>9, <2>1 DEF At
  <2>2. CASE x = i
    BY <1>4, <1>5, <1>8, <2>2 DEF At
  <2>3. CASE x # d /\ x # i
    BY <1>4, <1>5, <2>3 DEF At
  <2> QED BY <2>1, <2>2, <2>3
<1>11. /\ Shed(s, t, i)
       /\ \A j \in INode \ {i} : t.newest[j] = s.newest[j] /\ t.disk[j] = s.disk[j]
  BY <1>1, <1>4 DEF Node, Shed
<1> QED BY <1>1, <1>2, <1>7, <1>10, <1>11 DEF t

\* The beginning of l2_unlink leaves all names; it takes a link from the inode
\* that l2_namei finds.
LEMMA UnlinkingNames ==
  ASSUME NEW s, Sound(s), NEW p, IsPath(p)
  PROVE  LET w == Unlinking(s, p)
         IN  /\ Keeps(s, w.s) /\ Sound(w.s) /\ w.s.dir = s.dir /\ w.s.open = s.open
             /\ w.d = Namei(s, Front(p)).id /\ w.id = Namei(s, p).id /\ w.id # Root
             /\ w.ok <=> /\ w.d \in INode /\ w.id \in INode
                         /\ s.newest[w.id].links # 0
             /\ w.ok => /\ w.s.newest = With(s.newest, w.id, Less(s.newest[w.id]))
                        /\ w.s.disk = With(s.disk, w.id, Less(s.newest[w.id]))
             /\ ~w.ok => w.s.newest = s.newest /\ w.s.disk = s.disk
<1> DEFINE d == Namei(s, Front(p))
           n == Namei(d.s, p)
           w == TakeLink(d.id, n)
<1>1. /\ p \in Seq(Key) /\ Len(p) \in 0 .. 2 /\ Len(p) > 0 /\ Len(p) \in Nat
      /\ Len(Front(p)) \in Nat
  <2>1. Len(p) \in 1 .. 2 /\ Len(Front(p)) = Len(p) - 1
    BY LeadsFront, PathAssumption, Zenon DEF IsPath
  <2>2. p \in Seq(Key)
    BY DEF IsPath
  <2>3. Len(p) \in 0 .. 2 /\ Len(p) > 0 /\ Len(p) \in Nat
    BY <2>1
  <2>4. Len(Front(p)) \in Nat
    BY <2>1
  <2> QED BY <2>2, <2>3, <2>4
<1>2. /\ Keeps(s, d.s) /\ Sound(d.s) /\ d.id \in Ids
      /\ d.s.dir = s.dir /\ d.s.open = s.open /\ d.s.newest = s.newest
      /\ d.s.disk = s.disk
  BY <1>1, NameiKeeps
<1> HIDE DEF d
<1>3. /\ Keeps(d.s, n.s) /\ Sound(n.s) /\ n.id \in Ids \ {Root}
      /\ n.s.dir = s.dir /\ n.s.open = s.open /\ n.s.newest = s.newest
      /\ n.s.disk = s.disk
  BY <1>1, <1>2, NameiKeeps
<1>4. n.id = Namei(s, p).id
  <2>1. EntryOf(d.s, p) = EntryOf(s, p)
    BY <1>2 DEF EntryOf
  <2>2. \A k \in EntryOf(s, p) : d.s.open[k].id = s.open[k].id
    BY <1>2
  <2> QED BY <1>1, <1>2, <2>1, <2>2, NameiSame
<1> HIDE DEF n
<1>5. /\ Keeps(n.s, w.s)
      /\ w.d = d.id /\ w.id = n.id
      /\ w.s.dir = n.s.dir /\ w.s.open = n.s.open
      /\ w.ok <=> /\ d.id \in INode /\ n.id \in INode
                  /\ n.s.newest[n.id].links # 0
      /\ w.ok => /\ w.s.newest = With(n.s.newest, n.id, Less(n.s.newest[n.id]))
                 /\ w.s.disk = With(n.s.disk, n.id, Less(n.s.newest[n.id]))
      /\ ~w.ok => w.s.newest = n.s.newest /\ w.s.disk = n.s.disk
  BY <1>2, <1>3, TakeLinkFields
<1>6. Unlinking(s, p) = w
  BY DEF Unlinking, d, n
<1> HIDE DEF w
<1>7. Keeps(s, n.s)
  BY <1>2, <1>3, KeepsTrans
<1>8. Keeps(s, w.s) /\ Sound(w.s)
  BY <1>5, <1>7, KeepsTrans DEF Keeps
<1> QED BY <1>3, <1>4, <1>5, <1>6, <1>8 DEF d

\* Taking the last link.
LEMMA LessFields ==
  ASSUME NEW node \in INodeType, node.links # 0
  PROVE  /\ Less(node).type = node.type /\ NodeOf(Less(node)) = NodeOf(node)
         /\ node.links = 1 => Less(node).links = 0
BY DEF Less, INodeType, NodeOf

\* A path has a first name.
LEMMA FirstName ==
  ASSUME NEW p, IsPath(p)
  PROVE  p \in Seq(Key) /\ p[1] \in Key
BY DEF IsPath

\* A path with one more name.
LEMMA AppendFields ==
  ASSUME NEW X, NEW p \in Seq(X), NEW x \in X
  PROVE  LET q == Append(p, x)
         IN  /\ q \in Seq(X) /\ Len(q) = Len(p) + 1
             /\ \A k \in 1 .. Len(p) : q[k] = p[k]
             /\ q[Len(p) + 1] = x
OBVIOUS

\* The path of an entry below a directory of the root.
LEMMA ChildPath ==
  ASSUME NEW p, IsPath(p), Len(p) = 1, NEW name \in Key
  PROVE  LET q == Append(p, name)
         IN  /\ IsPath(q) /\ Len(q) = 2 /\ q[1] = p[1] /\ q[2] = name
             /\ Front(q) = p /\ Last(q) = name /\ p[1] \in Key
<1>1. p \in Seq(Key) /\ p[1] \in Key
  BY FirstName
<1> DEFINE q == Append(p, name)
<1>2. /\ q \in Seq(Key) /\ Len(q) = Len(p) + 1
      /\ \A k \in 1 .. Len(p) : q[k] = p[k]
      /\ q[Len(p) + 1] = name
  BY <1>1, AppendFields
<1>3. Front(q) = p /\ Last(q) = name
  BY <1>1, AppendSeq
<1> HIDE DEF q
<1>4. Len(q) = 2 /\ q[1] = p[1] /\ q[2] = name
  <2>1. 1 \in 1 .. Len(p)
    OBVIOUS
  <2> QED BY <1>2, <2>1
<1> QED BY <1>1, <1>2, <1>3, <1>4 DEF IsPath, q

\* The file c that directory i had under a name has lost it, and its link.
ChildGone(s, t, i, name, c) ==
  /\ Keeps(s, t) /\ Sound(t) /\ t.open = s.open
  /\ DOMAIN t.table = DOMAIN s.table
  /\ \A x \in INode : OnceEach(t.dir[x])
  /\ \A x, j \in INode, m \in Key :
       At(t, x, m, j) <=> /\ At(s, x, m, j)
                          /\ ~(x = i /\ m = name)
                          /\ x # c \/ c \in DOMAIN s.table
  /\ \A j \in INode \ {c} : t.newest[j] = s.newest[j] /\ t.disk[j] = s.disk[j]
  /\ Shed(s, t, c)

\* What is in the directory that path p leads to goes under its own path.
LEMMA UnlinkChild ==
  ASSUME NEW u, Sound(u.s), \A x \in INode : OnceEach(u.s.dir[x]),
         NEW p, IsPath(p), Len(p) = 1, NEW name \in Key,
         NEW i \in INode \ {Root}, NEW c \in INode \ {Root, i},
         At(u.s, Root, p[1], i), At(u.s, i, name, c),
         u.s.newest[i].type = "DIRECTORY", u.s.newest[c].links = 1,
         \A k \in DOMAIN u.s.open : /\ u.s.open[k].path # p
                                    /\ u.s.open[k].path = Append(p, name)
                                         => u.s.open[k].id = c
  PROVE  LET v == UnlinkEntry(u, Append(p, name))
         IN  /\ v.ok
             /\ ChildGone(u.s, v.s, i, name, c)
<1> DEFINE s == u.s
           q == Append(p, name)
           w == Unlinking(s, q)
           t == Drop(w.s, w.d, Last(q), w.id)
<1>1. /\ Len(q) = 2 /\ IsPath(q)
      /\ q[1] = p[1] /\ q[2] = name /\ Front(q) = p /\ Last(q) = name
      /\ p[1] \in Key
  BY ChildPath
<1>2. Root \in INode /\ s.newest[Root].type = "DIRECTORY" /\ Sound(s)
  BY PathAssumption, Zenon DEF Sound, RootStays
<1> HIDE DEF q
<1>3. Namei(s, p).id = i
  <2>1. EntryOf(s, p) = {}
    BY DEF EntryOf
  <2>2. Walk(s, p).id = NextId(s, Root, p[1])
    <3> HIDE DEF s
    <3> QED BY <1>2, WalkIds
  <2>3. NextId(s, Root, p[1]) = i
    BY <1>2, NextIdAt
  <2> QED BY <2>1, <2>2, <2>3 DEF Namei
<1>4. Namei(s, q).id = c
  <2>1. CASE EntryOf(s, q) = {}
    <3>1. Walk(s, q).id = NextId(s, NextId(s, Root, q[1]), q[2])
      <4> HIDE DEF s
      <4> QED BY <1>1, <1>2, WalkIds
    <3>2. NextId(s, Root, q[1]) = i
      BY <1>1, <1>2, NextIdAt
    <3>3. NextId(s, i, q[2]) = c
      BY <1>1, NextIdAt
    <3> QED BY <2>1, <3>1, <3>2, <3>3 DEF Namei
  <2>2. CASE EntryOf(s, q) # {}
    <3>1. /\ Min(EntryOf(s, q)) \in DOMAIN s.open
          /\ s.open[Min(EntryOf(s, q))].path = q
      BY <2>2, EntryIn
    <3> QED BY <2>2, <3>1 DEF Namei, q
  <2> QED BY <2>1, <2>2
<1>5. /\ Keeps(s, w.s) /\ Sound(w.s) /\ w.s.dir = s.dir /\ w.s.open = s.open
      /\ w.d = i /\ w.id = c
      /\ w.ok <=> /\ w.d \in INode /\ w.id \in INode
                  /\ s.newest[w.id].links # 0
      /\ w.ok => /\ w.s.newest = With(s.newest, w.id, Less(s.newest[w.id]))
                 /\ w.s.disk = With(s.disk, w.id, Less(s.newest[w.id]))
  <2>1. /\ Keeps(s, w.s) /\ Sound(w.s) /\ w.s.dir = s.dir /\ w.s.open = s.open
        /\ w.d = Namei(s, Front(q)).id /\ w.id = Namei(s, q).id
        /\ w.ok <=> /\ w.d \in INode /\ w.id \in INode
                    /\ s.newest[w.id].links # 0
        /\ w.ok => /\ w.s.newest = With(s.newest, w.id, Less(s.newest[w.id]))
                   /\ w.s.disk = With(s.disk, w.id, Less(s.newest[w.id]))
    <3> HIDE DEF s
    <3> QED BY <1>1, <1>2, UnlinkingNames
  <2> HIDE DEF w, s
  <2> QED BY <1>1, <1>3, <1>4, <2>1
<1>6. /\ w.ok /\ w.s.newest = With(s.newest, c, Less(s.newest[c]))
      /\ w.s.disk = With(s.disk, c, Less(s.newest[c]))
  BY <1>5
<1>7. /\ s.newest \in [INode -> INodeType] /\ s.newest[c].links = 1
      /\ s.disk \in [INode -> INodeType]
  BY StatesFields DEF Sound
<1>8. Less(s.newest[c]).links = 0 /\ NodeOf(Less(s.newest[c])) = NodeOf(s.newest[c])
  BY <1>7, LessFields
<1>9. UnlinkEntry(u, q).ok /\ UnlinkEntry(u, q).s = t
  BY <1>6 DEF UnlinkEntry
<1>10. DOMAIN w.s.table = DOMAIN s.table
  BY <1>5 DEF Keeps, StaysOpen
<1> HIDE DEF w
<1>11. /\ \A j \in INode \ {c} : w.s.newest[j] = s.newest[j] /\ w.s.disk[j] = s.disk[j]
       /\ w.s.newest[c].links = 0 /\ NodeOf(w.s.newest[c]) = NodeOf(s.newest[c])
  BY <1>6, <1>7, <1>8 DEF With
<1>12. \A x \in INode : OnceEach(w.s.dir[x])
  BY <1>5
<1>13. /\ Keeps(w.s, t) /\ Sound(t) /\ t.open = w.s.open
       /\ DOMAIN t.table = DOMAIN w.s.table
       /\ \A x \in INode : OnceEach(t.dir[x])
       /\ \A x, j \in INode, m \in Key :
            At(t, x, m, j) <=> /\ At(w.s, x, m, j)
                               /\ ~(x = i /\ m = name)
                               /\ x # c \/ c \in DOMAIN w.s.table
       /\ \A j \in INode \ {c} : /\ t.newest[j] = w.s.newest[j]
                                 /\ t.disk[j] = w.s.disk[j]
       /\ Shed(w.s, t, c)
  <2>1. w.d = i /\ w.id = c /\ Last(q) = name
    BY <1>1, <1>5
  <2>2. Sound(w.s) /\ i # c
    BY <1>5
  <2> DEFINE z == Drop(w.s, i, name, c)
  <2>3. /\ Keeps(w.s, z) /\ Sound(z) /\ z.open = w.s.open
        /\ DOMAIN z.table = DOMAIN w.s.table
        /\ \A x \in INode : OnceEach(z.dir[x])
        /\ \A x, j \in INode, m \in Key :
             At(z, x, m, j) <=> /\ At(w.s, x, m, j)
                                /\ ~(x = i /\ m = name)
                                /\ x # c \/ c \in DOMAIN w.s.table
        /\ \A j \in INode \ {c} : /\ z.newest[j] = w.s.newest[j]
                                  /\ z.disk[j] = w.s.disk[j]
        /\ Shed(w.s, z, c)
    BY <1>11, <1>12, <2>2, DropNames
  <2>4. t = z
    BY <2>1
  <2> HIDE DEF z, t
  <2> QED BY <2>3, <2>4
<1> HIDE DEF t
<1>14. Keeps(s, t)
  BY <1>5, <1>13, KeepsTrans
<1>15. \A x, m, j : At(w.s, x, m, j) <=> At(s, x, m, j)
  BY <1>5 DEF At
<1>16. /\ t.open = s.open /\ DOMAIN t.table = DOMAIN s.table
       /\ \A x, j \in INode, m \in Key :
            At(t, x, m, j) <=> /\ At(s, x, m, j)
                               /\ ~(x = i /\ m = name)
                               /\ x # c \/ c \in DOMAIN s.table
       /\ \A j \in INode \ {c} : t.newest[j] = s.newest[j] /\ t.disk[j] = s.disk[j]
       /\ Shed(s, t, c)
  BY <1>5, <1>10, <1>11, <1>13, <1>15 DEF Shed
<1>17. ChildGone(s, t, i, name, c)
  BY <1>13, <1>14, <1>16 DEF ChildGone
<1> QED BY <1>9, <1>17 DEF q

\* The inodes in gone, and nothing else, have lost their entries and links; they
\* are FREE but for those that are open.
Lost(s, t, gone) ==
  /\ t.open = s.open /\ DOMAIN t.table = DOMAIN s.table
  /\ \A x \in INode : OnceEach(t.dir[x])
  /\ \A x, j \in INode, m \in Key : At(t, x, m, j) <=> At(s, x, m, j) /\ j \notin gone
  /\ \A j \in INode \ gone : t.newest[j] = s.newest[j] /\ t.disk[j] = s.disk[j]
  /\ \A j \in gone : Shed(s, t, j)

\* What the slots up to the n-th one lead to.
GoneBy(slots, n) == {j \in INode : \E k \in 1 .. n : slots[k].id = j}

\* l2_unlink of all that is below directory i, whose link was taken: w is that
\* state, s the one before.
LEMMA UnlinkBelow ==
  ASSUME NEW s, Sound(s), Named(s), OpenNamed(s),
         NEW p, IsPath(p), Len(p) = 1, NEW i \in INode \ {Root},
         At(s, Root, p[1], i), s.newest[i].type = "DIRECTORY",
         NEW w, Sound(w), w.dir = s.dir, w.open = s.open, DOMAIN w.table = DOMAIN s.table,
         \A j \in INode \ {i} : w.newest[j] = s.newest[j],
         w.newest[i].type = "DIRECTORY"
  PROVE  LET slots == EachOnce(s.dir[i])
             u     == UnlinkAll(w, p, slots)
         IN  /\ u.ok /\ Keeps(w, u.s) /\ Sound(u.s)
             /\ Lost(w, u.s, GoneBy(s.dir[i], Len(s.dir[i])))
<1> DEFINE slots == EachOnce(s.dir[i])
           dirs == s.dir[i]
           N == Len(dirs)
<1>1. /\ dirs \in Seq(Slot) /\ OnceEach(dirs)
      /\ N \in Nat /\ DOMAIN dirs = 1 .. N
      /\ \A k \in 1 .. N : dirs[k].key \in Key /\ dirs[k].id \in INode \union {Removed}
  <2>1. dirs \in Seq(Slot)
    BY StatesFields DEF Sound
  <2>2. \A slot \in Slot : slot.key \in Key /\ slot.id \in INode \union {Removed}
    BY Zenon DEF Slot, Key
  <2> QED BY <2>1, <2>2 DEF Named, OneEntry
<1>2. /\ DOMAIN slots = DOMAIN dirs
      /\ \A k \in DOMAIN dirs : slots[k].key = dirs[k].key /\ slots[k].id = dirs[k].id
  <2> HIDE DEF dirs
  <2> QED BY <1>1, EachOnceSame DEF dirs
<1>3. Len(slots) = N
  <2> SUFFICES ASSUME TRUE PROVE Len(slots) = N
    OBVIOUS
  <2> HIDE DEF dirs, N
  <2> QED BY <1>1, <1>2 DEF EachOnce, dirs
<1>4. PICK u : /\ IsRun(u, w, p, slots, N)
               /\ UnlinkAll(w, p, slots) = u[N]
  <2> HIDE DEF slots, N
  <2> QED BY <1>1, <1>3, RunIs
<1> HIDE DEF slots, dirs, N
<1>5. /\ u[0] = Start(w)
      /\ \A n \in 0 .. N - 1 : u[n + 1] = UnlinkSlot(u[n], p, slots[n + 1])
  <2>1. N \in Nat
    BY <1>1
  <2>2. u = [k \in 0 .. N |-> IF k = 0 THEN Start(w)
                             ELSE UnlinkSlot(u[k - 1], p, slots[k])]
    BY <1>4 DEF IsRun
  <2>3. ASSUME NEW n \in 0 .. N - 1
        PROVE  u[n + 1] = UnlinkSlot(u[n], p, slots[n + 1])
    <3>1. n + 1 \in 0 .. N /\ n + 1 # 0 /\ (n + 1) - 1 = n
      BY <2>1
    <3> QED BY <2>2, <3>1
  <2>4. u[0] = Start(w)
    BY <2>1, <2>2
  <2> QED BY <2>3, <2>4
<1>6. /\ Root \in INode /\ \A j \in INode : j # Removed
      /\ \A x \in INode, m \in Key : ~At(s, x, m, Root)
  BY PathAssumption, NotTheRoot, Zenon
<1>7. \A x, m, j : At(w, x, m, j) <=> At(s, x, m, j)
  BY DEF At
<1>8. \A x \in INode : OnceEach(w.dir[x])
  BY DEF Named, OneEntry
<1>9. p[1] \in Key
  BY FirstName
<1> DEFINE S == {n \in 0 .. N : /\ u[n].ok /\ Keeps(w, u[n].s)
                                /\ Lost(w, u[n].s, GoneBy(dirs, n))}
<1>10. 0 \in S
  <2>1. u[0].ok /\ u[0].s = w
    BY <1>5 DEF Start
  <2>2. GoneBy(dirs, 0) = {}
    BY DEF GoneBy
  <2>3. Lost(w, w, {})
    BY <1>8 DEF Lost
  <2>4. Keeps(w, w)
    BY KeepsSelf
  <2>5. Keeps(w, u[0].s) /\ Lost(w, u[0].s, GoneBy(dirs, 0)) /\ u[0].ok
    BY <2>1, <2>2, <2>3, <2>4
  <2> QED BY <1>1, <2>5
<1>11. ASSUME NEW n \in 0 .. N - 1, n \in S
       PROVE  n + 1 \in S
  <2> DEFINE v == u[n].s
             z == u[n + 1]
             c == dirs[n + 1].id
             name == dirs[n + 1].key
             g == GoneBy(dirs, n)
             h == GoneBy(dirs, n + 1)
  <2>1. /\ u[n].ok /\ Keeps(w, v) /\ Sound(v) /\ Lost(w, v, g)
        /\ z = UnlinkSlot(u[n], p, slots[n + 1])
        /\ n + 1 \in DOMAIN dirs /\ n + 1 \in 0 .. N
        /\ name \in Key /\ c \in INode \union {Removed}
        /\ slots[n + 1].key = name /\ slots[n + 1].id = c
    BY <1>1, <1>2, <1>5, <1>11 DEF Keeps
  <2>2. \A j \in INode : j \in h <=> j \in g \/ j = c
    BY <1>1 DEF GoneBy
  <2>3. CASE c = Removed
    <3>1. z = u[n]
      BY <2>1, <2>3 DEF UnlinkSlot
    <3>2. h = g
      BY <1>6, <2>2, <2>3 DEF GoneBy
    <3> HIDE DEF g, h
    <3> QED BY <1>11, <2>1, <3>1, <3>2 DEF h, g
  <2>4. CASE c # Removed
    <3>1. c \in INode /\ At(s, i, name, c)
      BY <2>1, <2>4 DEF At, Entry, dirs
    <3>2. c # Root /\ c # i
      <4>1. c # Root
        BY <1>6, <2>1, <3>1
      <4>2. c # i
        BY <1>6, <1>9, <2>1, <3>1 DEF Named, OneEntry
      <4> QED BY <4>1, <4>2
    <3>3. c \notin g
      <4> SUFFICES ASSUME NEW k \in 1 .. n, dirs[k].id = c PROVE FALSE
        BY DEF GoneBy
      <4>1. k \in DOMAIN dirs /\ dirs[k].key \in Key /\ k # n + 1
        BY <1>1, <2>1
      <4>2. At(s, i, dirs[k].key, c)
        BY <4>1 DEF At, Entry, dirs
      <4>3. dirs[k].key = name
        BY <2>1, <3>1, <4>1, <4>2 DEF Named, OneEntry
      <4> QED BY <1>1, <2>1, <2>4, <4>1, <4>3 DEF OnceEach
    <3>4. i \notin g
      <4> SUFFICES ASSUME NEW k \in 1 .. n, dirs[k].id = i PROVE FALSE
        BY DEF GoneBy
      <4>1. k \in DOMAIN dirs /\ dirs[k].key \in Key
        BY <1>1
      <4>2. At(s, i, dirs[k].key, i)
        BY <4>1 DEF At, Entry, dirs
      <4> QED BY <1>6, <1>9, <4>1, <4>2 DEF Named, OneEntry
    <3>5. s.newest[c].links = 1 /\ s.newest[c].type # "DIRECTORY"
      BY <2>1, <3>1, <3>2 DEF Named, EntriesInUse, OneLink
    <3>6. /\ At(v, Root, p[1], i) /\ At(v, i, name, c)
          /\ v.newest[i].type = "DIRECTORY" /\ v.newest[c].links = 1
      BY <1>6, <1>7, <1>9, <2>1, <3>1, <3>2, <3>3, <3>4, <3>5 DEF Lost
    <3> DEFINE q == Append(p, name)
    <3>7. /\ IsPath(q) /\ LeadsTo(s, q, c) /\ LeadsTo(s, p, i)
      <4>1. IsPath(q) /\ Len(q) = 2 /\ q[1] = p[1] /\ q[2] = name
        BY <2>1, ChildPath
      <4> HIDE DEF q, c, name
      <4> QED BY <3>1, <4>1 DEF LeadsTo
    <3> HIDE DEF q, c, name
    <3>8. ASSUME NEW k \in DOMAIN s.open
          PROVE  s.open[k].path # p /\ (s.open[k].path = q => s.open[k].id = c)
      <4> DEFINE o == s.open[k].id
      <4>1. o \in INode /\ s.newest[o].type = "REGULAR"
        BY <3>8, OpenPathIs
      <4>2. IF s.newest[o].links > 0
              THEN LeadsTo(s, s.open[k].path, o)
              ELSE \A j \in INode : ~LeadsTo(s, s.open[k].path, j)
        BY <3>8 DEF OpenNamed
      <4> HIDE DEF o
      <4>3. OneEntry(s)
        BY DEF Named
      <4>4. s.open[k].path # p
        <5> SUFFICES ASSUME s.open[k].path = p PROVE FALSE
          OBVIOUS
        <5>1. LeadsTo(s, p, o)
          BY <3>7, <4>2
        <5>2. o = i
          BY <3>7, <4>1, <4>3, <5>1, LeadsOne
        <5> QED BY <4>1, <5>2
      <4>5. s.open[k].path = q => o = c
        <5> SUFFICES ASSUME s.open[k].path = q PROVE o = c
          OBVIOUS
        <5>1. LeadsTo(s, q, o)
          BY <3>1, <3>7, <4>2
        <5> QED BY <3>1, <3>7, <4>1, <4>3, <5>1, LeadsOne
      <4> QED BY <4>4, <4>5 DEF o
    <3>9. v.open = s.open /\ DOMAIN v.table = DOMAIN w.table /\ \A x \in INode : OnceEach(v.dir[x])
      BY <2>1 DEF Lost
    <3>10. z = UnlinkEntry(u[n], q)
      BY <2>1, <2>4 DEF UnlinkSlot, q
    <3>11. z.ok /\ ChildGone(v, z.s, i, name, c)
      <4>1. c \in INode \ {Root, i}
        BY <3>1, <3>2
      <4>2. \A k \in DOMAIN v.open : /\ v.open[k].path # p
                                     /\ v.open[k].path = q => v.open[k].id = c
        BY <3>8, <3>9
      <4> DEFINE a == u[n]
                 b == UnlinkEntry(a, Append(p, name))
      <4>3. z = b
        BY <3>10 DEF q
      <4>4. /\ Sound(a.s) /\ \A x \in INode : OnceEach(a.s.dir[x])
            /\ At(a.s, Root, p[1], i) /\ At(a.s, i, name, c)
            /\ a.s.newest[i].type = "DIRECTORY" /\ a.s.newest[c].links = 1
        BY <2>1, <3>6, <3>9
      <4>8. \A k \in DOMAIN a.s.open :
              /\ a.s.open[k].path # p
              /\ a.s.open[k].path = Append(p, name) => a.s.open[k].id = c
        BY <4>2 DEF q
      <4>5. name \in Key
        BY <2>1
      <4> HIDE DEF a, z, v
      <4>6. b.ok /\ ChildGone(a.s, b.s, i, name, c)
        <5> HIDE DEF g, h
        <5> QED BY <4>1, <4>4, <4>5, <4>8, UnlinkChild
      <4>7. v = a.s
        BY DEF v, a
      <4> HIDE DEF b
      <4> QED BY <4>3, <4>6, <4>7
    <3> HIDE DEF z, v
    <3>18. /\ Keeps(v, z.s) /\ Sound(z.s) /\ z.s.open = v.open
           /\ DOMAIN z.s.table = DOMAIN v.table
           /\ \A x \in INode : OnceEach(z.s.dir[x])
           /\ \A x, j \in INode, m \in Key :
                At(z.s, x, m, j) <=> /\ At(v, x, m, j)
                                     /\ ~(x = i /\ m = name)
                                     /\ x # c \/ c \in DOMAIN v.table
           /\ \A j \in INode \ {c} : /\ z.s.newest[j] = v.newest[j]
                                     /\ z.s.disk[j] = v.disk[j]
           /\ Shed(v, z.s, c)
      BY <3>11 DEF ChildGone
    <3>12. Keeps(w, z.s)
      BY <2>1, <3>18, KeepsTrans
    <3>13. ASSUME NEW x \in INode, NEW j \in INode, NEW m \in Key
           PROVE  At(z.s, x, m, j) <=> At(w, x, m, j) /\ j \notin h
      <4>1. At(v, x, m, j) <=> At(w, x, m, j) /\ j \notin g
        BY <2>1 DEF Lost
      <4>2. At(w, x, m, j) => (x = i /\ m = name <=> j = c)
        BY <1>6, <1>7, <2>1, <3>1, AtOne DEF Named, OneEntry
      <4>3. At(w, x, m, j) => x # c
        BY <1>7, <3>5 DEF Named, EntriesInUse
      <4> QED BY <2>2, <3>18, <4>1, <4>2, <4>3
    <3>14. \A j \in INode \ h : /\ z.s.newest[j] = w.newest[j]
                                /\ z.s.disk[j] = w.disk[j]
      BY <2>1, <2>2, <3>18 DEF Lost
    <3>15. \A j \in h : Shed(w, z.s, j)
      <4>1. \A j \in h : j \in INode
        BY DEF GoneBy
      <4>2. v.newest[c] = w.newest[c]
        BY <2>1, <3>1, <3>3 DEF Lost
      <4> QED BY <2>1, <2>2, <3>9, <3>18, <4>1, <4>2 DEF Lost, Shed
    <3>16. z.s.open = w.open /\ DOMAIN z.s.table = DOMAIN w.table
      BY <3>9, <3>18
    <3>17. Lost(w, z.s, h)
      BY <3>18, <3>13, <3>14, <3>15, <3>16 DEF Lost
    <3> QED BY <2>1, <3>11, <3>18, <3>12, <3>17 DEF z
  <2> QED BY <2>3, <2>4
<1>12. \A n \in 0 .. N : n \in S
  <2> HIDE DEF S
  <2> QED BY <1>1, <1>10, <1>11, UpTo
<1>13. u[N].ok /\ Keeps(w, u[N].s) /\ Lost(w, u[N].s, GoneBy(dirs, N))
  BY <1>1, <1>12
<1> QED BY <1>4, <1>13 DEF Keeps, slots, dirs, N

\* l2_unlink of all that is below inode i, of either kind, whose link was taken.
LEMMA BelowLost ==
  ASSUME NEW s, Sound(s), Named(s), OpenNamed(s),
         NEW p, IsPath(p), NEW d \in INode, NEW i \in INode \ {Root},
         LeadsTo(s, Front(p), d), At(s, d, Last(p), i),
         NEW w, Sound(w), w.dir = s.dir, w.open = s.open, DOMAIN w.table = DOMAIN s.table,
         \A j \in INode \ {i} : w.newest[j] = s.newest[j],
         w.newest[i].type = s.newest[i].type
  PROVE  LET u == UnlinkAll(w, p, Below(w, i))
         IN  /\ u.ok /\ Keeps(w, u.s) /\ Sound(u.s)
             /\ \E below \in SUBSET INode :
                  /\ Lost(w, u.s, below)
                  /\ i \notin below /\ d \notin below /\ Root \notin below
                  /\ \A j \in INode : j \in below <=> \E m \in Key : At(s, i, m, j)
<1> DEFINE u == UnlinkAll(w, p, Below(w, i))
<1>1. InCore(w, i) = w.newest[i] /\ Root \in INode
  BY PathAssumption, Zenon DEF Sound
<1>2. /\ Last(p) \in Key /\ Front(p) \in Seq(Key) /\ Len(Front(p)) = Len(p) - 1
      /\ Last(p) = p[Len(p)]
      /\ Len(p) = 2 => Front(p)[1] = p[1] /\ p[1] \in Key
  BY LeadsFront
<1>3. d # i
  BY <1>2 DEF Named, EntriesInUse
<1>4. CASE s.newest[i].type # "DIRECTORY"
  <2>1. Below(w, i) = <<>>
    BY <1>1, <1>4 DEF Below
  <2>2. UnlinkAll(w, p, <<>>) = Start(w)
    <3>1. PICK v : /\ IsRun(v, w, p, <<>>, Len(<<>>))
                   /\ UnlinkAll(w, p, <<>>) = v[Len(<<>>)]
      <4>1. Len(<<>>) \in Nat
        OBVIOUS
      <4> QED BY <4>1, RunIs
    <3> QED BY <3>1 DEF IsRun
  <2>3. u.ok /\ u.s = w
    BY <2>1, <2>2 DEF Start
  <2> HIDE DEF u
  <2>4. Lost(w, w, {})
    BY DEF Lost, Named, OneEntry, At
  <2>5. \A j \in INode : j \in {} <=> \E m \in Key : At(s, i, m, j)
    BY <1>4 DEF Named, EntriesInUse
  <2>6. Keeps(w, u.s) /\ Sound(u.s)
    BY <2>3, KeepsSelf
  <2>7. Lost(w, u.s, {})
    BY <2>3, <2>4
  <2> QED BY <2>3, <2>5, <2>6, <2>7 DEF u
<1>5. CASE s.newest[i].type = "DIRECTORY"
  <2>1. d = Root
    BY <1>2, <1>5 DEF Named, EntriesInUse
  <2>2. Len(p) # 2
    <3> SUFFICES ASSUME Len(p) = 2 PROVE FALSE
      OBVIOUS
    <3>1. At(s, Root, p[1], Root)
      BY <1>2, <2>1 DEF LeadsTo
    <3> QED BY <1>1, <3>1, NotTheRoot
  <2>3. Len(p) = 1
    BY <2>2 DEF IsPath
  <2>4. At(s, Root, p[1], i)
    BY <1>2, <2>1, <2>3
  <2> DEFINE slots == s.dir[i]
             below == GoneBy(slots, Len(slots))
  <2>5. Below(w, i) = EachOnce(slots)
    BY <1>1, <1>5 DEF Below
  <2>6. u.ok /\ Keeps(w, u.s) /\ Sound(u.s) /\ Lost(w, u.s, below)
    <3>1. w.newest[i].type = "DIRECTORY"
      BY <1>5
    <3> HIDE DEF slots
    <3> QED BY <1>5, <2>3, <2>4, <2>5, <3>1, UnlinkBelow DEF slots
  <2> HIDE DEF u
  <2>7. \A j \in INode : j \in below <=> \E m \in Key : At(s, i, m, j)
    <3>1. slots \in Seq(Slot) /\ \A k \in DOMAIN slots : slots[k].key \in Key
      <4>1. slots \in Seq(Slot)
        BY StatesFields DEF Sound
      <4>2. \A slot \in Slot : slot.key \in Key
        BY Zenon DEF Slot, Key
      <4> HIDE DEF slots
      <4> QED BY <4>1, <4>2
    <3>2. DOMAIN slots = 1 .. Len(slots)
      BY <3>1
    <3>3. \A m, j : At(s, i, m, j) <=> Entry(slots, m, j)
      BY DEF At
    <3> HIDE DEF slots
    <3> QED BY <3>1, <3>2, <3>3 DEF GoneBy, Entry
  <2>8. below \in SUBSET INode
    BY DEF GoneBy
  <2> HIDE DEF below
  <2>9. i \notin below /\ Root \notin below
    <3>1. \A m \in Key : ~At(s, i, m, i)
      BY <1>2, <1>3 DEF Named, OneEntry
    <3>2. \A m \in Key : ~At(s, i, m, Root)
      BY NotTheRoot
    <3> QED BY <1>1, <2>7, <3>1, <3>2
  <2> QED BY <2>1, <2>6, <2>7, <2>8, <2>9 DEF u
<1> QED BY <1>4, <1>5

\* The inodes in gone are inode i, that path p leads to, and all below it.
Unlinked(s, t, p, i, gone) ==
  /\ Lost(s, t, gone)
  /\ LeadsTo(s, p, i) /\ i # Root /\ Root \notin gone
  /\ \A j \in INode : j \in gone <=> j = i \/ \E m \in Key : At(s, i, m, j)

\* The whole of l2_unlink: the inode that the path leads to is gone with all
\* that is below it.
LEMMA UnlinkGoes ==
  ASSUME NEW s, Sound(s), Named(s), OpenNamed(s), NEW p, IsPath(p), Unlinking(s, p).ok
  PROVE  LET w == Unlinking(s, p)
             u == UnlinkAll(w.s, p, Below(w.s, w.id))
             t == Drop(u.s, w.d, Last(p), w.id)
         IN  /\ u.ok /\ Keeps(s, t) /\ Sound(t) /\ Named(t) /\ OpenNamed(t)
             /\ NoneKept(s) => NoneKept(t)
             /\ \E gone \in SUBSET INode : Unlinked(s, t, p, w.id, gone)
<1> DEFINE w == Unlinking(s, p)
           d == w.d
           i == w.id
           name == Last(p)
           u == UnlinkAll(w.s, p, Below(w.s, i))
           t == Drop(u.s, d, name, i)
<1>1. /\ Keeps(s, w.s) /\ Sound(w.s) /\ w.s.dir = s.dir /\ w.s.open = s.open
      /\ d = Namei(s, Front(p)).id /\ i = Namei(s, p).id
      /\ d \in INode /\ i \in INode \ {Root} /\ s.newest[i].links # 0
      /\ w.s.newest = With(s.newest, i, Less(s.newest[i]))
      /\ w.s.disk = With(s.disk, i, Less(s.newest[i]))
  BY UnlinkingNames
<1>2. DOMAIN w.s.table = DOMAIN s.table /\ Root \in INode
  BY <1>1, PathAssumption, Zenon DEF Keeps, StaysOpen
<1> HIDE DEF w
<1>3. /\ s.newest \in [INode -> INodeType] /\ s.newest[i].links > 0
      /\ s.disk \in [INode -> INodeType]
  <2>1. s.newest \in [INode -> INodeType] /\ s.disk \in [INode -> INodeType]
    BY StatesFields DEF Sound
  <2>2. s.newest[i].links \in 0 .. 2
    BY <1>1, <2>1, NodeFields
  <2> QED BY <1>1, <2>1, <2>2
<1>4. s.newest[i].links = 1
  BY <1>1, <1>3 DEF Named, OneLink
<1>5. /\ \A j \in INode \ {i} : w.s.newest[j] = s.newest[j] /\ w.s.disk[j] = s.disk[j]
      /\ w.s.newest[i].links = 0 /\ w.s.newest[i].type = s.newest[i].type
      /\ NodeOf(w.s.newest[i]) = NodeOf(s.newest[i])
  <2>1. /\ Less(s.newest[i]).links = 0 /\ Less(s.newest[i]).type = s.newest[i].type
        /\ NodeOf(Less(s.newest[i])) = NodeOf(s.newest[i])
    BY <1>1, <1>3, <1>4, LessFields
  <2> QED BY <1>1, <1>3, <2>1 DEF With
<1>6. /\ name \in Key /\ Front(p) \in Seq(Key) /\ Len(Front(p)) \in 0 .. 2
      /\ p \in Seq(Key) /\ Len(p) \in 0 .. 2
  <2>1. Last(p) \in Key /\ Front(p) \in Seq(Key) /\ Len(Front(p)) = Len(p) - 1
    BY <1>2, LeadsFront
  <2>2. p \in Seq(Key) /\ Len(p) \in 1 .. 2
    BY DEF IsPath
  <2>3. Len(p) \in 0 .. 2 /\ Len(Front(p)) \in 0 .. 2
    BY <2>1, <2>2
  <2> QED BY <2>1, <2>2, <2>3
<1>7. LeadsTo(s, p, i)
  BY <1>1, <1>3, <1>6, NameiLeads
<1>8. LeadsTo(s, Front(p), d) /\ At(s, d, name, i)
  <2>1. PICK e \in INode : LeadsTo(s, Front(p), e) /\ At(s, e, Last(p), i)
    BY <1>1, <1>7, LeadsFront
  <2>2. Namei(s, Front(p)).id = e
    BY <1>6, <2>1, NameiLeads
  <2> QED BY <1>1, <2>1, <2>2
<1>9. d # i
  BY <1>1, <1>6, <1>8 DEF Named, EntriesInUse
<1> HIDE DEF d, i
<1>10. /\ u.ok /\ Keeps(w.s, u.s) /\ Sound(u.s)
       /\ \E below \in SUBSET INode :
            /\ Lost(w.s, u.s, below)
            /\ i \notin below /\ d \notin below /\ Root \notin below
            /\ \A j \in INode : j \in below <=> \E m \in Key : At(s, i, m, j)
  BY <1>1, <1>2, <1>5, <1>8, BelowLost DEF name
<1> HIDE DEF u
<1>11. PICK below \in SUBSET INode :
         /\ Lost(w.s, u.s, below)
         /\ i \notin below /\ d \notin below /\ Root \notin below
         /\ \A j \in INode : j \in below <=> \E m \in Key : At(s, i, m, j)
  BY <1>10
<1>12. /\ u.s.open = s.open /\ DOMAIN u.s.table = DOMAIN s.table
       /\ \A x \in INode : OnceEach(u.s.dir[x])
       /\ \A x, j \in INode, m \in Key :
            At(u.s, x, m, j) <=> At(s, x, m, j) /\ j \notin below
       /\ \A j \in INode \ below : /\ u.s.newest[j] = w.s.newest[j]
                                   /\ u.s.disk[j] = w.s.disk[j]
       /\ \A j \in below : Shed(w.s, u.s, j)
  <2>1. \A x, m, j : At(w.s, x, m, j) <=> At(s, x, m, j)
    BY <1>1 DEF At
  <2> QED BY <1>1, <1>2, <1>11, <2>1 DEF Lost
<1>13. /\ Keeps(u.s, t) /\ Sound(t) /\ t.open = u.s.open
       /\ DOMAIN t.table = DOMAIN u.s.table
       /\ \A x \in INode : OnceEach(t.dir[x])
       /\ \A x, j \in INode, m \in Key :
            At(t, x, m, j) <=> /\ At(u.s, x, m, j)
                               /\ ~(x = d /\ m = name)
                               /\ x # i \/ i \in DOMAIN u.s.table
       /\ \A j \in INode \ {i} : /\ t.newest[j] = u.s.newest[j]
                                 /\ t.disk[j] = u.s.disk[j]
       /\ Shed(u.s, t, i)
  <2>1. u.s.newest[i].links = 0
    BY <1>1, <1>5, <1>11, <1>12
  <2> HIDE DEF name
  <2> QED BY <1>1, <1>6, <1>9, <1>10, <1>12, <2>1, DropNames
<1> HIDE DEF t
<1> DEFINE gone == below \union {i}
<1>14. /\ gone \in SUBSET INode /\ Root \notin gone
       /\ \A j : j \in gone <=> j \in below \/ j = i
  BY <1>1, <1>11
<1> HIDE DEF gone, name
<1>15. ASSUME NEW x \in INode, NEW j \in INode, NEW n \in Key,
              At(s, x, n, j), x \in gone
       PROVE  j \in gone
  <2>1. CASE x = i
    BY <1>11, <1>14, <1>15, <2>1
  <2>2. CASE x \in below
    <3>1. PICK m \in Key : At(s, i, m, x)
      BY <1>11, <2>2
    <3> QED BY <1>1, <1>15, <3>1 DEF Named, EntriesInUse
  <2> QED BY <1>14, <1>15, <2>1, <2>2
<1>16. ASSUME NEW x \in INode, NEW j \in INode, NEW n \in Key
       PROVE  At(t, x, n, j) <=> At(s, x, n, j) /\ j \notin gone
  <2>1. At(s, x, n, j) => (x = d /\ n = name <=> j = i)
    BY <1>1, <1>6, <1>8, AtOne DEF Named, OneEntry
  <2>2. At(s, x, n, j) /\ x = i => j \in below
    BY <1>11
  <2> QED BY <1>12, <1>13, <1>14, <2>1, <2>2
<1>17. \A j \in INode \ gone : t.newest[j] = s.newest[j] /\ t.disk[j] = s.disk[j]
  BY <1>5, <1>12, <1>13, <1>14
<1>18. ASSUME NEW j \in gone
       PROVE  Shed(s, t, j)
  <2>1. CASE j = i
    <3>1. u.s.newest[i] = w.s.newest[i]
      BY <1>1, <1>11, <1>12
    <3> QED BY <1>5, <1>12, <1>13, <2>1, <3>1 DEF Shed
  <2>2. CASE j # i
    <3>1. j \in below /\ j \in INode
      BY <1>14, <1>18, <2>2
    <3>2. Shed(w.s, u.s, j) /\ t.newest[j] = u.s.newest[j] /\ w.s.newest[j] = s.newest[j]
      BY <1>5, <1>12, <1>13, <2>2, <3>1
    <3> QED BY <1>2, <3>2 DEF Shed
  <2> QED BY <2>1, <2>2
<1>19. t.open = s.open /\ DOMAIN t.table = DOMAIN s.table
  BY <1>12, <1>13
<1>23. /\ \A j \in INode \ gone : /\ t.newest[j].type = s.newest[j].type
                                  /\ t.newest[j].links = s.newest[j].links
       /\ \A j \in gone : /\ t.newest[j].links = 0
                          /\ t.newest[j].type = "FREE" \/ j \in DOMAIN s.table
  BY <1>17, <1>18 DEF Shed
<1>20. Named(t) /\ OpenNamed(t)
  BY <1>13, <1>14, <1>15, <1>16, <1>19, <1>23, UnlinkNamed
<1>21. NoneKept(s) => NoneKept(t)
  BY <1>19, <1>23 DEF NoneKept
<1>22. Keeps(s, t)
  <2>1. Keeps(s, u.s)
    BY <1>1, <1>10, KeepsTrans
  <2> QED BY <1>13, <2>1, KeepsTrans
<1>24. Unlinked(s, t, p, i, gone)
  <2>1. Lost(s, t, gone)
    BY <1>13, <1>16, <1>17, <1>18, <1>19 DEF Lost
  <2> QED BY <1>1, <1>7, <1>11, <1>14, <2>1 DEF Unlinked
<1> QED BY <1>10, <1>13, <1>14, <1>20, <1>21, <1>22, <1>24, Zenon DEF t, u, d, i, name, w

\* l2_unlink of a file, or of a directory with all that is in it.
LEMMA UnlinkSettles ==
  ASSUME Sound(State), Named(State), OpenNamed(State), odd' \subseteq Harmless,
         NEW p \in Path, Unlink(p)
  PROVE  \E t : /\ SettlesAt(t)
                /\ \/ AllSame(State, t)
                   \/ \E i \in INode, gone \in SUBSET INode : Unlinked(State, t, p, i, gone)
<1> DEFINE w == Unlinking(State, p)
           u == UnlinkAll(w.s, p, Below(w.s, w.id))
           t == Drop(u.s, w.d, Last(p), w.id)
<1>1. IsPath(p)
  BY PathIs
<1>2. \/ ~w.ok /\ Become(w.s)
      \/ w.ok /\ Become(IF u.ok THEN t ELSE u.s)
  BY DEF Unlink, Harmless
<1>3. CASE ~w.ok
  <2>1. Keeps(State, w.s) /\ w.s.dir = State.dir /\ w.s.open = State.open
        /\ w.s.newest = State.newest /\ w.s.disk = State.disk
    BY <1>1, <1>3, UnlinkingNames
  <2>2. Become(w.s)
    BY <1>2, <1>3
  <2> HIDE DEF w
  <2>3. SameNames(State, w.s) /\ SameOpen(State, w.s) /\ Sound(w.s)
    BY <2>1 DEF SameNames, SameOpen, Keeps, StaysOpen
  <2>4. AllSame(State, w.s)
    BY <2>1 DEF AllSame, Keeps, StaysOpen
  <2> QED BY <2>2, <2>3, <2>4, SameSettles
<1>4. CASE w.ok
  <2>1. /\ u.ok /\ Sound(t) /\ Named(t) /\ OpenNamed(t)
        /\ NoneKept(State) => NoneKept(t)
        /\ \E gone \in SUBSET INode : Unlinked(State, t, p, w.id, gone)
    BY <1>1, <1>4, UnlinkGoes
  <2>2. Become(t)
    BY <1>2, <1>4, <2>1
  <2>3. w.id \in INode
    BY <1>1, <1>4, UnlinkingNames
  <2> HIDE DEF t, w
  <2> QED BY <2>1, <2>2, <2>3 DEF SettlesAt
<1> QED BY <1>3, <1>4

\* A set of slots with no more than one member.
LEMMA AtMostOne ==
  ASSUME NEW N \in Nat, NEW S \in SUBSET (1 .. N), ~(Cardinality(S) > 1),
         NEW a \in S, NEW b \in S
  PROVE  a = b
<1> SUFFICES ASSUME a # b PROVE FALSE
  OBVIOUS
<1>1. IsFiniteSet(1 .. N)
  BY FS_Interval
<1>2. IsFiniteSet(S) /\ Cardinality(S) \in Nat
  BY <1>1, FS_Subset, FS_CardinalityType
<1>3. Cardinality({a}) = 1 /\ IsFiniteSet({a})
  BY FS_Singleton
<1>4. Cardinality({a} \union {b}) = 2
  BY <1>3, FS_AddElement
<1>5. Cardinality({a} \union {b}) <= Cardinality(S)
  BY <1>2, FS_Subset
<1> QED BY <1>2, <1>4, <1>5

\* The name that l2_rename takes is that of the inode its path leads to.
LEMMA TakenName ==
  ASSUME NEW s, Sound(s), Named(s), OpenNamed(s), NEW p \in Path,
         NEW d \in INode, Namei(s, Front(p)).id = d,
         LiveNamed(s.dir[d], Last(p)) # {},
         ~(Cardinality(SlotsNamed(s.dir[d], Last(p))) > 1),
         NEW i, i = s.dir[d][Max(SlotsNamed(s.dir[d], Last(p)))].id
  PROVE  /\ i \in INode /\ i # Root
         /\ LeadsTo(s, Front(p), d) /\ At(s, d, Last(p), i) /\ LeadsTo(s, p, i)
<1> DEFINE slots == s.dir[d]
           named == SlotsNamed(slots, Last(p))
           live  == LiveNamed(slots, Last(p))
<1>1. slots \in Seq(Slot) /\ live # {} /\ ~(Cardinality(named) > 1)
  BY StatesFields DEF Sound
<1>2. i = slots[Max(named)].id
  OBVIOUS
<1> HIDE DEF slots
<1>3. /\ named \subseteq 1 .. Len(slots) /\ Len(slots) \in Nat /\ live \subseteq named
      /\ DOMAIN slots = 1 .. Len(slots)
      /\ Min(live) \in live /\ slots[Min(live)].id \in INode
  BY <1>1, LiveSlots, Zenon
<1>4. Max(named) \in named
  <2> HIDE DEF named
  <2> QED BY <1>1, <1>3, MaxIn
<1>5. Max(named) = Min(live)
  <2> HIDE DEF named, live
  <2>1. Min(live) \in named
    BY <1>3
  <2> QED BY <1>1, <1>3, <1>4, <2>1, AtMostOne
<1>6. i \in INode /\ Min(live) \in DOMAIN slots /\ slots[Min(live)].key = Last(p)
      /\ slots[Min(live)].id = i
  BY <1>2, <1>3, <1>5 DEF LiveNamed, SlotsNamed
<1> HIDE DEF named, live
<1>7. At(s, d, Last(p), i)
  BY <1>6 DEF At, Entry, slots
<1>8. /\ p \in Seq(Key) /\ Len(p) \in 0 .. 2 /\ Len(p) \in Nat /\ IsPath(p)
      /\ Front(p) \in Seq(Key) /\ Len(Front(p)) \in 0 .. 2 /\ Len(Front(p)) \in Nat
      /\ Last(p) \in Key
  BY PathLengths
<1>9. i # Root /\ s.newest[d].type = "DIRECTORY"
  BY <1>6, <1>7, <1>8, NotTheRoot DEF Named, EntriesInUse
<1>10. LeadsTo(s, Front(p), d)
  BY <1>8, <1>9, NameiDirectory
<1>11. LeadsTo(s, p, i)
  BY <1>6, <1>7, <1>8, <1>10, LeadsFront
<1> QED BY <1>6, <1>7, <1>9, <1>10, <1>11

\* All names are as before, but that of inode i.
LEMMA ClearedNames ==
  ASSUME NEW s, Sound(s), OneEntry(s), NEW d \in INode, NEW name \in Key, NEW i \in INode,
         At(s, d, name, i), NEW t, t.dir = With(s.dir, d, Overwrite(s.dir[d], name, Cleared))
  PROVE  /\ \A x \in INode : OnceEach(t.dir[x])
         /\ \A x, j \in INode, m \in Key : At(t, x, m, j) <=> At(s, x, m, j) /\ j # i
<1>1. s.dir \in [INode -> Seq(Slot)]
  BY StatesFields DEF Sound
<1>2. /\ \A x \in INode \ {d} : t.dir[x] = s.dir[x]
      /\ t.dir[d] = Overwrite(s.dir[d], name, Cleared)
  BY <1>1 DEF With
<1>3. /\ OnceEach(Overwrite(s.dir[d], name, Cleared))
      /\ \A n, j : j # Removed =>
           (Entry(Overwrite(s.dir[d], name, Cleared), n, j)
              <=> Entry(s.dir[d], n, j) /\ n # name)
  <2>1. Cleared \in Slot /\ Cleared.id = Removed
    BY Zenon DEF Slot, Key, Cleared
  <2>2. s.dir[d] \in Seq(Slot) /\ OnceEach(s.dir[d])
    BY <1>1 DEF OneEntry
  <2> QED BY <2>1, <2>2, OverwriteEntries
<1>4. \A x \in INode : OnceEach(t.dir[x])
  BY <1>2, <1>3 DEF OneEntry
<1>5. \A j \in INode : j # Removed
  BY PathAssumption, Zenon
<1>6. ASSUME NEW x \in INode, NEW j \in INode, NEW m \in Key
      PROVE  At(t, x, m, j) <=> At(s, x, m, j) /\ j # i
  <2>1. At(t, x, m, j) <=> At(s, x, m, j) /\ ~(x = d /\ m = name)
    BY <1>2, <1>3, <1>5 DEF At
  <2>2. At(s, x, m, j) => (x = d /\ m = name <=> j = i)
    BY AtOne DEF OneEntry
  <2> QED BY <2>1, <2>2
<1> QED BY <1>4, <1>6

\* The new name of inode i.
LEMMA GivenName ==
  ASSUME NEW s, Sound(s), \A x \in INode : OnceEach(s.dir[x]),
         NEW e \in INode, NEW name \in Key, NEW i \in INode,
         \A j \in INode : ~At(s, e, name, j),
         NEW t, t.dir = With(s.dir, e, PutSlot(s.dir[e], [key |-> name, id |-> i]))
  PROVE  /\ \A x \in INode : OnceEach(t.dir[x])
         /\ \A x, j \in INode, m \in Key :
              At(t, x, m, j) <=> At(s, x, m, j) \/ (x = e /\ m = name /\ j = i)
<1> DEFINE entry == [key |-> name, id |-> i]
<1>1. s.dir \in [INode -> Seq(Slot)]
  BY StatesFields DEF Sound
<1>2. /\ \A x \in INode \ {e} : t.dir[x] = s.dir[x]
      /\ t.dir[e] = PutSlot(s.dir[e], entry)
  BY <1>1 DEF With
<1>3. /\ OnceEach(PutSlot(s.dir[e], entry))
      /\ \A m, j : j # Removed =>
           (Entry(PutSlot(s.dir[e], entry), m, j)
              <=> Entry(s.dir[e], m, j) \/ (m = name /\ j = i))
  <2>1. entry \in Slot /\ entry.id = i /\ entry.key = name /\ i # Removed
    BY PathAssumption, Zenon DEF entry, Slot, Key
  <2>2. \A j \in INode : ~Entry(s.dir[e], entry.key, j)
    BY <2>1 DEF At
  <2>3. s.dir[e] \in Seq(Slot) /\ OnceEach(s.dir[e]) /\ entry.id # Removed
    BY <1>1, <2>1
  <2> HIDE DEF entry
  <2> QED BY <2>1, <2>2, <2>3, PutSlotEntries
<1> HIDE DEF entry
<1>4. \A x \in INode : OnceEach(t.dir[x])
  BY <1>2, <1>3
<1>5. \A j \in INode : j # Removed
  BY PathAssumption, Zenon
<1>6. \A x, j \in INode, m \in Key :
        At(t, x, m, j) <=> At(s, x, m, j) \/ (x = e /\ m = name /\ j = i)
  BY <1>2, <1>3, <1>5 DEF At
<1> QED BY <1>4, <1>6

\* The new parent is found where it was before the old name was taken away.
LEMMA ParentStays ==
  ASSUME NEW s, Sound(s), Named(s), OpenNamed(s), NEW p \in Path, NEW q \in Path,
         Front(q) # p, NEW i \in INode, LeadsTo(s, p, i),
         NEW e \in INode, LeadsTo(s, Front(q), e), s.newest[e].type = "DIRECTORY",
         NEW t, Sound(t), t.newest = s.newest,
         \A x \in INode : OnceEach(t.dir[x]),
         \A x, j \in INode, m \in Key : At(t, x, m, j) <=> At(s, x, m, j) /\ j # i,
         DOMAIN t.open = DOMAIN s.open,
         \A k \in DOMAIN t.open : t.open[k].path \in {q, s.open[k].path}
  PROVE  Namei(t, Front(q)).id = e
<1> DEFINE f == Front(q)
<1>1. /\ f \in Seq(Key) /\ Len(f) = Len(q) - 1 /\ Len(q) \in 1 .. 2
      /\ Len(q) = 2 => f[1] = q[1] /\ q[1] \in Key
  BY PathFields
<1>2. IsPath(p) /\ Root \in INode /\ f # p /\ LeadsTo(s, f, e)
  BY PathIs, PathAssumption, Zenon
<1>3. f # q
  BY <1>1
<1> HIDE DEF f
<1>4. Len(f) = 0 \/ Len(f) = 1
  BY <1>1
<1>5. EntryOf(t, f) = {}
  <2> SUFFICES ASSUME NEW k \in DOMAIN t.open, t.open[k].path = f PROVE FALSE
    BY DEF EntryOf
  <2>1. s.open[k].path = f
    BY <1>3
  <2> DEFINE o == s.open[k].id
  <2>2. o \in INode /\ s.newest[o].type = "REGULAR" /\ IsPath(f)
    BY <2>1, OpenPathIs
  <2>3. IF s.newest[o].links > 0 THEN LeadsTo(s, f, o) ELSE \A j \in INode : ~LeadsTo(s, f, j)
    BY <2>1 DEF OpenNamed
  <2> HIDE DEF o
  <2>4. LeadsTo(s, f, o)
    BY <1>2, <2>3
  <2>5. o = e
    BY <1>2, <2>2, <2>4, LeadsOne DEF Named
  <2> QED BY <2>2, <2>5
<1>6. Walk(t, f).id = e
  <2>1. CASE Len(f) = 0
    <3>1. Walk(t, f).id = Root
      BY <2>1, WalkIds
    <3> QED BY <1>2, <2>1, <3>1 DEF LeadsTo
  <2>2. CASE Len(f) = 1
    <3>1. Walk(t, f).id = NextId(t, Root, f[1])
      BY <2>2, WalkIds
    <3>2. At(s, Root, f[1], e)
      BY <1>2, <2>2 DEF LeadsTo
    <3>3. IsPath(f)
      BY <1>1, <2>2 DEF IsPath
    <3>4. f[1] \in Key
      BY <1>1, <2>2
    <3>5. e # i
      BY <1>2, <3>3, PathOne DEF Named
    <3>6. At(t, Root, f[1], e)
      BY <1>2, <3>2, <3>4, <3>5
    <3>7. t.newest[Root].type = "DIRECTORY"
      BY DEF Sound, RootStays
    <3>8. NextId(t, Root, f[1]) = e
      BY <1>2, <3>6, <3>7, NextIdAt
    <3> QED BY <3>1, <3>8
  <2> QED BY <1>4, <2>1, <2>2
<1>7. Namei(t, f).id = e
  BY <1>5, <1>6 DEF Namei
<1> QED BY <1>7 DEF f

\* A path below another one has that as a prefix.
LEMMA BelowPrefix ==
  ASSUME NEW p \in Path, NEW r \in Path, Len(r) = 2, <<r[1]>> = p
  PROVE  IsStrictPrefix(p, r)
<1>1. p \in Seq(Key) /\ r \in Seq(Key) /\ Len(p) = 1 /\ p[1] = r[1]
  BY PathFields
<1>2. SubSeq(p, 1, 1) = SubSeq(r, 1, 1)
  BY <1>1
<1>3. p # r
  BY <1>1
<1> QED BY <1>1, <1>2, <1>3 DEF IsPrefix, IsStrictPrefix

\* Storing an inode as it is leaves it.
LEMMA SameWrite ==
  ASSUME NEW s, Sound(s), NEW i \in INode
  PROVE  LET t == WriteINode(s, i, InCore(s, i))
         IN  /\ Keeps(s, t) /\ Sound(t)
             /\ t.dir = s.dir /\ t.open = s.open /\ t.newest = s.newest
             /\ t.disk = With(s.disk, i, s.newest[i])
<1> DEFINE node == InCore(s, i)
           t == WriteINode(s, i, node)
<1>1. node = s.newest[i] /\ node \in INodeType /\ s.newest \in [INode -> INodeType]
  BY StatesFields DEF Sound
<1> HIDE DEF node
<1>2. node.links <= node.links
  BY <1>1, NodeFields
<1>3. MayStore(s, i, node)
  BY <1>1, <1>2 DEF MayStore, Sound, RootStays
<1>4. /\ Keeps(s, t) /\ t.dir = s.dir /\ t.open = s.open
      /\ t.newest = With(s.newest, i, node)
      /\ t.disk = With(s.disk, i, s.newest[i])
  BY <1>1, <1>3, WriteINodeFields
<1> HIDE DEF t
<1>5. t.newest = s.newest
  BY <1>1, <1>4 DEF With
<1> QED BY <1>4, <1>5 DEF t, node, Keeps

\* Inode i, that path p leads to, is moved to directory e, under the last name
\* of path q; if it is open, it is open under the new path.
MovedTo(s, t, p, q, i, e) ==
  /\ i # Root /\ LeadsTo(s, p, i)
  /\ LeadsTo(s, Front(q), e) /\ s.newest[e].type = "DIRECTORY"
  /\ p # q /\ Front(q) # p
  /\ Len(q) = 2 => s.newest[i].type # "DIRECTORY"
  /\ \A j \in INode : ~LeadsTo(s, q, j)
  /\ \A y, j \in INode, m \in Key :
       At(t, y, m, j) <=> (At(s, y, m, j) /\ j # i) \/ (y = e /\ m = Last(q) /\ j = i)
  /\ t.newest = s.newest /\ DOMAIN t.table = DOMAIN s.table
  /\ \A j \in INode : t.disk[j] = s.disk[j] \/ (j = e /\ t.disk[j] = s.newest[j])
  /\ DOMAIN t.open = DOMAIN s.open
  /\ \A k \in DOMAIN s.open :
       /\ t.open[k].id = s.open[k].id /\ t.open[k].ops = s.open[k].ops
       /\ t.open[k].path = IF s.open[k].path = p THEN q ELSE s.open[k].path
       /\ s.open[k].path # q
       /\ Len(s.open[k].path) = 2 => <<s.open[k].path[1]>> # p

\* l2_rename moves the inode.
LEMMA RenameSettles ==
  ASSUME Sound(State), Named(State), OpenNamed(State), odd' \subseteq Harmless,
         NEW p \in Path, NEW q \in Path, Rename(p, q)
  PROVE  \E t, i, e : /\ SettlesAt(t) /\ i \in INode /\ e \in INode
                      /\ MovedTo(State, t, p, q, i, e)
<1> DEFINE s == State
           x  == TakeName(p, q)
           i  == x.id
           d  == Namei(s, Front(p)).id
           n  == Namei(x.s, Front(q))
           e  == n.id
           s2 == ReadINode(n.s, {e})
           entry == [key |-> Last(q), id |-> i]
           s3 == PutEntry(s2, e, entry)
           s4 == WriteINode(s3, e, InCore(s3, e))
           w  == Walk(s, Front(q))
<1>1. /\ Become(s4) /\ MayRename(p, q)
      /\ ~x.many /\ ~Found(Namei(s, q).id)
      /\ \A k \in DOMAIN open : /\ ~IsStrictPrefix(p, open[k].path)
                                /\ ~IsStrictPrefix(q, open[k].path)
  BY DEF Rename, Harmless
<1>2. /\ ~IsPrefix(p, q) /\ ~IsPrefix(q, p) /\ Listed(s, p)
      /\ Found(w.id) /\ InCore(w.s, w.id).type = "DIRECTORY"
      /\ Len(q) > 1 => InCore(s, Walk(s, p).id).type # "DIRECTORY"
  BY <1>1 DEF MayRename
<1>3. /\ Keeps(s, x.s) /\ Sound(x.s) /\ d \in INode
      /\ x.s.dir = With(s.dir, d, Overwrite(s.dir[d], Last(p), Cleared))
      /\ x.s.newest = s.newest /\ x.s.disk = s.disk
      /\ x.s.open = MovePath(s, p, q).open
      /\ i = s.dir[d][Max(SlotsNamed(s.dir[d], Last(p)))].id
      /\ x.many <=> Cardinality(SlotsNamed(s.dir[d], Last(p))) > 1
  <2>1. s.dir = dir /\ s.newest = newest /\ s.disk = disk
    BY DEF State
  <2> HIDE DEF x
  <2> QED BY <1>2, <2>1, TakeNameFields DEF x
<1>4. /\ LiveNamed(s.dir[d], Last(p)) # {}
      /\ ~(Cardinality(SlotsNamed(s.dir[d], Last(p))) > 1)
  BY <1>1, <1>2, <1>3 DEF Listed
<1>5. e \in INode
  BY <1>1, RenameParent
<1>6. /\ Sound(s) /\ Named(s) /\ OpenNamed(s) /\ s.open = open
  BY DEF State
<1>7. /\ p \in Seq(Key) /\ Len(p) \in 0 .. 2 /\ Len(p) \in Nat /\ IsPath(p)
      /\ Last(p) \in Key
      /\ q \in Seq(Key) /\ Len(q) \in 0 .. 2 /\ Len(q) \in Nat /\ IsPath(q)
      /\ Front(q) \in Seq(Key) /\ Len(Front(q)) \in 0 .. 2 /\ Len(Front(q)) \in Nat
      /\ Last(q) \in Key
  BY PathLengths
<1>8. p # q /\ Front(q) # p
  BY <1>2, PrefixPaths
<1> HIDE DEF s
<1>9. /\ ReadTo(s, w.s) /\ Sound(w.s) /\ w.id \in INode /\ LeadsTo(s, Front(q), w.id)
      /\ s.newest[w.id].type = "DIRECTORY"
  <2>1. \A k \in 1 .. Len(Front(q)) : Front(q)[k] \in Key
    BY <1>7
  <2>2. w.id \in INode /\ LeadsTo(s, Front(q), w.id)
    BY <1>2, <1>6, <1>7, <2>1, WalkLeads
  <2>3. ReadTo(s, w.s)
    BY <1>6, <1>7, WalkReads
  <2> HIDE DEF w
  <2>4. Sound(w.s)
    BY <1>6, <2>3, ReadKeeps DEF Keeps
  <2>5. InCore(w.s, w.id) = w.s.newest[w.id] /\ w.s.newest = s.newest
    BY <2>2, <2>3, <2>4 DEF Sound, ReadTo
  <2> QED BY <1>2, <2>2, <2>3, <2>4, <2>5
<1>10. /\ i \in INode /\ i # Root
       /\ LeadsTo(s, Front(p), d) /\ At(s, d, Last(p), i) /\ LeadsTo(s, p, i)
  <2> HIDE DEF x, d
  <2> QED BY <1>3, <1>4, <1>6, TakenName DEF d
<1>11. Len(q) = 2 => s.newest[i].type # "DIRECTORY"
  <2>1. \A k \in 1 .. Len(p) : p[k] \in Key
    BY <1>7
  <2>2. Walk(s, p).id = i
    BY <1>6, <1>7, <1>10, <2>1, WalkLeads
  <2>3. InCore(s, i) = s.newest[i]
    BY <1>6, <1>10 DEF Sound
  <2> QED BY <1>2, <2>2, <2>3
<1>12. /\ \A j \in INode : ~LeadsTo(s, q, j)
       /\ \A k \in DOMAIN s.open : s.open[k].path # q
  <2>1. \A j \in INode : Found(j)
    BY PathAssumption, Zenon DEF Found
  <2> QED BY <1>1, <1>6, <1>7, <2>1, NameiLeads
<1>13. \A k \in DOMAIN s.open :
         Len(s.open[k].path) = 2 => <<s.open[k].path[1]>> # p /\ <<s.open[k].path[1]>> # q
  BY <1>1, <1>6, OpenPathIs, BelowPrefix
<1>14. /\ DOMAIN x.s.open = DOMAIN s.open
       /\ \A k \in DOMAIN s.open :
            /\ x.s.open[k].id = s.open[k].id /\ x.s.open[k].ops = s.open[k].ops
            /\ x.s.open[k].path = IF s.open[k].path = p THEN q ELSE s.open[k].path
  <2> DEFINE m == MovePath(s, p, q)
  <2>1. /\ DOMAIN m.open = DOMAIN s.open
        /\ \A k \in DOMAIN s.open :
             /\ m.open[k].id = s.open[k].id /\ m.open[k].ops = s.open[k].ops
             /\ m.open[k].path = IF EntryOf(s, p) # {} /\ k = Min(EntryOf(s, p))
                                   THEN q ELSE s.open[k].path
    BY <1>6, MovePathFields
  <2>2. ASSUME NEW k \in DOMAIN s.open
        PROVE  (EntryOf(s, p) # {} /\ k = Min(EntryOf(s, p))) <=> s.open[k].path = p
    <3>1. s.open[k].path = p => EntryOf(s, p) # {}
      BY <2>2 DEF EntryOf
    <3>2. EntryOf(s, p) # {} => /\ Min(EntryOf(s, p)) \in DOMAIN s.open
                                /\ s.open[Min(EntryOf(s, p))].path = p
      BY <1>6, EntryIn
    <3> QED BY <1>6, <2>2, <3>1, <3>2 DEF OpenNamed
  <2> HIDE DEF m, x
  <2> QED BY <1>3, <2>1, <2>2 DEF m
<1>15. /\ \A y \in INode : OnceEach(x.s.dir[y])
       /\ \A y, j \in INode, m \in Key : At(x.s, y, m, j) <=> At(s, y, m, j) /\ j # i
  <2> HIDE DEF x, d, i
  <2> QED BY <1>3, <1>6, <1>7, <1>10, ClearedNames DEF Named
<1>16. w.id = e
  <2>1. \A k \in DOMAIN x.s.open : x.s.open[k].path \in {q, s.open[k].path}
    BY <1>14
  <2> DEFINE o == w.id
             t == x.s
  <2>2. /\ o \in INode /\ LeadsTo(s, Front(q), o) /\ s.newest[o].type = "DIRECTORY"
    BY <1>9
  <2>3. Sound(t) /\ t.newest = s.newest /\ DOMAIN t.open = DOMAIN s.open
    BY <1>3, <1>14
  <2>4. \A y \in INode : OnceEach(t.dir[y])
    BY <1>15
  <2>5. \A y, j \in INode, m \in Key : At(t, y, m, j) <=> At(s, y, m, j) /\ j # i
    BY <1>15
  <2>6. \A k \in DOMAIN t.open : t.open[k].path \in {q, s.open[k].path}
    BY <2>1
  <2>7. e = Namei(t, Front(q)).id
    OBVIOUS
  <2> HIDE DEF x, w, i, e, o, t
  <2>8. Namei(t, Front(q)).id = o
    BY <1>6, <1>8, <1>10, <2>2, <2>3, <2>4, <2>5, <2>6, ParentStays
  <2> QED BY <2>7, <2>8 DEF o
<1>17. /\ LeadsTo(s, Front(q), e) /\ s.newest[e].type = "DIRECTORY"
       /\ s.newest[e].links > 0
  <2>1. LeadsTo(s, Front(q), e) /\ s.newest[e].type = "DIRECTORY"
    BY <1>9, <1>16
  <2> HIDE DEF e
  <2> QED BY <1>5, <1>6, <1>7, <2>1, LeadsInUse
<1> HIDE DEF w
<1>18. \A j \in INode : ~At(s, e, Last(q), j)
  <2> HIDE DEF e
  <2> QED BY <1>5, <1>7, <1>12, <1>17, LeadsFront
<1>19. /\ Keeps(x.s, n.s) /\ Sound(n.s)
       /\ n.s.dir = x.s.dir /\ n.s.newest = x.s.newest /\ n.s.open = x.s.open
       /\ n.s.disk = x.s.disk
  <2> HIDE DEF x
  <2> QED BY <1>3, <1>7, NameiKeeps
<1>20. /\ Keeps(n.s, s2) /\ Sound(s2)
       /\ s2.dir = x.s.dir /\ s2.newest = x.s.newest /\ s2.open = x.s.open
       /\ s2.disk = x.s.disk
  <2>1. n.s \in States
    BY <1>19 DEF Sound
  <2>2. ReadTo(n.s, s2)
    <3> HIDE DEF n
    <3> QED BY <1>5, <2>1, ReadINodeReads
  <2> HIDE DEF n, s2, x
  <2> QED BY <1>19, <2>2, ReadKeeps DEF Keeps, ReadTo
<1>21. /\ Keeps(s2, s3) /\ Sound(s3)
       /\ s3.dir = With(x.s.dir, e, PutSlot(x.s.dir[e], entry))
       /\ s3.newest = x.s.newest /\ s3.open = x.s.open /\ s3.disk = x.s.disk
  <2>1. entry \in Slot /\ entry.id # Root
    <3> HIDE DEF i
    <3> QED BY <1>7, <1>10, Zenon DEF Slot, Key
  <2> HIDE DEF e, s2, entry, x
  <2>2. /\ Keeps(s2, s3)
        /\ s3.dir = With(s2.dir, e, PutSlot(s2.dir[e], entry))
        /\ s3.newest = s2.newest /\ s3.open = s2.open /\ s3.disk = s2.disk
    BY <1>5, <1>20, <2>1, PutEntryFields
  <2> HIDE DEF s3
  <2> QED BY <1>20, <2>2 DEF Keeps
<1>22. /\ Keeps(s3, s4) /\ Sound(s4)
       /\ s4.dir = s3.dir /\ s4.newest = s.newest /\ s4.open = x.s.open
       /\ s4.disk = With(s.disk, e, s.newest[e])
  <2> HIDE DEF s3, e, x
  <2> QED BY <1>3, <1>5, <1>21, SameWrite
<1>23. Keeps(s, s4)
  <2> HIDE DEF x, n, s2, s3, s4
  <2>1. Keeps(s, n.s)
    BY <1>3, <1>6, <1>19, KeepsTrans
  <2>2. Keeps(s, s2)
    BY <1>6, <1>20, <2>1, KeepsTrans
  <2>3. Keeps(s, s3)
    BY <1>6, <1>21, <2>2, KeepsTrans
  <2> QED BY <1>6, <1>22, <2>3, KeepsTrans
<1> HIDE DEF s4
<1>24. s4.dir = With(x.s.dir, e, PutSlot(x.s.dir[e], [key |-> Last(q), id |-> i]))
  BY <1>21, <1>22
<1> HIDE DEF s3, s2, n, e, x, i, entry, d
<1>25. \A j \in INode : ~At(x.s, e, Last(q), j)
  BY <1>5, <1>7, <1>15, <1>18 DEF e
<1>26. e \in INode
  BY <1>5 DEF e
<1>27. /\ \A y \in INode : OnceEach(s4.dir[y])
       /\ \A y, j \in INode, m \in Key :
            At(s4, y, m, j) <=> At(x.s, y, m, j) \/ (y = e /\ m = Last(q) /\ j = i)
  BY <1>3, <1>7, <1>10, <1>15, <1>24, <1>25, <1>26, GivenName
<1>28. \A y, j \in INode, m \in Key :
         At(s4, y, m, j) <=> (At(s, y, m, j) /\ j # i) \/ (y = e /\ m = Last(q) /\ j = i)
  BY <1>15, <1>27
<1>32. \A y \in INode : OnceEach(s4.dir[y])
  BY <1>27
<1>33. Front(q) # p /\ p # q /\ IsPath(p) /\ IsPath(q)
  BY <1>7, <1>8
<1>34. /\ LeadsTo(s, Front(q), e)
       /\ s.newest[e].type = "DIRECTORY" /\ s.newest[e].links > 0
       /\ \A j \in INode : ~At(s, e, Last(q), j)
  BY <1>17, <1>18
<1>29. /\ \A j \in INode : /\ s4.newest[j].type = s.newest[j].type
                           /\ s4.newest[j].links = s.newest[j].links
       /\ DOMAIN s4.open = DOMAIN s.open
       /\ \A k \in DOMAIN s.open :
            /\ s4.open[k].id = s.open[k].id
            /\ s4.open[k].path = IF s.open[k].path = p THEN q ELSE s.open[k].path
            /\ s.open[k].path # q
            /\ Len(s.open[k].path) = 2 => /\ <<s.open[k].path[1]>> # p
                                          /\ <<s.open[k].path[1]>> # q
  BY <1>12, <1>13, <1>14, <1>22
<1>30. Named(s4) /\ OpenNamed(s4)
  BY SMTT(60), <1>6, <1>10, <1>11, <1>26, <1>28, <1>29, <1>32, <1>33, <1>34, MoveNamed
<1>31. NoneKept(s) => NoneKept(s4)
  BY <1>22, <1>23 DEF NoneKept, Keeps, StaysOpen
<1>35. SettlesAt(s4)
  BY <1>1, <1>22, <1>30, <1>31 DEF SettlesAt, s, s4, s3, s2, n, e, x, i, entry
<1>36. \A j \in INode : s4.disk[j] = s.disk[j] \/ (j = e /\ s4.disk[j] = s.newest[j])
  <2>1. s.disk \in [INode -> INodeType]
    BY <1>6, StatesFields DEF Sound
  <2> QED BY <1>22, <1>26, <2>1 DEF With
<1>37. DOMAIN s4.table = DOMAIN s.table
  BY <1>23 DEF Keeps, StaysOpen
<1>38. \A k \in DOMAIN s.open : s4.open[k].ops = s.open[k].ops
  BY <1>14, <1>22
<1>39. MovedTo(s, s4, p, q, i, e)
  BY <1>10, <1>11, <1>12, <1>22, <1>28, <1>29, <1>33, <1>34, <1>36, <1>37, <1>38 DEF MovedTo
<1> HIDE DEF s
<1>40. \E t, j, f : SettlesAt(t) /\ j \in INode /\ f \in INode /\ MovedTo(s, t, p, q, j, f)
  BY <1>10, <1>26, <1>35, <1>39
<1> QED BY <1>40 DEF s

\* l2_open does not end the process, and opens the file that the path leads to.
LEMMA OpenSettles ==
  ASSUME Sound(State), Named(State), OpenNamed(State), NEW p \in Path, NEW op \in Op,
         Open(p, op)
  PROVE  LET i == Namei(State, p).id
         IN  /\ i \in INode /\ State.newest[i].type = "REGULAR"
             /\ \E t : /\ SettlesAt(t) /\ Opened(State, t, p, i)
                       /\ OneMore(State, t, p, i, op)
<1> DEFINE s == State
           i == Namei(s, p).id
<1>1. /\ i \in INode /\ s.newest[i].type = "REGULAR"
      /\ \/ Abort /\ EntryOf(s, p) = {} /\ i \in DOMAIN s.table
         \/ \E t : /\ Moves(s, t) /\ Become(t) /\ Opened(s, t, p, i)
                   /\ OneMore(s, t, p, i, op)
  BY OpenMoves
<1>2. /\ p \in Seq(Key) /\ Len(p) \in 0 .. 2 /\ IsPath(p)
      /\ \A k \in 1 .. Len(p) : p[k] \in Key
  BY PathLengths
<1>3. Sound(s) /\ Named(s) /\ OpenNamed(s) /\ OneEntry(s) /\ OpenAgree(s)
  BY DEF Named, Sound
<1>4. EntryOf(s, p) = {} => i = Walk(s, p).id
  BY DEF Namei
<1> HIDE DEF s, i
<1>5. EntryOf(s, p) = {} => /\ LeadsTo(s, p, i)
                            /\ \A k \in DOMAIN s.open : s.open[k].path # p
  <2>1. EntryOf(s, p) = {} => LeadsTo(s, p, i)
    BY <1>1, <1>2, <1>3, <1>4, WalkLeads
  <2> QED BY <2>1 DEF EntryOf
<1>6. ~(EntryOf(s, p) = {} /\ i \in DOMAIN s.table)
  <2> SUFFICES ASSUME EntryOf(s, p) = {}, i \in DOMAIN s.table PROVE FALSE
    OBVIOUS
  <2>1. PICK k \in DOMAIN s.open : s.open[k].id = i
    BY <1>3 DEF OpenAgree
  <2>2. LeadsTo(s, p, i) /\ s.open[k].path # p
    BY <1>5
  <2>3. s.newest[i].links > 0
    BY <1>1, <1>2, <1>3, <2>2, LeadsInUse
  <2>4. LeadsTo(s, s.open[k].path, i)
    BY <1>3, <2>1, <2>3 DEF OpenNamed
  <2>5. IsPath(s.open[k].path)
    BY <1>3, OpenPathIs
  <2> QED BY <1>1, <1>2, <1>3, <2>2, <2>4, <2>5, PathOne
<1>7. PICK t : Moves(s, t) /\ Become(t) /\ Opened(s, t, p, i) /\ OneMore(s, t, p, i, op)
  BY <1>1, <1>6
<1>8. Sound(t) /\ SameNames(s, t) /\ OpenAgree(t)
  BY <1>7 DEF Moves, Opened, SameNames, Sound
<1>9. Named(t)
  BY <1>3, <1>8, SameNamed
<1>10. OpenNamed(t)
  <2>1. CASE EntryOf(s, p) # {}
    <3>1. SameOpen(s, t)
      BY <1>7, <2>1 DEF Opened, SameOpen
    <3> QED BY <1>3, <1>8, <3>1, SameOpenNamed
  <2>2. CASE EntryOf(s, p) = {}
    <3>1. PICK j \in DOMAIN t.open : /\ t.open[j].path = p /\ t.open[j].id = i
                                     /\ \A l \in DOMAIN t.open \ {j} : Among(t, l, s)
      BY <1>7 DEF Opened
    <3>2. \A l \in DOMAIN t.open \ {j} :
            \E k \in DOMAIN s.open : /\ t.open[l].path = s.open[k].path
                                     /\ t.open[l].id = s.open[k].id
      BY <3>1 DEF Among
    <3>3. \A l, m \in DOMAIN t.open : t.open[l].id = t.open[m].id => l = m
      BY <1>8 DEF OpenAgree
    <3> QED BY <1>1, <1>2, <1>3, <1>5, <1>8, <2>2, <3>1, <3>2, <3>3, OpenNewNamed
  <2> QED BY <2>1, <2>2
<1>11. NoneKept(s) => NoneKept(t)
  BY <1>7 DEF NoneKept, Opened
<1>12. SettlesAt(t)
  BY <1>7, <1>8, <1>9, <1>10, <1>11 DEF SettlesAt, s
<1> QED BY <1>1, <1>7, <1>12 DEF s, i

\* l2_close frees nothing but a file that was unlinked.
LEMMA CloseSettles ==
  ASSUME Sound(State), Named(State), OpenNamed(State), NEW p \in Path, NEW op \in Op,
         Close(p, op)
  PROVE  \E t, i : SettlesAt(t) /\ Closed(State, t, i) /\ OneLess(State, t, p, i, op)
<1> DEFINE s == State
<1>1. PICK t, i : Moves(s, t) /\ Become(t) /\ Closed(s, t, i) /\ OneLess(s, t, p, i, op)
  BY CloseMoves
<1>2. Sound(s) /\ Named(s) /\ OpenNamed(s)
  OBVIOUS
<1> HIDE DEF s
<1>3. /\ Sound(t) /\ i \in INode /\ s.newest[i].type = "REGULAR"
      /\ \A j \in INode \ {i} : t.newest[j] = s.newest[j]
      /\ \/ t.newest = s.newest /\ t.dir = s.dir
         \/ /\ s.newest[i].links = 0 /\ t.newest[i] = Node("FREE", 0)
            /\ t.dir = With(s.dir, i, <<>>)
      /\ \A l \in DOMAIN t.open :
           \E k \in DOMAIN s.open : /\ t.open[l].path = s.open[k].path
                                    /\ t.open[l].id = s.open[k].id
  BY <1>1 DEF Moves, Closed, Among
<1>4. Named(t) /\ OpenNamed(t)
  BY <1>2, <1>3, CloseNamed
<1>5. NoneKept(s) => NoneKept(t)
  <2> SUFFICES ASSUME NoneKept(s), NEW j \in INode
               PROVE  \/ t.newest[j].type = "FREE" \/ t.newest[j].links > 0
                      \/ j \in DOMAIN t.table
    BY DEF NoneKept
  <2>1. CASE j # i
    <3>1. t.newest[j] = s.newest[j] /\ (j \in DOMAIN s.table => j \in DOMAIN t.table)
      BY <1>1, <2>1 DEF Closed
    <3> QED BY <3>1 DEF NoneKept
  <2>2. CASE j = i
    <3>1. CASE s.newest[i].links # 0 /\ t.newest = s.newest
      <4>1. s.newest[i] \in INodeType
        BY <1>2, <1>3, StatesFields DEF Sound
      <4>2. s.newest[i].links > 0
        BY <3>1, <4>1, NodeFields
      <4> QED BY <2>2, <3>1, <4>2
    <3>2. CASE t.newest[i] = Node("FREE", 0)
      BY <2>2, <3>2 DEF Node
    <3>3. CASE i \in DOMAIN t.table
      BY <2>2, <3>3
    <3> QED BY <1>1, <3>1, <3>2, <3>3 DEF Closed
  <2> QED BY <2>1, <2>2
<1>6. SettlesAt(t)
  BY <1>1, <1>3, <1>4, <1>5 DEF SettlesAt, s
<1> QED BY <1>1, <1>6 DEF s

-----------------------------------------------------------------------------
(* The invariant of the names.                                               *)

\* The inductive invariant: the names are in order as long as none of the
\* circumstances that put them out of order has occurred.
NamesInOrder ==
  odd \subseteq Harmless => ~aborted /\ Named(State) /\ OpenNamed(State)

NoneKeptYet == odd \subseteq {"write_failed"} => NoneKept(State)

NInv == IInv /\ NamesInOrder /\ NoneKeptYet

\* A call that leaves the names in order has the invariant.
LEMMA SettlesInv ==
  ASSUME NInv, odd \subseteq odd',
         odd' \subseteq Harmless /\ Named(State) /\ OpenNamed(State) => Settles
  PROVE  NamesInOrder' /\ NoneKeptYet'
<1>1. ASSUME odd' \subseteq Harmless
      PROVE  /\ NamesInOrder'
             /\ NoneKept(State) => NoneKept(State)'
  <2>1. Named(State) /\ OpenNamed(State)
    BY <1>1 DEF NInv, NamesInOrder
  <2>2. PICK t : SettlesAt(t)
    BY <1>1, <2>1 DEF Settles
  <2>3. State' = t /\ aborted' = FALSE
    <3>1. State' = t
      BY <2>2, BecomeState DEF SettlesAt, Sound
    <3> QED BY <2>2, <3>1 DEF SettlesAt, Become
  <2>4. Named(State)' /\ OpenNamed(State)'
    BY <2>2, <2>3 DEF SettlesAt
  <2>5. NoneKept(State) => NoneKept(State)'
    BY <2>2, <2>3 DEF SettlesAt
  <2>6. NamesInOrder'
    BY <2>3, <2>4 DEF NamesInOrder
  <2> QED BY <2>5, <2>6
<1>2. CASE odd' \subseteq Harmless
  <2>1. odd' \subseteq {"write_failed"} => NoneKept(State)
    BY DEF NInv, NoneKeptYet
  <2> QED BY <1>1, <1>2, <2>1 DEF NoneKeptYet
<1>3. CASE ~(odd' \subseteq Harmless)
  BY <1>3 DEF NamesInOrder, NoneKeptYet, Harmless
<1> QED BY <1>2, <1>3

\* So has a step that changes nothing.
LEMMA SameNamesInv ==
  ASSUME NInv, UNCHANGED vars
  PROVE  NamesInOrder' /\ NoneKeptYet'
<1>1. State' = State /\ aborted' = aborted /\ odd' = odd
  BY DEF State, vars
<1> QED BY <1>1 DEF NInv, NamesInOrder, NoneKeptYet

\* The file system l2_mkfs makes has no names.
LEMMA InitNames ==
  ASSUME Init
  PROVE  NInv
<1> DEFINE node(i) == IF i = Root THEN Node("DIRECTORY", 2) ELSE Node("FREE", 0)
<1>1. /\ State.dir = dir /\ State.open = open /\ State.newest = newest
  BY DEF State
<1>2. /\ dir = [i \in INode |-> <<>>] /\ newest = [i \in INode |-> node(i)]
      /\ open = <<>> /\ aborted = FALSE
  BY DEF Init
<1>3. Root \in INode
  BY PathAssumption, Zenon
<1>4. /\ newest[Root].links = 2 /\ newest[Root].type = "DIRECTORY"
      /\ \A i \in INode \ {Root} : newest[i].links = 0 /\ newest[i].type = "FREE"
  BY <1>2, <1>3 DEF Node
<1>5. \A d \in INode : DOMAIN State.dir[d] = {}
  BY <1>1, <1>2
<1>6. \A d \in INode : \A n, i : ~At(State, d, n, i)
  BY <1>5 DEF At, Entry
<1>7. OneEntry(State)
  BY <1>5, <1>6 DEF OneEntry, OnceEach
<1>8. EntriesInUse(State)
  BY <1>6 DEF EntriesInUse
<1>9. AllEntered(State)
  BY <1>1, <1>4 DEF AllEntered
<1>10. OneLink(State)
  BY <1>1, <1>3, <1>4 DEF OneLink
<1>11. OpenNamed(State)
  <2>1. DOMAIN State.open = {}
    BY <1>1, <1>2
  <2> QED BY <2>1 DEF OpenNamed
<1>12. NoneKept(State)
  BY <1>1, <1>3, <1>4 DEF NoneKept
<1>13. Named(State)
  BY <1>7, <1>8, <1>9, <1>10 DEF Named
<1>14. NamesInOrder
  BY <1>2, <1>11, <1>13 DEF NamesInOrder
<1>15. NoneKeptYet
  BY <1>12 DEF NoneKeptYet
<1> QED BY <1>14, <1>15, InitInv DEF NInv

\* A remount loses no name, since on disk an inode differs in its contents at
\* most; what was unlinked while it was open is kept for ever only when the
\* process ended with files open.
LEMMA MountNames ==
  ASSUME NInv, ~aborted, Mount
  PROVE  NamesInOrder' /\ NoneKeptYet'
<1>1. /\ State.dir = dir /\ State.disk = disk /\ State.newest = newest
      /\ State.open = open /\ State.table = table
  BY DEF State
<1>2. /\ State'.dir = dir /\ State'.newest = disk /\ State'.open = <<>>
      /\ aborted' = aborted
      /\ odd' = (odd \ {"write_failed"}) \union (IF open = <<>> THEN {} ELSE {"died_open"})
  BY DEF Mount, StartOver, State
<1>3. Sound(State)
  BY DEF NInv, IInv
<1>4. SameNames(State, State')
  BY <1>1, <1>2, <1>3 DEF SameNames, Sound
<1>5. ASSUME odd' \subseteq Harmless
      PROVE  NamesInOrder'
  <2>1. odd \subseteq Harmless
    BY <1>2, <1>5 DEF Harmless
  <2>2. Named(State) /\ ~aborted
    BY <2>1 DEF NInv, NamesInOrder
  <2>3. Named(State')
    BY <1>4, <2>2, SameNamed
  <2>4. DOMAIN State'.open = {}
    BY <1>2
  <2>5. OpenNamed(State')
    BY <2>4 DEF OpenNamed
  <2> QED BY <1>2, <2>2, <2>3, <2>5 DEF NamesInOrder
<1>6. ASSUME odd' \subseteq {"write_failed"}
      PROVE  NoneKeptYet'
  <2>1. open = <<>> /\ odd \subseteq {"write_failed"}
    BY <1>2, <1>6
  <2>2. NoneKept(State)
    BY <2>1 DEF NInv, NoneKeptYet
  <2>3. DOMAIN State.table = {}
    <3>1. DOMAIN State.open = {}
      BY <1>1, <2>1
    <3> QED BY <1>3, <3>1 DEF Sound, OpenAgree
  <2>4. NoneKept(State')
    BY <1>4, <2>2, <2>3 DEF NoneKept, SameNames
  <2> QED BY <2>4 DEF NoneKeptYet
<1> QED BY <1>5, <1>6 DEF NamesInOrder, NoneKeptYet

\* Every step has the invariant, or ends what the module follows.
LEMMA NextNames ==
  ASSUME NInv, [Next]_vars
  PROVE  NInv' \/ Ended'
<1> SUFFICES ASSUME ~Ended'
             PROVE  NInv'
  OBVIOUS
<1>1. IInv'
  BY NextInv, SameInv DEF NInv, vars
<1>2. Sound(State)
  BY DEF NInv, IInv
<1>3. CASE UNCHANGED vars
  BY <1>1, <1>3, SameNamesInv DEF NInv
<1>4. ASSUME NEW p \in Path, GetAttr(p)
      PROVE  NInv'
  <2>1. odd' = odd
    BY <1>4 DEF GetAttr
  <2> QED BY <1>1, <1>2, <1>4, <2>1, GetAttrSettles, SettlesInv DEF NInv, Settles
<1>5. ASSUME NEW p \in Path, NEW i \in INode, NEW type \in {"REGULAR", "DIRECTORY"},
             type = "DIRECTORY" => Len(p) = 1, Create(p, type, i)
      PROVE  NInv'
  <2>1. odd \subseteq odd'
    BY <1>5 DEF Create
  <2>2. odd' \subseteq Harmless /\ Named(State) /\ OpenNamed(State) => Settles
    BY <1>2, <1>5, CreateSettles DEF Settles
  <2> QED BY <1>1, <2>1, <2>2, SettlesInv DEF NInv
<1>6. ASSUME NEW p \in Path, Unlink(p)
      PROVE  NInv'
  <2>1. odd \subseteq odd'
    BY <1>6 DEF Unlink
  <2>2. odd' \subseteq Harmless /\ Named(State) /\ OpenNamed(State) => Settles
    BY <1>2, <1>6, UnlinkSettles DEF Settles
  <2> QED BY <1>1, <2>1, <2>2, SettlesInv DEF NInv
<1>7. ASSUME NEW p \in Path, NEW q \in Path, Rename(p, q)
      PROVE  NInv'
  <2>1. odd \subseteq odd'
    BY <1>7 DEF Rename
  <2>2. odd' \subseteq Harmless /\ Named(State) /\ OpenNamed(State) => Settles
    BY <1>2, <1>7, RenameSettles DEF Settles
  <2> QED BY <1>1, <2>1, <2>2, SettlesInv DEF NInv
<1>8. ASSUME NEW p \in Path, NEW op \in Op, Open(p, op)
      PROVE  NInv'
  <2>1. odd' = odd
    BY <1>8 DEF Open, Abort
  <2> QED BY <1>1, <1>2, <1>8, <2>1, OpenSettles, SettlesInv DEF NInv, Settles
<1>9. ASSUME NEW p \in Path, NEW op \in Op, Close(p, op)
      PROVE  NInv'
  <2>1. odd' = odd
    BY <1>9 DEF Close, Abort
  <2> QED BY <1>1, <1>2, <1>9, <2>1, CloseSettles, SettlesInv DEF NInv, Settles
<1>10. ASSUME NEW p \in Path, NEW room \in BOOLEAN, Write(p, room)
      PROVE  NInv'
  <2>1. odd \subseteq odd'
    BY <1>10 DEF Write
  <2> QED BY <1>1, <1>2, <1>10, <2>1, WriteSettles, SettlesInv DEF NInv, Settles
<1>11. ASSUME NEW p \in Path, Read(p)
      PROVE  NInv'
  <2>1. odd' = odd
    BY <1>11 DEF Read
  <2> QED BY <1>1, <1>2, <1>11, <2>1, ReadCallSettles, SettlesInv DEF NInv, Settles
<1>12. ASSUME NEW p \in Path, Chmod(p)
      PROVE  NInv'
  <2>1. odd' = odd
    BY <1>12 DEF Chmod
  <2> QED BY <1>1, <1>2, <1>12, <2>1, ChmodSettles, SettlesInv DEF NInv, Settles
<1>13. ASSUME ~aborted, Mount
      PROVE  NInv'
  BY <1>1, <1>13, MountNames DEF NInv
<1>14. /\ ~MountWipes
       /\ \A p \in Path, op \in Op : ~CloseRunsOn(p, op)
  BY MountWipesEnds, CloseRunsOnEnds DEF NInv
<1>15. ASSUME Next
      PROVE  NInv'
  <2>1. "REGULAR" # "DIRECTORY" /\ {"REGULAR", "DIRECTORY"} = {"REGULAR", "DIRECTORY"}
    OBVIOUS
  <2> QED BY <1>4, <1>5, <1>6, <1>7, <1>8, <1>9, <1>10, <1>11, <1>12, <1>13, <1>14, <1>15,
             <2>1 DEF Next
<1> QED BY <1>3, <1>15

-----------------------------------------------------------------------------
(* What it says.                                                             *)

\* The slots that lead to an inode.
LEMMA SlotsToIs ==
  ASSUME NEW i \in INode
  PROVE  \A x : x \in SlotsTo(i) <=>
           \E d \in INode : \E k \in DOMAIN dir[d] : x = <<d, k>> /\ dir[d][k].id = i
BY DEF SlotsTo

\* With harmless oddities alone there is no end.
LEMMA NotEnded ==
  ASSUME odd \subseteq Harmless
  PROVE  ~Ended
BY DEF Ended, Followed, Harmless, Fatal

\* It says that the directories are a tree.
LEMMA InvTree ==
  ASSUME NInv \/ Ended
  PROVE  Tree
<1> SUFFICES ASSUME odd \subseteq Harmless, NEW i \in INode \ {Root}
             PROVE  /\ InUse(i) <=> SlotsTo(i) # {}
                    /\ \A x \in SlotsTo(i) :
                         /\ SlotsTo(i) = {x}
                         /\ InUse(x[1]) /\ InCore(State, x[1]).type = "DIRECTORY"
                         /\ LiveNamed(dir[x[1]], dir[x[1]][x[2]].key) = {x[2]}
  BY DEF Tree, TreeWith
<1>1. Named(State) /\ Sound(State)
  BY NotEnded DEF NInv, NamesInOrder, IInv
<1>2. State.dir = dir /\ \A d \in INode : dir[d] \in Seq(Slot)
  BY <1>1, StatesFields DEF State, Sound
<1>3. \A j \in INode : InCore(State, j) = State.newest[j]
  BY <1>1 DEF Sound
<1>4. \A j \in INode : j # Removed
  BY PathAssumption, Zenon
<1>5. ASSUME NEW d \in INode, NEW k \in DOMAIN dir[d]
      PROVE  dir[d][k].key \in Key /\ dir[d][k].id \in INode \union {Removed}
  BY <1>2, <1>5, LiveSlots, Zenon DEF Key
<1>6. \A d \in INode : \A n : At(State, d, n, i) <=>
        \E k \in DOMAIN dir[d] : dir[d][k].key = n /\ dir[d][k].id = i
  BY <1>2 DEF At, Entry
<1>7. InUse(i) <=> SlotsTo(i) # {}
  <2>1. ASSUME InUse(i) PROVE SlotsTo(i) # {}
    <3>1. State.newest[i].links > 0
      BY <1>3, <2>1 DEF InUse
    <3>2. PICK d \in INode, n \in Key : At(State, d, n, i)
      BY <1>1, <3>1 DEF Named, AllEntered
    <3>3. PICK k \in DOMAIN dir[d] : dir[d][k].id = i
      BY <1>6, <3>2
    <3>4. <<d, k>> \in SlotsTo(i)
      BY <3>3, SlotsToIs
    <3> QED BY <3>4
  <2>2. ASSUME SlotsTo(i) # {} PROVE InUse(i)
    <3>1. PICK d \in INode : \E k \in DOMAIN dir[d] : dir[d][k].id = i
      BY <2>2, SlotsToIs
    <3>2. PICK k \in DOMAIN dir[d] : dir[d][k].id = i
      BY <3>1
    <3>3. At(State, d, dir[d][k].key, i) /\ dir[d][k].key \in Key
      BY <1>5, <1>6, <3>2
    <3>4. State.newest[i].links > 0
      BY <1>1, <3>3 DEF Named, EntriesInUse
    <3> QED BY <1>3, <3>4 DEF InUse
  <2> QED BY <2>1, <2>2
<1>8. ASSUME NEW x \in SlotsTo(i)
      PROVE  /\ SlotsTo(i) = {x}
             /\ InUse(x[1]) /\ InCore(State, x[1]).type = "DIRECTORY"
             /\ LiveNamed(dir[x[1]], dir[x[1]][x[2]].key) = {x[2]}
  <2>1. PICK d \in INode : \E k \in DOMAIN dir[d] : x = <<d, k>> /\ dir[d][k].id = i
    BY <1>8, SlotsToIs
  <2>2. PICK k \in DOMAIN dir[d] : x = <<d, k>> /\ dir[d][k].id = i
    BY <2>1
  <2>3. x[1] = d /\ x[2] = k
    BY <2>2
  <2> DEFINE n == dir[d][k].key
  <2>4. n \in Key /\ At(State, d, n, i)
    BY <1>5, <1>6, <2>2
  <2>5. OnceEach(dir[d])
    BY <1>1, <1>2 DEF Named, OneEntry
  <2>6. ASSUME NEW y \in SlotsTo(i)
        PROVE  y = x
    <3>1. PICK e \in INode : \E l \in DOMAIN dir[e] : y = <<e, l>> /\ dir[e][l].id = i
      BY <2>6, SlotsToIs
    <3>2. PICK l \in DOMAIN dir[e] : y = <<e, l>> /\ dir[e][l].id = i
      BY <3>1
    <3>3. dir[e][l].key \in Key /\ At(State, e, dir[e][l].key, i)
      BY <1>5, <1>6, <3>2
    <3>4. e = d /\ dir[e][l].key = n
      BY <1>1, <2>4, <3>3 DEF Named, OneEntry
    <3>5. l = k
      BY <1>4, <2>2, <2>5, <3>2, <3>4 DEF OnceEach
    <3> QED BY <2>2, <3>2, <3>4, <3>5
  <2>7. State.newest[d].type = "DIRECTORY" /\ State.newest[d].links > 0
    BY <1>1, <2>4 DEF Named, EntriesInUse
  <2>8. InUse(d) /\ InCore(State, d).type = "DIRECTORY"
    BY <1>3, <2>7 DEF InUse
  <2>9. LiveNamed(dir[d], n) = {k}
    BY <1>4, <2>2, <2>5 DEF LiveNamed, SlotsNamed, OnceEach
  <2> QED BY <1>8, <2>3, <2>6, <2>8, <2>9
<1> QED BY <1>7, <1>8

\* It says that a lookup in the open file table is right.
LEMMA InvAgree ==
  ASSUME NInv \/ Ended
  PROVE  OpenFilesAgree
<1> SUFFICES ASSUME odd \subseteq Harmless
             PROVE
    /\ ~aborted
    /\ \A k, l \in DOMAIN open :
         open[k].path = open[l].path \/ open[k].id = open[l].id => k = l
    /\ DOMAIN table = {open[k].id : k \in DOMAIN open}
    /\ \A k \in DOMAIN open :
         /\ table[open[k].id].ref = Count(open[k].ops)
         /\ Found(Walk(State, open[k].path).id) <=> InUse(open[k].id)
         /\ InUse(open[k].id) => Walk(State, open[k].path).id = open[k].id
  BY DEF OpenFilesAgree, OpenFilesAgreeWith
<1>1. Named(State) /\ OpenNamed(State) /\ Sound(State) /\ ~aborted
  BY NotEnded DEF NInv, NamesInOrder, IInv
<1>2. State.open = open /\ State.table = table
  BY DEF State
<1>3. \A k, l \in DOMAIN open :
        open[k].path = open[l].path \/ open[k].id = open[l].id => k = l
  BY <1>1, <1>2 DEF OpenNamed, Sound, OpenAgree
<1>4. DOMAIN table = {open[k].id : k \in DOMAIN open}
  <2>1. /\ \A k \in DOMAIN open : open[k].id \in DOMAIN table
        /\ \A i \in DOMAIN table : \E k \in DOMAIN open : open[k].id = i
    BY <1>1, <1>2 DEF Sound, OpenAgree
  <2> QED BY <2>1
<1>5. ASSUME NEW k \in DOMAIN open
      PROVE  /\ table[open[k].id].ref = Count(open[k].ops)
             /\ Found(Walk(State, open[k].path).id) <=> InUse(open[k].id)
             /\ InUse(open[k].id) => Walk(State, open[k].path).id = open[k].id
  <2> DEFINE p == open[k].path
             i == open[k].id
             w == Walk(State, p).id
  <2>1. k \in DOMAIN State.open
    BY <1>2, <1>5
  <2>2. p \in Path /\ i \in INode
    BY <1>1, <1>2, <2>1, OpenPathIs
  <2>3. table[i].ref = Count(open[k].ops)
    BY <1>1, <1>2, <2>1 DEF Sound, OpenAgree
  <2>4. Len(p) \in 0 .. 2 /\ \A n \in 1 .. Len(p) : p[n] \in Key
    <3>1. p \in Seq(Key) /\ Len(p) \in 0 .. 2
      BY <2>2, PathLengths
    <3> QED BY <3>1
  <2>5. /\ \A j \in INode : w = j <=> LeadsTo(State, p, j)
        /\ Found(w) => w \in INode
    <3> HIDE DEF p
    <3> QED BY <1>1, <2>4, WalkLeads
  <2>6. InUse(i) <=> State.newest[i].links > 0
    BY <1>1, <2>2 DEF InUse, Sound
  <2>7. IF State.newest[i].links > 0 THEN LeadsTo(State, p, i)
        ELSE \A j \in INode : ~LeadsTo(State, p, j)
    BY <1>1, <1>2, <2>1 DEF OpenNamed
  <2>8. \A j \in INode : Found(j)
    BY PathAssumption, Zenon DEF Found
  <2> HIDE DEF p, i, w
  <2>9. /\ Found(w) <=> InUse(i)
        /\ InUse(i) => w = i
    BY <2>2, <2>5, <2>6, <2>7, <2>8
  <2> QED BY <2>3, <2>9 DEF p, i, w
<1> QED BY <1>1, <1>3, <1>4, <1>5

\* It says that nothing is kept without need.
LEMMA InvFreed ==
  ASSUME NInv \/ Ended
  PROVE  Freed
<1>1. ASSUME odd \subseteq {"write_failed"}, NEW i \in INode
      PROVE  InCore(State, i).type = "FREE" \/ InUse(i) \/ i \in DOMAIN table
  <2>1. NInv
    BY <1>1, NotEnded DEF Harmless
  <2>2. NoneKept(State) /\ Sound(State) /\ State.table = table
    BY <1>1, <2>1 DEF NInv, NoneKeptYet, IInv, State
  <2>3. InCore(State, i) = State.newest[i]
    BY <2>2 DEF Sound
  <2> QED BY <2>2, <2>3 DEF NoneKept, InUse
<1> QED BY <1>1 DEF Freed, FreedWith

-----------------------------------------------------------------------------
\* The invariant of the names holds throughout.
LEMMA SpecNames == Spec => [](NInv \/ Ended)
<1>1. (NInv \/ Ended) /\ [Next]_vars => NInv' \/ Ended'
  <2>1. Ended => ~Next
    BY DEF Ended, Next
  <2>2. Ended /\ UNCHANGED vars => Ended'
    BY DEF Ended, TypeOK, Followed, vars
  <2> QED BY <2>1, <2>2, NextNames
<1>2. Init => NInv
  BY InitNames
<1> QED BY <1>1, <1>2, PTL DEF Spec

\* Whatever is created, unlinked, renamed, opened and closed, the directories
\* are a tree in which every inode with a link has one name: l2_mknod, l2_mkdir,
\* l2_unlink and l2_rename change both the slots and the link counts, in several
\* writes, so long as none of the circumstances in Oddities has occurred but the
\* harmless ones; an unmount that zeroes the last block of a full disk is one
\* that is not.
THEOREM TreeKept == Spec => []Tree
BY InvTree, SpecNames, PTL

\* The assertions of l2_open and l2_close hold, and the open file table, which
\* l2_namei asks before it walks the directories, says what the directories
\* say, through every create, unlink and rename.
THEOREM OpenAgrees == Spec => []OpenFilesAgree
BY InvAgree, SpecNames, PTL

\* Every inode that l2_unlink takes the last link of is freed, then or by the
\* last l2_close of it.
THEOREM AllFreed == Spec => []Freed
BY InvFreed, SpecNames, PTL
=============================================================================
