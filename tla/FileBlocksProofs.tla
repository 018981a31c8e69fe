--------------------------- MODULE FileBlocksProofs ---------------------------
(***************************************************************************)
(* Proofs about FileBlocks, for any number of files and blocks, any number *)
(* of direct blocks and of entries in an index block.  First, no block is  *)
(* in two places, in what the inodes in core lead to and in what those on  *)
(* disk do, and none of these blocks is free.  From this, what each call   *)
(* does to the places of the files: a store in a cell changes the files    *)
(* whose way goes through it and no other, so that balloc gives a block to *)
(* one place of one file and bfree takes the places from one on.  Last, no *)
(* block is lost: every index block has its entry 0 in use, so that bfree, *)
(* which looks at entry 0 only, finds it empty when it gives it back.      *)
(***************************************************************************)
EXTENDS FileBlocks, WellFoundedInduction, FiniteSetTheorems, SequenceTheorems, TLAPS

-----------------------------------------------------------------------------
(* Numbers: induction, stated with sets, so that a proof can take the set of *)
(* the numbers for which a formula holds, and division.                      *)

\* A set of numbers has a smallest one.
LEMMA WellOrdered ==
  ASSUME NEW S \in SUBSET Nat, S # {}
  PROVE  \E n \in S : \A m \in S : n <= m
<1> DEFINE R == OpToRel(<, Nat)
<1>1. IsWellFoundedOn(R, Nat)
  BY NatLessThanWellFounded
<1>2. \A m, n \in Nat : <<m, n>> \in R <=> m < n
  BY DEF OpToRel
<1> HIDE DEF R
<1>3. PICK n \in S : \A m \in S : ~(<<m, n>> \in R)
  BY <1>1, WFMin
<1>4. \A m \in S : ~(m < n)
  BY <1>2, <1>3
<1> QED BY <1>4

\* Induction from 0 to N.
LEMMA UpTo ==
  ASSUME NEW N \in Nat, NEW S,
         0 \in S,
         \A n \in 0 .. N - 1 : n \in S => n + 1 \in S
  PROVE  \A n \in 0 .. N : n \in S
<1> DEFINE Out == {n \in 0 .. N : n \notin S}
<1> SUFFICES ASSUME Out # {} PROVE FALSE
  OBVIOUS
<1>1. PICK n \in Out : \A m \in Out : n <= m
  <2>1. Out \in SUBSET Nat
    OBVIOUS
  <2> QED BY <2>1, WellOrdered
<1>2. n \in 1 .. N /\ n - 1 \in 0 .. N - 1
  BY <1>1
<1>3. n - 1 \in S
  BY <1>1, <1>2
<1>4. n \in S
  BY <1>2, <1>3
<1> QED BY <1>1, <1>4

\* Quotient and remainder of a number, of either sign.
LEMMA Divide ==
  ASSUME NEW x \in Int, NEW c \in Nat \ {0}
  PROVE  x \div c \in Int /\ x % c \in 0 .. c - 1 /\ x = c * (x \div c) + (x % c)
OBVIOUS

\* A number below the next multiple of c has a quotient of at most that
\* multiple's.
LEMMA TimesLess ==
  ASSUME NEW c \in Nat \ {0}, NEW p \in Int, NEW q \in Int, c * p < c * q + c
  PROVE  p <= q
OBVIOUS

\* The same, for a quotient as the code computes it.
LEMMA DivideAtMost ==
  ASSUME NEW x \in Int, NEW c \in Nat \ {0}, NEW q \in Int, x < c * q + c
  PROVE  x \div c <= q
<1> DEFINE p == x \div c
<1>1. p \in Int /\ x % c \in 0 .. c - 1 /\ x = c * p + (x % c)
  BY Divide
<1>2. c * p \in Int /\ c * q \in Int
  BY <1>1
<1>3. c * p < c * q + c
  BY <1>1, <1>2
<1> HIDE DEF p
<1> QED BY <1>3, <1>1, TimesLess DEF p

\* The quotient of a natural number is one.
LEMMA DivideNat ==
  ASSUME NEW x \in Nat, NEW c \in Nat \ {0}
  PROVE  x \div c \in Nat
OBVIOUS

\* The quotient by c of a number below a multiple of c.
LEMMA DivideBelow ==
  ASSUME NEW c \in Nat \ {0}, NEW n \in Nat \ {0}, NEW x \in Nat, x < c * n
  PROVE  x \div c \in 0 .. n - 1
<1>1. c * (n - 1) + c = c * n
  OBVIOUS
<1>2. n - 1 \in Int /\ x < c * (n - 1) + c
  BY <1>1
<1> QED BY <1>2, DivideAtMost, DivideNat

\* A product grows with its second factor.
LEMMA TimesAtMost ==
  ASSUME NEW c \in Nat, NEW p \in Int, NEW q \in Int, p <= q
  PROVE  c * p <= c * q
<1>1. c * (q - p) >= 0
  <2>1. q - p \in Nat
    OBVIOUS
  <2> DEFINE d == q - p
  <2> HIDE DEF d
  <2>2. c * d \in Nat
    BY <2>1 DEF d
  <2> QED BY <2>2 DEF d
<1>2. c * (q - p) = c * q - c * p
  OBVIOUS
<1> QED BY <1>1, <1>2

\* The quotient by c, twice.
LEMMA DivideTwice ==
  ASSUME NEW x \in Int, NEW c \in Nat \ {0}
  PROVE  (x \div c) \div c = x \div (c * c)
<1> DEFINE u == x \div c
           w == u \div c
           a == x % c
           b == u % c
           y == x \div (c * c)
           r == x % (c * c)
<1>1. u \in Int /\ a \in 0 .. c - 1 /\ x = c * u + a
  BY Divide
<1> HIDE DEF u, a
<1>2. w \in Int /\ b \in 0 .. c - 1 /\ u = c * w + b
  BY <1>1, Divide
<1>3. c * c \in Nat \ {0}
  OBVIOUS
<1>4. y \in Int /\ r \in 0 .. c * c - 1 /\ x = (c * c) * y + r
  <2> DEFINE d == c * c
  <2> HIDE DEF d
  <2>1. x \div d \in Int /\ x % d \in 0 .. d - 1 /\ x = d * (x \div d) + (x % d)
    BY <1>3, Divide DEF d
  <2> QED BY <2>1 DEF d
<1> HIDE DEF w, b, y, r
<1>5. x = (c * c) * w + (c * b + a)
  <2>1. c * u = c * (c * w) + c * b
    BY <1>1, <1>2
  <2>2. c * (c * w) = (c * c) * w
    BY <1>2
  <2> QED BY <1>1, <1>2, <2>1, <2>2
<1>6. c * b + a \in 0 .. c * c - 1
  <2>1. c * b <= c * (c - 1)
    BY <1>2, TimesAtMost
  <2>2. c * (c - 1) = c * c - c
    OBVIOUS
  <2>3. c * b \in Nat
    BY <1>2
  <2> QED BY <1>1, <1>3, <2>1, <2>2, <2>3
<1> DEFINE e == c * c
           s == c * b + a
<1>7. e \in Nat \ {0} /\ s \in 0 .. e - 1 /\ r \in 0 .. e - 1 /\ x = e * w + s /\ x = e * y + r
  BY <1>3, <1>4, <1>5, <1>6
<1> HIDE DEF e, s
<1>8. w <= y
  <2>1. e * w \in Int /\ e * y \in Int
    BY <1>2, <1>4, <1>7
  <2>2. e * w < e * y + e
    BY <1>7, <2>1
  <2> QED BY <1>2, <1>4, <1>7, <2>2, TimesLess
<1>9. y <= w
  <2>1. e * w \in Int /\ e * y \in Int
    BY <1>2, <1>4, <1>7
  <2>2. e * y < e * w + e
    BY <1>7, <2>1
  <2> QED BY <1>2, <1>4, <1>7, <2>2, TimesLess
<1>10. w = y
  BY <1>2, <1>4, <1>8, <1>9
<1> QED BY <1>10 DEF w, u, y

\* The quotient of a number written as c * q + r.
LEMMA QuotientIs ==
  ASSUME NEW c \in Nat \ {0}, NEW q \in Int, NEW r \in 0 .. c - 1, NEW x, x = c * q + r
  PROVE  x \div c = q
<1> DEFINE p == x \div c
           s == x % c
<1>1. c * q \in Int /\ x \in Int
  OBVIOUS
<1>2. p \in Int /\ s \in 0 .. c - 1 /\ x = c * p + s
  BY <1>1, Divide
<1> HIDE DEF p, s
<1>3. c * p \in Int /\ c * p < c * q + c /\ c * q < c * p + c
  BY <1>1, <1>2
<1>4. p <= q /\ q <= p
  BY <1>2, <1>3, TimesLess
<1>5. p = q
  BY <1>2, <1>4
<1> QED BY <1>5 DEF p

-----------------------------------------------------------------------------
(* The way to a file block.                                                  *)

\* The way to a file block: up to three entries of index blocks, from a direct
\* cell if there is none and else from the root of that many levels.
LEMMA RouteType ==
  ASSUME NEW k \in 0 .. LastFileBlk
  PROVE  LET path == Route(k).path
         IN  /\ path \in Seq(Entry) /\ Len(path) \in 0 .. 3
             /\ Len(path) = 0 => k \in 0 .. NDirect - 1 /\ Route(k).start = DirectCell(k)
             /\ Len(path) # 0 => Route(k).start = RootCell(Len(path))
<1> DEFINE E == Entries
           s == k - NDirect
           d == s - E
           t == d - E * E
<1>1. E \in Nat \ {0} /\ NDirect \in Nat \ {0} /\ E * E \in Nat \ {0} /\ E * E * E \in Nat \ {0}
  BY GeometryAssumption
<1>2. k \in Nat /\ s \in Int /\ d \in Int /\ t \in Int
  BY <1>1
<1>3. Entry = 0 .. E - 1
  BY DEF Entry
<1>4. CASE s < 0
  <2>1. Route(k) = [start |-> DirectCell(k), path |-> <<>>]
    BY <1>4 DEF Route
  <2>2. k \in 0 .. NDirect - 1
    BY <1>1, <1>2, <1>4
  <2> QED BY <2>1, <2>2
<1>5. CASE ~(s < 0) /\ d < 0
  <2>1. Route(k) = [start |-> RootCell(1), path |-> <<s>>]
    BY <1>5 DEF Route
  <2>2. s \in Entry
    BY <1>1, <1>2, <1>3, <1>5
  <2> QED BY <2>1, <2>2
<1>6. CASE ~(s < 0) /\ ~(d < 0) /\ t < 0
  <2>1. Route(k) = [start |-> RootCell(2), path |-> <<d \div E, d % E>>]
    BY <1>6 DEF Route
  <2>2. d \in Nat /\ d < E * E
    BY <1>1, <1>2, <1>6
  <2>3. d \div E \in Entry /\ d % E \in Entry
    <3> HIDE DEF E, d
    <3>1. d \div E \in 0 .. E - 1
      BY <1>1, <2>2, DivideBelow
    <3>2. d % E \in 0 .. E - 1
      BY <1>1, <2>2, Divide
    <3> QED BY <1>3, <3>1, <3>2
  <2> QED BY <2>1, <2>3
<1>7. CASE ~(s < 0) /\ ~(d < 0) /\ ~(t < 0)
  <2>1. Route(k) = [start |-> RootCell(3),
                    path  |-> <<t \div (E * E), (t \div E) % E, t % E>>]
    BY <1>7 DEF Route
  <2>2. t \in Nat /\ t < E * E * E
    BY <1>1, <1>2, <1>7 DEF LastFileBlk
  <2>3. t < (E * E) * E
    BY <1>1, <2>2
  <2>4. t \div (E * E) \in Entry /\ (t \div E) % E \in Entry /\ t % E \in Entry
    <3> HIDE DEF E, t
    <3>1. t \div (E * E) \in 0 .. E - 1
      <4> DEFINE c == E * E
      <4> HIDE DEF c
      <4>1. c \in Nat \ {0} /\ t < c * E
        BY <1>1, <2>3 DEF c
      <4>2. t \div c \in 0 .. E - 1
        BY <1>1, <2>2, <4>1, DivideBelow
      <4> QED BY <4>2 DEF c
    <3>2. t \div E \in Nat
      BY <1>1, <2>2, DivideNat
    <3> QED BY <1>1, <1>3, <2>2, <3>1, <3>2, Divide
  <2> QED BY <2>1, <2>4
<1> QED BY <1>4, <1>5, <1>6, <1>7

-----------------------------------------------------------------------------
(* Reading and writing cells.                                                *)

Id        == Block \union {NoBlk}
INodeType == [filesize : Nat, direct : [0 .. NDirect - 1 -> Id], indirect : [1 .. 3 -> Id]]
IndexType == [Block -> [Entry -> Id]]
Memory    == [free : Seq(Block), index : IndexType, inode : INodeType]

Cell == {DirectCell(k) : k \in 0 .. NDirect - 1} \union {RootCell(level) : level \in 1 .. 3}
        \union {EntryCell(b, e) : b \in Block, e \in Entry}

\* f with another value at i.
With(f, i, v) == [f EXCEPT ![i] = v]

\* A cell is what it was made from.
LEMMA CellsDiffer ==
  /\ \A j, k : DirectCell(j) = DirectCell(k) => j = k
  /\ \A j, k : RootCell(j) = RootCell(k) => j = k
  /\ \A a, d, b, e : EntryCell(a, d) = EntryCell(b, e) => a = b /\ d = e
  /\ \A j, k : DirectCell(j) # RootCell(k)
  /\ \A j, b, e : DirectCell(j) # EntryCell(b, e)
  /\ \A j, b, e : RootCell(j) # EntryCell(b, e)
BY DEF DirectCell, RootCell, EntryCell

\* What each kind of cell reads.
LEMMA GetIs ==
  ASSUME NEW m
  PROVE  /\ \A k : Get(m, DirectCell(k)) = m.inode.direct[k]
         /\ \A level : Get(m, RootCell(level)) = m.inode.indirect[level]
         /\ \A b, e : Get(m, EntryCell(b, e)) = m.index[b][e]
BY DEF Get, DirectCell, RootCell, EntryCell

\* The value of a cell of another inode, with the same index blocks.
ValueIn(m, i, cell) == Get([free |-> m.free, index |-> m.index, inode |-> i], cell)

\* The parts of a memory and their types.
LEMMA MemoryFields ==
  ASSUME NEW m \in Memory
  PROVE  /\ m = [free |-> m.free, index |-> m.index, inode |-> m.inode]
         /\ m.free \in Seq(Block) /\ m.index \in IndexType /\ m.inode \in INodeType
         /\ m.inode = [filesize |-> m.inode.filesize, direct |-> m.inode.direct,
                       indirect |-> m.inode.indirect]
         /\ m.inode.filesize \in Nat
         /\ m.inode.direct \in [0 .. NDirect - 1 -> Id]
         /\ m.inode.indirect \in [1 .. 3 -> Id]
BY DEF Memory, INodeType

\* The same for another inode than the memory's own.
LEMMA ValueIs ==
  ASSUME NEW m \in Memory, NEW i
  PROVE  /\ \A k \in 0 .. NDirect - 1 : ValueIn(m, i, DirectCell(k)) = i.direct[k]
         /\ \A level \in 1 .. 3 : ValueIn(m, i, RootCell(level)) = i.indirect[level]
         /\ \A b \in Block, e \in Entry :
              ValueIn(m, i, EntryCell(b, e)) = m.index[b][e]
         /\ \A cell : ValueIn(m, m.inode, cell) = Get(m, cell)
<1> DEFINE n == [free |-> m.free, index |-> m.index, inode |-> i]
<1>1. n.inode = i /\ n.index = m.index
  OBVIOUS
<1>2. m = [free |-> m.free, index |-> m.index, inode |-> m.inode]
  BY DEF Memory
<1>3. \A cell : ValueIn(m, m.inode, cell) = Get(m, cell)
  BY <1>2 DEF ValueIn
<1>4. \A cell : ValueIn(m, i, cell) = Get(n, cell)
  BY DEF ValueIn
<1> HIDE DEF n
<1> QED BY <1>1, <1>3, <1>4, GetIs

\* A cell is of one of the three kinds.
LEMMA CellKinds ==
  ASSUME NEW cell \in Cell
  PROVE  \/ \E k \in 0 .. NDirect - 1 : cell = DirectCell(k)
         \/ \E level \in 1 .. 3 : cell = RootCell(level)
         \/ \E b \in Block, e \in Entry : cell = EntryCell(b, e)
BY DEF Cell

\* A cell holds the id of a block, or NoBlk.
LEMMA ValueType ==
  ASSUME NEW m \in Memory, NEW i \in INodeType, NEW cell \in Cell
  PROVE  ValueIn(m, i, cell) \in Id
<1>1. /\ i.direct \in [0 .. NDirect - 1 -> Id]
      /\ i.indirect \in [1 .. 3 -> Id]
  BY DEF INodeType
<1>2. \A b \in Block, e \in Entry : m.index[b][e] \in Id
  BY ZenonT(30), MemoryFields DEF IndexType
<1>3. CASE \E k \in 0 .. NDirect - 1 : cell = DirectCell(k)
  <2>1. PICK k \in 0 .. NDirect - 1 : cell = DirectCell(k)
    BY <1>3
  <2>2. i.direct[k] \in Id
    BY <1>1
  <2> QED BY <2>1, <2>2, ValueIs
<1>4. CASE \E level \in 1 .. 3 : cell = RootCell(level)
  <2>1. PICK level \in 1 .. 3 : cell = RootCell(level)
    BY <1>4
  <2>2. i.indirect[level] \in Id
    BY <1>1
  <2> QED BY <2>1, <2>2, ValueIs
<1>5. CASE \E b \in Block, e \in Entry : cell = EntryCell(b, e)
  <2>1. PICK b \in Block, e \in Entry : cell = EntryCell(b, e)
    BY <1>5
  <2>2. m.index[b][e] \in Id
    BY <1>2
  <2> QED BY <2>1, <2>2, ValueIs
<1> QED BY <1>3, <1>4, <1>5, CellKinds

\* m with inode i for its own, and what Put makes of it.
LEMMA PutFields ==
  ASSUME NEW m \in Memory, NEW cell \in Cell, NEW v \in Id
  PROVE  LET n == Put(m, cell, v)
         IN  /\ n \in Memory /\ n.free = m.free
             /\ n.inode.filesize = m.inode.filesize
             /\ \A d \in Cell : Get(n, d) = IF d = cell THEN v ELSE Get(m, d)
             /\ (\E b, e : cell = EntryCell(b, e)) => n.inode = m.inode
             /\ (\A b, e : cell # EntryCell(b, e)) => n.index = m.index
<1>1. CASE \E k \in 0 .. NDirect - 1 : cell = DirectCell(k)
  <2>1. PICK k \in 0 .. NDirect - 1 : cell = DirectCell(k)
    BY <1>1
  <2> DEFINE direct == With(m.inode.direct, k, v)
             inode2 == [filesize |-> m.inode.filesize, direct |-> direct,
                        indirect |-> m.inode.indirect]
             n == [free |-> m.free, index |-> m.index, inode |-> inode2]
  <2>2. direct \in [0 .. NDirect - 1 -> Id]
        /\ \A j \in 0 .. NDirect - 1 : direct[j] = IF j = k THEN v ELSE m.inode.direct[j]
    BY MemoryFields DEF With
  <2>3. Put(m, cell, v) = n
    <3>1. Put(m, cell, v) = [m EXCEPT !.inode.direct[k] = v]
      BY <2>1 DEF Put, DirectCell
    <3> QED BY <3>1, MemoryFields DEF With
  <2>4. n \in Memory /\ n.free = m.free /\ n.index = m.index /\ n.inode = inode2
        /\ n.inode.filesize = m.inode.filesize
        /\ inode2.direct = direct /\ inode2.indirect = m.inode.indirect
    <3> HIDE DEF direct
    <3> QED BY <2>2, MemoryFields DEF Memory, INodeType
  <2> HIDE DEF n, direct, inode2
  <2>5. ASSUME NEW d \in Cell
        PROVE  Get(n, d) = IF d = cell THEN v ELSE Get(m, d)
    <3>1. CASE \E j \in 0 .. NDirect - 1 : d = DirectCell(j)
      <4>1. PICK j \in 0 .. NDirect - 1 : d = DirectCell(j)
        BY <3>1
      <4>2. Get(n, d) = n.inode.direct[j] /\ Get(m, d) = m.inode.direct[j]
        BY <4>1, GetIs
      <4> QED BY <2>1, <2>2, <2>4, <4>1, <4>2, CellsDiffer
    <3>2. CASE \E j \in 1 .. 3 : d = RootCell(j)
      <4>1. PICK j \in 1 .. 3 : d = RootCell(j)
        BY <3>2
      <4>2. Get(n, d) = n.inode.indirect[j] /\ Get(m, d) = m.inode.indirect[j]
        BY <4>1, GetIs
      <4> QED BY <2>1, <2>2, <2>4, <4>1, <4>2, CellsDiffer
    <3>3. CASE \E a \in Block, j \in Entry : d = EntryCell(a, j)
      BY <2>1, <2>2, <2>4, <3>3, GetIs, CellsDiffer
    <3> QED BY <3>1, <3>2, <3>3, CellKinds
  <2> QED BY <2>1, <2>3, <2>4, <2>5, CellsDiffer
<1>2. CASE \E level \in 1 .. 3 : cell = RootCell(level)
  <2>1. PICK k \in 1 .. 3 : cell = RootCell(k)
    BY <1>2
  <2> DEFINE indirect == With(m.inode.indirect, k, v)
             inode2 == [filesize |-> m.inode.filesize, direct |-> m.inode.direct,
                        indirect |-> indirect]
             n == [free |-> m.free, index |-> m.index, inode |-> inode2]
  <2>2. indirect \in [1 .. 3 -> Id]
        /\ \A j \in 1 .. 3 : indirect[j] = IF j = k THEN v ELSE m.inode.indirect[j]
    BY MemoryFields DEF With
  <2>3. Put(m, cell, v) = n
    <3>1. Put(m, cell, v) = [m EXCEPT !.inode.indirect[k] = v]
      BY <2>1 DEF Put, RootCell
    <3> QED BY <3>1, MemoryFields DEF With
  <2>4. n \in Memory /\ n.free = m.free /\ n.index = m.index /\ n.inode = inode2
        /\ n.inode.filesize = m.inode.filesize
        /\ inode2.direct = m.inode.direct /\ inode2.indirect = indirect
    <3> HIDE DEF indirect
    <3> QED BY <2>2, MemoryFields DEF Memory, INodeType
  <2> HIDE DEF n, indirect, inode2
  <2>5. ASSUME NEW d \in Cell
        PROVE  Get(n, d) = IF d = cell THEN v ELSE Get(m, d)
    <3>1. CASE \E j \in 0 .. NDirect - 1 : d = DirectCell(j)
      <4>1. PICK j \in 0 .. NDirect - 1 : d = DirectCell(j)
        BY <3>1
      <4>2. Get(n, d) = n.inode.direct[j] /\ Get(m, d) = m.inode.direct[j]
        BY <4>1, GetIs
      <4> QED BY <2>1, <2>2, <2>4, <4>1, <4>2, CellsDiffer
    <3>2. CASE \E j \in 1 .. 3 : d = RootCell(j)
      <4>1. PICK j \in 1 .. 3 : d = RootCell(j)
        BY <3>2
      <4>2. Get(n, d) = n.inode.indirect[j] /\ Get(m, d) = m.inode.indirect[j]
        BY <4>1, GetIs
      <4> QED BY <2>1, <2>2, <2>4, <4>1, <4>2, CellsDiffer
    <3>3. CASE \E a \in Block, j \in Entry : d = EntryCell(a, j)
      BY <2>1, <2>2, <2>4, <3>3, GetIs, CellsDiffer
    <3> QED BY <3>1, <3>2, <3>3, CellKinds
  <2> QED BY <2>1, <2>3, <2>4, <2>5, CellsDiffer
<1>3. CASE \E b \in Block, e \in Entry : cell = EntryCell(b, e)
  <2>1. PICK b \in Block, e \in Entry : cell = EntryCell(b, e)
    BY <1>3
  <2> DEFINE index2 == With(m.index, b, With(m.index[b], e, v))
             n == [free |-> m.free, index |-> index2, inode |-> m.inode]
  <2>2. index2 \in IndexType
        /\ \A a \in Block, d \in Entry :
             index2[a][d] = IF a = b /\ d = e THEN v ELSE m.index[a][d]
    BY MemoryFields DEF With, IndexType
  <2>3. Put(m, cell, v) = n
    <3>1. Put(m, cell, v) = [m EXCEPT !.index[b][e] = v]
      BY <2>1 DEF Put, EntryCell
    <3> QED BY <3>1, MemoryFields DEF With
  <2>4. n \in Memory /\ n.free = m.free /\ n.index = index2 /\ n.inode = m.inode
    <3> HIDE DEF index2
    <3> QED BY <2>2, MemoryFields DEF Memory
  <2> HIDE DEF n, index2
  <2>5. ASSUME NEW d \in Cell
        PROVE  Get(n, d) = IF d = cell THEN v ELSE Get(m, d)
    <3>1. CASE \E j \in 0 .. NDirect - 1 : d = DirectCell(j)
      <4>1. PICK j \in 0 .. NDirect - 1 : d = DirectCell(j)
        BY <3>1
      <4>2. Get(n, d) = n.inode.direct[j] /\ Get(m, d) = m.inode.direct[j]
        BY <4>1, GetIs
      <4> QED BY <2>1, <2>2, <2>4, <4>1, <4>2, CellsDiffer
    <3>2. CASE \E j \in 1 .. 3 : d = RootCell(j)
      <4>1. PICK j \in 1 .. 3 : d = RootCell(j)
        BY <3>2
      <4>2. Get(n, d) = n.inode.indirect[j] /\ Get(m, d) = m.inode.indirect[j]
        BY <4>1, GetIs
      <4> QED BY <2>1, <2>2, <2>4, <4>1, <4>2, CellsDiffer
    <3>3. CASE \E a \in Block, j \in Entry : d = EntryCell(a, j)
      BY <2>1, <2>2, <2>4, <3>3, GetIs, CellsDiffer
    <3> QED BY <3>1, <3>2, <3>3, CellKinds
  <2> QED BY <2>1, <2>3, <2>4, <2>5, CellsDiffer
<1> QED BY <1>1, <1>2, <1>3, CellKinds

-----------------------------------------------------------------------------
(* Who holds a block.  A block has a label: unheld, or the file and the cell  *)
(* it was put into, and how many levels of index blocks are below that cell.  *)
(* A block that is in two cells would need two labels.                        *)

Tag(f, cell, height) == <<f, cell, height>>
Unheld == <<>>

\* A label is made from one file, one cell and one height.
LEMMA Tags ==
  /\ \A f, g, c, d, h, i : Tag(f, c, h) = Tag(g, d, i) => f = g /\ c = d /\ h = i
  /\ \A f, c, h : Tag(f, c, h) # Unheld
BY DEF Tag, Unheld

\* b is a block of file f with h levels below it.
HeldAt(L, b, f, h) == \E cell : L[b] = Tag(f, cell, h)

\* A cell of file f, for blocks with h levels below them.
IsCell(L, f, cell, h) ==
  \/ h = 0 /\ \E k \in 0 .. NDirect - 1 : cell = DirectCell(k)
  \/ h \in 1 .. 3 /\ cell = RootCell(h)
  \/ /\ h \in 0 .. 2
     /\ \E p \in Block, e \in Entry : cell = EntryCell(p, e) /\ HeldAt(L, p, f, h + 1)

\* The inodes, where m has that of file f; and what is in cell d of file g.
Seen(N, f, m, g, d) == ValueIn(m, With(N, f, m.inode)[g], d)

\* What a cell holds has the label of that cell, what is free has none.
Forest(L, N, f, m) ==
  /\ L = [b \in Block |-> L[b]]
  /\ \A g \in File, d \in Cell, i \in 0 .. 3 :
       IsCell(L, g, d, i) =>
         \/ Seen(N, f, m, g, d) = NoBlk
         \/ L[Seen(N, f, m, g, d)] = Tag(g, d, i)
  /\ \A i \in DOMAIN m.free : L[m.free[i]] = Unheld
  /\ IsInjective(m.free)

\* A cell of a file is a cell, at one of the four heights.
LEMMA IsCellType ==
  ASSUME NEW L, NEW f, NEW cell, NEW h, IsCell(L, f, cell, h)
  PROVE  cell \in Cell /\ h \in 0 .. 3
BY DEF IsCell, Cell

\* An entry is a cell of a file when the file has its block, one level up.
LEMMA EntryIsCell ==
  ASSUME NEW L, NEW f, NEW b, NEW e, NEW h \in 0 .. 3, IsCell(L, f, EntryCell(b, e), h)
  PROVE  h \in 0 .. 2 /\ HeldAt(L, b, f, h + 1)
BY CellsDiffer DEF IsCell

\* A cell has one height, and an entry is a cell of one file.
LEMMA CellUnique ==
  ASSUME NEW L, NEW f, NEW g, NEW cell, NEW h, NEW i,
         IsCell(L, f, cell, h), IsCell(L, g, cell, i)
  PROVE  h = i /\ ((\E b, e : cell = EntryCell(b, e)) => f = g)
<1>1. CASE \E k \in 0 .. NDirect - 1 : cell = DirectCell(k)
  BY <1>1, CellsDiffer DEF IsCell
<1>2. CASE \E level \in 1 .. 3 : cell = RootCell(level)
  BY <1>2, CellsDiffer DEF IsCell
<1>3. CASE \E b \in Block, e \in Entry : cell = EntryCell(b, e)
  <2>1. PICK b \in Block, e \in Entry : cell = EntryCell(b, e)
    BY <1>3
  <2>2. HeldAt(L, b, f, h + 1) /\ HeldAt(L, b, g, i + 1) /\ h \in Int /\ i \in Int
    BY <2>1, CellsDiffer DEF IsCell
  <2>3. f = g /\ h + 1 = i + 1
    BY <2>2, Tags DEF HeldAt
  <2> QED BY <2>2, <2>3
<1>4. cell \in Cell
  BY IsCellType
<1> QED BY <1>1, <1>2, <1>3, <1>4, CellKinds

\* m with a value in a cell, other entries for an index block, and another free
\* list.
Stored(m, cell, v, b, entries, free2) ==
  [Put(m, cell, v) EXCEPT !.free = free2, !.index[b] = entries]

\* What Stored makes: the cell, the entries and the free list are as given,
\* every other cell of every file is as before.
LEMMA StoredFields ==
  ASSUME NEW N \in [File -> INodeType], NEW f \in File, NEW m \in Memory,
         NEW cell \in Cell, NEW v \in Id, NEW b \in Block,
         NEW entries \in [Entry -> Id], NEW free2 \in Seq(Block)
  PROVE  LET z == Stored(m, cell, v, b, entries, free2)
         IN  /\ z \in Memory /\ z.free = free2
             /\ z.index[b] = entries
             /\ z.inode.filesize = m.inode.filesize
             /\ \A d \in Cell : (\A e \in Entry : d # EntryCell(b, e)) =>
                  Get(z, d) = IF d = cell THEN v ELSE Get(m, d)
             /\ \A g \in File, e \in Entry : Seen(N, f, z, g, EntryCell(b, e)) = entries[e]
             /\ \A g \in File, d \in Cell :
                  (\A e \in Entry : d # EntryCell(b, e)) =>
                     /\ d = cell /\ g = f => Seen(N, f, z, g, d) = v
                     /\ d # cell => Seen(N, f, z, g, d) = Seen(N, f, m, g, d)
                     /\ d = cell /\ g # f /\ (\A p, e : d # EntryCell(p, e)) =>
                          Seen(N, f, z, g, d) = Seen(N, f, m, g, d)
<1> DEFINE n == Put(m, cell, v)
           index2 == With(n.index, b, entries)
           z == [free |-> free2, index |-> index2, inode |-> n.inode]
<1>1. /\ n \in Memory
      /\ n.inode.filesize = m.inode.filesize
      /\ \A d \in Cell : Get(n, d) = IF d = cell THEN v ELSE Get(m, d)
      /\ (\E p, e : cell = EntryCell(p, e)) => n.inode = m.inode
      /\ (\A p, e : cell # EntryCell(p, e)) => n.index = m.index
  BY PutFields
<1>2. Stored(m, cell, v, b, entries, free2) = z
  <2>1. Stored(m, cell, v, b, entries, free2) = [n EXCEPT !.free = free2, !.index[b] = entries]
    BY DEF Stored
  <2> HIDE DEF n
  <2>2. n = [free |-> n.free, index |-> n.index, inode |-> n.inode]
    BY <1>1 DEF Memory
  <2> QED BY <2>1, <2>2 DEF With
<1> HIDE DEF n
<1>3. /\ index2 \in IndexType /\ index2[b] = entries
      /\ \A p \in Block \ {b} : index2[p] = n.index[p]
  <2>1. n.index \in IndexType
    BY <1>1, MemoryFields
  <2> QED BY <2>1 DEF IndexType, With
<1>4. /\ z \in Memory /\ z.free = free2 /\ z.index = index2 /\ z.inode = n.inode
  <2> HIDE DEF index2
  <2>1. n.inode \in INodeType
    BY <1>1, MemoryFields
  <2> QED BY <1>3, <2>1 DEF Memory
<1> HIDE DEF z, index2
<1>5. ASSUME NEW d \in Cell, \A e \in Entry : d # EntryCell(b, e)
      PROVE  Get(z, d) = Get(n, d)
  <2>1. CASE \E p \in Block, e \in Entry : d = EntryCell(p, e)
    <3>1. PICK p \in Block, e \in Entry : d = EntryCell(p, e)
      BY <2>1
    <3>2. p # b
      BY <1>5, <3>1
    <3> QED BY <1>3, <1>4, <3>1, <3>2, GetIs
  <2>2. CASE \E k \in 0 .. NDirect - 1 : d = DirectCell(k)
    BY <1>4, <2>2, GetIs
  <2>3. CASE \E k \in 1 .. 3 : d = RootCell(k)
    BY <1>4, <2>3, GetIs
  <2> QED BY <2>1, <2>2, <2>3, CellKinds
<1>6. ASSUME NEW d \in Cell, \A e \in Entry : d # EntryCell(b, e)
      PROVE  Get(z, d) = IF d = cell THEN v ELSE Get(m, d)
  BY <1>1, <1>5, <1>6
<1> DEFINE Old(g, d) == Seen(N, f, m, g, d)
           New(g, d) == Seen(N, f, z, g, d)
<1> USE DEF Seen
<1>7. /\ With(N, f, m.inode)[f] = m.inode /\ With(N, f, z.inode)[f] = z.inode
      /\ \A g \in File \ {f} : /\ With(N, f, m.inode)[g] = N[g]
                               /\ With(N, f, z.inode)[g] = N[g]
  BY DEF With
<1>8. \A g \in File, e \in Entry : New(g, EntryCell(b, e)) = entries[e]
  BY ZenonT(30), <1>3, <1>4, ValueIs
<1>9. ASSUME NEW d \in Cell, \A e \in Entry : d # EntryCell(b, e)
      PROVE  /\ d = cell => New(f, d) = v
             /\ d # cell => New(f, d) = Old(f, d)
  <2>1. New(f, d) = Get(z, d) /\ Old(f, d) = Get(m, d)
    BY <1>4, <1>7, ValueIs
  <2> QED BY <1>6, <1>9, <2>1
<1>10. ASSUME NEW g \in File, g # f, NEW d \in Cell, \A e \in Entry : d # EntryCell(b, e),
              d # cell \/ (\A p, e : d # EntryCell(p, e))
       PROVE  New(g, d) = Old(g, d)
  <2>1. New(g, d) = ValueIn(z, N[g], d) /\ Old(g, d) = ValueIn(m, N[g], d)
    BY <1>7, <1>10
  <2>2. CASE \E p \in Block, e \in Entry : d = EntryCell(p, e)
    <3>1. PICK p \in Block, e \in Entry : d = EntryCell(p, e)
      BY <2>2
    <3>2. New(g, d) = z.index[p][e] /\ Old(g, d) = m.index[p][e]
      BY <1>4, <2>1, <3>1, ValueIs
    <3>3. Get(z, d) = z.index[p][e] /\ Get(m, d) = m.index[p][e]
      BY <3>1, GetIs
    <3>4. d # cell
      BY <1>10, <3>1
    <3> QED BY <1>6, <1>10, <3>2, <3>3, <3>4
  <2>3. CASE \E k \in 0 .. NDirect - 1 : d = DirectCell(k)
    <3>1. PICK k \in 0 .. NDirect - 1 : d = DirectCell(k)
      BY <2>3
    <3>2. New(g, d) = N[g].direct[k] /\ Old(g, d) = N[g].direct[k]
      BY <1>4, <2>1, <3>1, ValueIs
    <3> QED BY <3>2
  <2>4. CASE \E k \in 1 .. 3 : d = RootCell(k)
    <3>1. PICK k \in 1 .. 3 : d = RootCell(k)
      BY <2>4
    <3>2. New(g, d) = N[g].indirect[k] /\ Old(g, d) = N[g].indirect[k]
      BY <1>4, <2>1, <3>1, ValueIs
    <3> QED BY <3>2
  <2> QED BY <2>2, <2>3, <2>4, CellKinds
<1> HIDE DEF Old, New
<1>11. ASSUME NEW g \in File, NEW d \in Cell, \A e \in Entry : d # EntryCell(b, e)
       PROVE  /\ d = cell /\ g = f => New(g, d) = v
              /\ d # cell => New(g, d) = Old(g, d)
              /\ d = cell /\ g # f /\ (\A p, e : d # EntryCell(p, e)) =>
                   New(g, d) = Old(g, d)
  BY <1>9, <1>10, <1>11
<1> QED BY <1>1, <1>2, <1>3, <1>4, <1>6, <1>8, <1>11 DEF Old, New

\* A cell that is not an entry of b does not depend on the label of b.
LEMMA CellStays ==
  ASSUME NEW L, NEW M, NEW b, NEW g, NEW d, NEW i, IsCell(M, g, d, i),
         \A p \in Block \ {b} : M[p] = L[p],
         \A e \in Entry : d # EntryCell(b, e)
  PROVE  IsCell(L, g, d, i)
<1>1. CASE \E p \in Block, e \in Entry : d = EntryCell(p, e) /\ HeldAt(M, p, g, i + 1)
  <2>1. PICK p \in Block, e \in Entry : d = EntryCell(p, e) /\ HeldAt(M, p, g, i + 1)
    BY <1>1
  <2>2. p # b
    BY <2>1
  <2>3. HeldAt(L, p, g, i + 1)
    BY <2>1, <2>2 DEF HeldAt
  <2>4. i \in 0 .. 2
    BY <2>1, CellsDiffer DEF IsCell
  <2> QED BY <2>1, <2>3, <2>4 DEF IsCell
<1> QED BY <1>1 DEF IsCell

\* The head and the rest of a free list.
LEMMA TailFree ==
  ASSUME NEW s \in Seq(Block), s # <<>>
  PROVE  /\ Head(s) \in Block /\ Tail(s) \in Seq(Block)
         /\ DOMAIN s = 1 .. Len(s) /\ Head(s) = s[1] /\ 1 \in DOMAIN s
         /\ \A i \in DOMAIN Tail(s) : i + 1 \in DOMAIN s /\ Tail(s)[i] = s[i + 1] /\ i \in Nat
OBVIOUS

\* Filling an empty cell with a free block.
LEMMA FillForest ==
  ASSUME NEW N \in [File -> INodeType], NEW f \in File, NEW m \in Memory, NEW L,
         Forest(L, N, f, m), m.free # <<>>,
         NEW cell, NEW h, IsCell(L, f, cell, h),
         NEW entries \in [Entry -> Id], h = 0 \/ entries = BlankIndex
  PROVE  LET b == Head(m.free)
             z == Stored(m, cell, b, b, entries, Tail(m.free))
             M == With(L, b, Tag(f, cell, h))
         IN  /\ Forest(M, N, f, z)
             /\ L[b] = Unheld
<1> DEFINE b == Head(m.free)
           z == Stored(m, cell, b, b, entries, Tail(m.free))
           M == With(L, b, Tag(f, cell, h))
           Old(g, d) == Seen(N, f, m, g, d)
           New(g, d) == Seen(N, f, z, g, d)
<1>1. m.free \in Seq(Block)
  BY MemoryFields
<1>2. /\ b \in Block /\ b \in Id /\ Tail(m.free) \in Seq(Block)
      /\ b = m.free[1] /\ 1 \in DOMAIN m.free
      /\ \A i \in DOMAIN Tail(m.free) :
           i + 1 \in DOMAIN m.free /\ Tail(m.free)[i] = m.free[i + 1] /\ i \in Nat
  BY <1>1, TailFree DEF Id
<1>3. cell \in Cell /\ h \in 0 .. 3
  BY IsCellType
<1> HIDE DEF b
<1>4. /\ z \in Memory /\ z.free = Tail(m.free)
      /\ \A g \in File, e \in Entry : New(g, EntryCell(b, e)) = entries[e]
      /\ \A g \in File, d \in Cell :
           (\A e \in Entry : d # EntryCell(b, e)) =>
              /\ d = cell /\ g = f => New(g, d) = b
              /\ d # cell => New(g, d) = Old(g, d)
              /\ d = cell /\ g # f /\ (\A p, e : d # EntryCell(p, e)) =>
                   New(g, d) = Old(g, d)
  <2> DEFINE rest == Tail(m.free)
  <2> HIDE DEF rest
  <2>1. rest \in Seq(Block) /\ b \in Block /\ b \in Id /\ cell \in Cell
    BY <1>2, <1>3 DEF rest
  <2>2. LET y == Stored(m, cell, b, b, entries, rest)
        IN  /\ y \in Memory /\ y.free = rest
            /\ \A g \in File, e \in Entry : Seen(N, f, y, g, EntryCell(b, e)) = entries[e]
            /\ \A g \in File, d \in Cell :
                 (\A e \in Entry : d # EntryCell(b, e)) =>
                    /\ d = cell /\ g = f => Seen(N, f, y, g, d) = b
                    /\ d # cell => Seen(N, f, y, g, d) = Seen(N, f, m, g, d)
                    /\ d = cell /\ g # f /\ (\A p, e : d # EntryCell(p, e)) =>
                         Seen(N, f, y, g, d) = Seen(N, f, m, g, d)
    BY <2>1, StoredFields
  <2> QED BY <2>2 DEF rest
<1>5. /\ L = [a \in Block |-> L[a]]
      /\ \A g \in File, d \in Cell, i \in 0 .. 3 :
           IsCell(L, g, d, i) => Old(g, d) = NoBlk \/ L[Old(g, d)] = Tag(g, d, i)
      /\ \A i \in DOMAIN m.free : L[m.free[i]] = Unheld
      /\ IsInjective(m.free)
  BY DEF Forest
<1> HIDE DEF Old, New
<1>6. L[b] = Unheld
  BY <1>2, <1>5
<1>7. /\ M = [a \in Block |-> M[a]] /\ M[b] = Tag(f, cell, h)
      /\ \A p \in Block \ {b} : M[p] = L[p]
  <2>1. M = [a \in Block |-> IF a = b THEN Tag(f, cell, h) ELSE L[a]]
    BY <1>5 DEF With
  <2> QED BY <1>2, <2>1
<1>8. ASSUME NEW g \in File, NEW d \in Cell
      PROVE  Old(g, d) \in Id
  <2>1. With(N, f, m.inode)[g] \in INodeType
    BY MemoryFields DEF With
  <2> QED BY <2>1, ValueType DEF Old, Seen
<1> HIDE DEF M
<1>9. ASSUME NEW g \in File, NEW d \in Cell, NEW i \in 0 .. 3, IsCell(M, g, d, i)
      PROVE  New(g, d) = NoBlk \/ M[New(g, d)] = Tag(g, d, i)
  <2>1. CASE \E e \in Entry : d = EntryCell(b, e)
    <3>1. PICK e \in Entry : d = EntryCell(b, e)
      BY <2>1
    <3>2. HeldAt(M, b, g, i + 1)
      <4>1. IsCell(M, g, EntryCell(b, e), i)
        BY <1>9, <3>1
      <4> QED BY <4>1, EntryIsCell
    <3>3. h = i + 1
      <4>1. PICK c : M[b] = Tag(g, c, i + 1)
        BY <3>2 DEF HeldAt
      <4>2. Tag(f, cell, h) = Tag(g, c, i + 1)
        BY <1>7, <4>1
      <4> QED BY <4>2, Tags
    <3>4. entries[e] = NoBlk
      BY <3>1, <3>3 DEF BlankIndex
    <3> QED BY <1>4, <3>1, <3>4
  <2>2. CASE \A e \in Entry : d # EntryCell(b, e)
    <3>1. IsCell(L, g, d, i)
      BY <1>7, <1>9, <2>2, CellStays
    <3>2. CASE d = cell /\ g = f
      <4>1. i = h
        BY <3>1, <3>2, CellUnique
      <4> QED BY <1>4, <1>7, <2>2, <3>2, <4>1
    <3>3. CASE ~(d = cell /\ g = f)
      <4>1. New(g, d) = Old(g, d)
        <5>1. d = cell => (\A p, e : d # EntryCell(p, e))
          BY <3>1, <3>3, CellUnique
        <5> QED BY <1>4, <2>2, <3>3, <5>1
      <4>2. Old(g, d) = NoBlk \/ L[Old(g, d)] = Tag(g, d, i)
        BY <1>5, <3>1
      <4>3. Old(g, d) # NoBlk => Old(g, d) \in Block \ {b}
        BY <1>6, <1>8, <4>2, Tags DEF Id
      <4> QED BY <1>7, <4>1, <4>2, <4>3
    <3> QED BY <3>2, <3>3
  <2> QED BY <2>1, <2>2
<1>10. ASSUME NEW i \in DOMAIN Tail(m.free)
       PROVE  M[Tail(m.free)[i]] = Unheld
  <2>1. i + 1 # 1
    BY <1>2
  <2>2. m.free[i + 1] # b
    BY <1>2, <1>5, <2>1 DEF IsInjective
  <2>3. m.free[i + 1] \in Block
    BY <1>1, <1>2
  <2> QED BY ZenonT(30), <1>2, <1>5, <1>7, <2>2, <2>3
<1>11. IsInjective(Tail(m.free))
  <2> SUFFICES ASSUME NEW i \in DOMAIN Tail(m.free), NEW j \in DOMAIN Tail(m.free),
                      Tail(m.free)[i] = Tail(m.free)[j]
               PROVE  i = j
    BY DEF IsInjective
  <2>1. i + 1 = j + 1
    BY <1>2, <1>5 DEF IsInjective
  <2> QED BY <1>2, <2>1
<1>12. Forest(M, N, f, z)
  <2> HIDE DEF z
  <2> QED BY <1>4, <1>7, <1>9, <1>10, <1>11 DEF Forest, New
<1> QED BY <1>6, <1>12 DEF b, M

\* Releasing the block of a cell.
LEMMA ReleaseForest ==
  ASSUME NEW N \in [File -> INodeType], NEW f \in File, NEW m \in Memory, NEW L,
         Forest(L, N, f, m),
         NEW cell, NEW h, IsCell(L, f, cell, h), NEW b, b = Seen(N, f, m, f, cell),
         b # NoBlk, NEW entries \in [Entry -> Id]
  PROVE  LET z == Stored(m, cell, NoBlk, b, entries, <<b>> \o m.free)
             M == With(L, b, Unheld)
         IN  /\ b \in Block /\ L[b] = Tag(f, cell, h)
             /\ Forest(M, N, f, z)
             /\ \A d \in Cell, i \in 0 .. 3 :
                  IsCell(L, f, d, i) /\ i >= h /\ d # cell =>
                    IsCell(M, f, d, i) /\ Seen(N, f, z, f, d) = Seen(N, f, m, f, d)
<1> DEFINE put == <<b>> \o m.free
           z == Stored(m, cell, NoBlk, b, entries, put)
           M == With(L, b, Unheld)
           Old(g, d) == Seen(N, f, m, g, d)
           New(g, d) == Seen(N, f, z, g, d)
<1>1. cell \in Cell /\ h \in 0 .. 3
  BY IsCellType
<1>2. /\ L = [a \in Block |-> L[a]]
      /\ \A g \in File, d \in Cell, i \in 0 .. 3 :
           IsCell(L, g, d, i) => Old(g, d) = NoBlk \/ L[Old(g, d)] = Tag(g, d, i)
      /\ \A i \in DOMAIN m.free : L[m.free[i]] = Unheld
      /\ IsInjective(m.free)
  BY DEF Forest
<1>3. ASSUME NEW g \in File, NEW d \in Cell
      PROVE  Old(g, d) \in Id
  <2>1. With(N, f, m.inode)[g] \in INodeType
    BY MemoryFields DEF With
  <2> QED BY <2>1, ValueType DEF Old, Seen
<1>4. b = Old(f, cell)
  OBVIOUS
<1> HIDE DEF Old
<1>5. b \in Block /\ L[b] = Tag(f, cell, h)
  BY <1>1, <1>2, <1>3, <1>4 DEF Id
<1>6. m.free \in Seq(Block)
  BY MemoryFields
<1>7. /\ put \in Seq(Block) /\ Len(put) = Len(m.free) + 1 /\ put[1] = b
      /\ \A i \in 2 .. Len(put) : put[i] = m.free[i - 1] /\ i - 1 \in DOMAIN m.free
      /\ DOMAIN put = 1 .. Len(put) /\ Len(m.free) \in Nat /\ DOMAIN m.free = 1 .. Len(m.free)
  BY <1>5, <1>6
<1> HIDE DEF put
<1>8. b \in Block /\ NoBlk \in Id /\ put \in Seq(Block) /\ cell \in Cell
  BY <1>1, <1>5, <1>7 DEF Id
<1>9. /\ z \in Memory /\ z.free = put
      /\ \A g \in File, d \in Cell :
           (\A e \in Entry : d # EntryCell(b, e)) =>
              /\ d = cell /\ g = f => New(g, d) = NoBlk
              /\ d # cell => New(g, d) = Old(g, d)
              /\ d = cell /\ g # f /\ (\A p, e : d # EntryCell(p, e)) =>
                   New(g, d) = Old(g, d)
  BY <1>8, StoredFields DEF Old
<1> HIDE DEF z, New
<1>10. /\ M = [a \in Block |-> M[a]] /\ M[b] = Unheld
       /\ \A p \in Block \ {b} : M[p] = L[p]
  <2>1. M = [a \in Block |-> IF a = b THEN Unheld ELSE L[a]]
    BY <1>2 DEF With
  <2> QED BY <1>5, <2>1
<1> HIDE DEF M
<1>11. ASSUME NEW g \in File, NEW d \in Cell, NEW i \in 0 .. 3, IsCell(M, g, d, i)
       PROVE  New(g, d) = NoBlk \/ M[New(g, d)] = Tag(g, d, i)
  <2>1. CASE \E e \in Entry : d = EntryCell(b, e)
    <3>1. PICK e \in Entry : d = EntryCell(b, e)
      BY <2>1
    <3>2. HeldAt(M, b, g, i + 1)
      <4>1. IsCell(M, g, EntryCell(b, e), i)
        BY <1>11, <3>1
      <4> QED BY <4>1, EntryIsCell
    <3> QED BY <1>10, <3>2, Tags DEF HeldAt
  <2>2. CASE \A e \in Entry : d # EntryCell(b, e)
    <3>1. IsCell(L, g, d, i)
      BY <1>10, <1>11, <2>2, CellStays
    <3>2. CASE d = cell /\ g = f
      BY <1>9, <2>2, <3>2
    <3>3. CASE ~(d = cell /\ g = f)
      <4>1. New(g, d) = Old(g, d)
        <5>1. d = cell => (\A p, e : d # EntryCell(p, e))
          BY <3>1, <3>3, CellUnique
        <5> QED BY <1>9, <2>2, <3>3, <5>1
      <4>2. Old(g, d) = NoBlk \/ L[Old(g, d)] = Tag(g, d, i)
        BY <1>2, <3>1
      <4>3. Old(g, d) # b
        <5>1. Old(g, d) = b => Tag(g, d, i) = Tag(f, cell, h)
          BY <1>5, <4>2, GeometryAssumption
        <5> QED BY <3>3, <5>1, Tags
      <4>4. Old(g, d) # NoBlk => Old(g, d) \in Block \ {b}
        BY <1>3, <4>3 DEF Id
      <4> QED BY <1>10, <4>1, <4>2, <4>4
    <3> QED BY <3>2, <3>3
  <2> QED BY <2>1, <2>2
<1>12. ASSUME NEW i \in DOMAIN m.free
       PROVE  m.free[i] \in Block \ {b}
  <2>1. L[m.free[i]] = Unheld
    BY <1>2
  <2> QED BY <1>5, <1>6, <2>1, Tags
<1>13. ASSUME NEW i \in DOMAIN put
       PROVE  M[put[i]] = Unheld
  <2>1. CASE i = 1
    BY <1>7, <1>10, <2>1
  <2>2. CASE i # 1
    <3>1. put[i] = m.free[i - 1] /\ i - 1 \in DOMAIN m.free
      BY <1>7, <2>2
    <3> QED BY <1>2, <1>10, <1>12, <3>1
  <2> QED BY <2>1, <2>2
<1>14. IsInjective(put)
  <2> SUFFICES ASSUME NEW i \in DOMAIN put, NEW j \in DOMAIN put, put[i] = put[j]
               PROVE  i = j
    BY DEF IsInjective
  <2>1. i \in Nat /\ j \in Nat /\ i >= 1 /\ j >= 1
    BY <1>7
  <2>2. i # 1 => put[i] = m.free[i - 1] /\ i - 1 \in DOMAIN m.free /\ put[i] # b
    BY <1>7, <1>12
  <2>3. j # 1 => put[j] = m.free[j - 1] /\ j - 1 \in DOMAIN m.free /\ put[j] # b
    BY <1>7, <1>12
  <2>4. CASE i # 1 /\ j # 1
    <3>1. i - 1 = j - 1
      BY <1>2, <2>2, <2>3, <2>4 DEF IsInjective
    <3> QED BY <2>1, <3>1
  <2>5. CASE ~(i # 1 /\ j # 1)
    BY <1>7, <2>2, <2>3, <2>5
  <2> QED BY <2>4, <2>5
<1>15. Forest(M, N, f, z)
  BY <1>9, <1>10, <1>11, <1>13, <1>14 DEF Forest, New
<1>16. ASSUME NEW d \in Cell, NEW i \in 0 .. 3, IsCell(L, f, d, i), i >= h, d # cell
       PROVE  IsCell(M, f, d, i) /\ New(f, d) = Old(f, d)
  <2>1. CASE \E p \in Block, e \in Entry : d = EntryCell(p, e)
    <3>1. PICK p \in Block, e \in Entry : d = EntryCell(p, e)
      BY <2>1
    <3>2. i \in 0 .. 2 /\ HeldAt(L, p, f, i + 1)
      <4>1. IsCell(L, f, EntryCell(p, e), i)
        BY <1>16, <3>1
      <4> QED BY <4>1, EntryIsCell
    <3>3. p # b
      <4> SUFFICES ASSUME p = b PROVE FALSE
        OBVIOUS
      <4>1. PICK c : L[b] = Tag(f, c, i + 1)
        BY <3>2 DEF HeldAt
      <4>2. Tag(f, cell, h) = Tag(f, c, i + 1)
        BY <1>5, <4>1
      <4>3. h = i + 1
        BY <4>2, Tags
      <4> QED BY <1>1, <1>16, <4>3
    <3>4. HeldAt(M, p, f, i + 1)
      BY <1>10, <3>2, <3>3 DEF HeldAt
    <3>5. IsCell(M, f, d, i)
      BY <3>1, <3>2, <3>4 DEF IsCell
    <3>6. \A e2 \in Entry : d # EntryCell(b, e2)
      BY <3>1, <3>3, CellsDiffer
    <3> QED BY <1>9, <1>16, <3>5, <3>6
  <2>2. CASE ~(\E p \in Block, e \in Entry : d = EntryCell(p, e))
    <3>1. IsCell(M, f, d, i)
      BY <1>16, <2>2 DEF IsCell
    <3>2. \A e2 \in Entry : d # EntryCell(b, e2)
      BY <1>5, <2>2
    <3> QED BY <1>9, <1>16, <3>1, <3>2
  <2> QED BY <2>1, <2>2
<1> QED BY <1>5, <1>15, <1>16 DEF M, z, put, New, Old

-----------------------------------------------------------------------------
(* balloc.                                                                   *)

\* What a file has in its inode: nothing or what another inode has.
Under(i, j) == /\ \A k \in 0 .. NDirect - 1 : i.direct[k] = NoBlk \/ i.direct[k] = j.direct[k]
               /\ \A k \in 1 .. 3 : i.indirect[k] = NoBlk \/ i.indirect[k] = j.indirect[k]

\* What is left of a free list: its end.
Popped(s, t) ==
  s \in Seq(Block) =>
    /\ t \in Seq(Block) /\ Len(t) <= Len(s)
    /\ \A i \in 1 .. Len(t) : t[i] = s[i + (Len(s) - Len(t))]

Grows(m, z) == /\ Under(m.inode, z.inode) /\ z.inode.filesize = m.inode.filesize
               /\ Popped(m.free, z.free)

\* Taking from the free list is reflexive and transitive.
LEMMA PoppedTrans ==
  /\ \A s : Popped(s, s)
  /\ \A r, s, t : Popped(r, s) /\ Popped(s, t) => Popped(r, t)
<1>1. \A s : Popped(s, s)
  <2> SUFFICES ASSUME NEW s PROVE Popped(s, s)
    OBVIOUS
  <2>1. ASSUME s \in Seq(Block)
        PROVE  \A i \in 1 .. Len(s) : i + (Len(s) - Len(s)) = i
    <3>1. Len(s) \in Nat
      BY <2>1
    <3> QED BY <3>1
  <2> QED BY <2>1 DEF Popped
<1>2. ASSUME NEW r, NEW s, NEW t, Popped(r, s), Popped(s, t)
      PROVE  Popped(r, t)
  <2> SUFFICES ASSUME r \in Seq(Block)
               PROVE  /\ t \in Seq(Block) /\ Len(t) <= Len(r)
                      /\ \A i \in 1 .. Len(t) : t[i] = r[i + (Len(r) - Len(t))]
    BY DEF Popped
  <2>1. /\ s \in Seq(Block) /\ Len(s) <= Len(r)
        /\ \A i \in 1 .. Len(s) : s[i] = r[i + (Len(r) - Len(s))]
    BY <1>2 DEF Popped
  <2>2. /\ t \in Seq(Block) /\ Len(t) <= Len(s)
        /\ \A i \in 1 .. Len(t) : t[i] = s[i + (Len(s) - Len(t))]
    BY <1>2, <2>1 DEF Popped
  <2>3. Len(r) \in Nat /\ Len(s) \in Nat /\ Len(t) \in Nat
    BY <1>2, <2>1, <2>2
  <2>4. ASSUME NEW i \in 1 .. Len(t)
        PROVE  t[i] = r[i + (Len(r) - Len(t))]
    <3> DEFINE j == i + (Len(s) - Len(t))
    <3>1. j \in 1 .. Len(s) /\ j + (Len(r) - Len(s)) = i + (Len(r) - Len(t))
      BY <2>2, <2>3
    <3>2. t[i] = s[j]
      BY <2>2
    <3> HIDE DEF j
    <3>3. s[j] = r[j + (Len(r) - Len(s))]
      BY <2>1, <3>1
    <3> QED BY <3>1, <3>2, <3>3
  <2> QED BY <2>1, <2>2, <2>3, <2>4
<1> QED BY <1>1, <1>2

\* Growing is reflexive and transitive.
LEMMA GrowsTrans ==
  /\ \A m : Grows(m, m)
  /\ \A m, n, z : Grows(m, n) /\ Grows(n, z) => Grows(m, z)
BY PoppedTrans DEF Grows, Under

\* The block that was taken last between m and z, and whether it has no entries of
\* an index block: what it reads as is itself.
LastTaken(m, z) == m.free[Len(m.free) - Len(z.free)]

DataTaken(m, z) ==
  \/ z = m
  \/ /\ Len(z.free) < Len(m.free)
     /\ z.index[LastTaken(m, z)][0] = LastTaken(m, z)

\* What is seen in a cell of the memory's own file.
LEMMA SeenOwn ==
  ASSUME NEW N \in [File -> INodeType], NEW f \in File, NEW m \in Memory, NEW cell
  PROVE  Seen(N, f, m, f, cell) = Get(m, cell)
<1>1. With(N, f, m.inode)[f] = m.inode
  BY DEF With
<1> QED BY <1>1, ValueIs DEF Seen

\* The entries of the block in a cell are cells one level down.
LEMMA EntriesOfCell ==
  ASSUME NEW N \in [File -> INodeType], NEW f \in File, NEW m \in Memory, NEW L,
         Forest(L, N, f, m), NEW cell, NEW h \in 1 .. 3, IsCell(L, f, cell, h),
         Get(m, cell) # NoBlk, NEW e \in Entry
  PROVE  /\ Get(m, cell) \in Block /\ L[Get(m, cell)] = Tag(f, cell, h)
         /\ IsCell(L, f, EntryCell(Get(m, cell), e), h - 1)
<1> DEFINE b == Get(m, cell)
<1>1. cell \in Cell /\ h \in 0 .. 3
  BY IsCellType
<1>2. b = Seen(N, f, m, f, cell)
  BY SeenOwn
<1>3. b \in Block
  <2>1. With(N, f, m.inode)[f] \in INodeType
    BY MemoryFields DEF With
  <2>2. b \in Id
    BY <1>1, <1>2, <2>1, ValueType DEF Seen
  <2> QED BY <2>2 DEF Id
<1> HIDE DEF b
<1>4. b # NoBlk
  BY DEF b
<1>5. L[b] = Tag(f, cell, h)
  BY <1>1, <1>2, <1>4 DEF Forest
<1>6. HeldAt(L, b, f, h)
  BY <1>5 DEF HeldAt
<1>7. h - 1 \in 0 .. 2 /\ (h - 1) + 1 = h
  OBVIOUS
<1>8. IsCell(L, f, EntryCell(b, e), h - 1)
  BY <1>3, <1>6, <1>7 DEF IsCell
<1> QED BY <1>3, <1>5, <1>8 DEF b

\* Where a descent is: at a cell, or given up there.
Going(m, cell) == [m |-> m, cell |-> cell, ok |-> TRUE]
Stuck(m, cell) == [m |-> m, cell |-> cell, ok |-> FALSE]

\* The parts of a descent.
LEMMA GoingFields ==
  ASSUME NEW m, NEW cell
  PROVE  /\ Going(m, cell).m = m /\ Going(m, cell).cell = cell /\ Going(m, cell).ok
         /\ Stuck(m, cell).m = m /\ Stuck(m, cell).cell = cell /\ ~Stuck(m, cell).ok
<1>1. /\ Going(m, cell).m = m /\ Going(m, cell).cell = cell
      /\ Stuck(m, cell).m = m /\ Stuck(m, cell).cell = cell
  BY DEF Going, Stuck
<1>2. Going(m, cell).ok
  BY DEF Going
<1>3. ~Stuck(m, cell).ok
  BY DEF Stuck
<1> QED BY <1>1, <1>2, <1>3

IndexUse == "index"
DataUse  == "data"
NewEntries(b, use) == IF use = IndexUse THEN BlankIndex ELSE Junk(b)

\* What balloc writes in a new block are entries.
LEMMA NewEntriesType ==
  ASSUME NEW b \in Block, NEW use
  PROVE  NewEntries(b, use) \in [Entry -> Id]
BY DEF NewEntries, BlankIndex, Junk, Id

\* allocDBlk and what balloc does with its result, by cases.
LEMMA FillIs ==
  ASSUME NEW m, NEW cell, NEW use
  PROVE  /\ m.free = <<>> => Fill(m, cell, use) = Stuck(m, cell)
         /\ m.free # <<>> =>
              LET b == Head(m.free)
              IN  Fill(m, cell, use) =
                    Going(Stored(m, cell, b, b, NewEntries(b, use), Tail(m.free)), cell)
<1>1. CASE m.free = <<>>
  BY <1>1 DEF Fill, Stuck
<1>2. CASE m.free # <<>>
  BY <1>2 DEF Fill, Going, Stored, NewEntries, IndexUse
<1> QED BY <1>1, <1>2

\* One file's blocks, and those of the others, are all apart.
Apart(N, f, m) == m \in Memory /\ \E L : Forest(L, N, f, m)

\* allocDBlk takes the head of the free list.
LEMMA PoppedTail ==
  ASSUME NEW s \in Seq(Block), s # <<>>
  PROVE  Popped(s, Tail(s)) /\ Len(Tail(s)) = Len(s) - 1
<1>1. Tail(s) \in Seq(Block) /\ Len(Tail(s)) = Len(s) - 1 /\ Len(s) \in Nat
  OBVIOUS
<1>2. \A i \in 1 .. Len(Tail(s)) : Tail(s)[i] = s[i + 1]
  BY <1>1
<1>3. Len(s) - Len(Tail(s)) = 1 /\ Len(Tail(s)) <= Len(s)
  BY <1>1
<1> QED BY <1>1, <1>2, <1>3 DEF Popped

\* What filling a cell that is empty, or is not in the inode, leaves.
LEMMA FillLeaves ==
  ASSUME NEW N \in [File -> INodeType], NEW f \in File, NEW m \in Memory, NEW L,
         Forest(L, N, f, m), m.free # <<>>,
         NEW cell, NEW h \in 0 .. 3, IsCell(L, f, cell, h),
         Get(m, cell) = NoBlk \/ (\E p, e : cell = EntryCell(p, e)),
         NEW use, h = 0 \/ use = IndexUse
  PROVE  LET b == Head(m.free)
             z == Stored(m, cell, b, b, NewEntries(b, use), Tail(m.free))
         IN  /\ b \in Block /\ z \in Memory /\ Grows(m, z) /\ Get(z, cell) = b
             /\ Forest(With(L, b, Tag(f, cell, h)), N, f, z)
             /\ IsCell(With(L, b, Tag(f, cell, h)), f, cell, h)
             /\ z.free = Tail(m.free) /\ z.index[b] = NewEntries(b, use)
<1> DEFINE b == Head(m.free)
           rest == Tail(m.free)
           entries == NewEntries(b, use)
           z == Stored(m, cell, b, b, entries, rest)
           M == With(L, b, Tag(f, cell, h))
<1>1. m.free \in Seq(Block)
  BY MemoryFields
<1>2. b \in Block /\ rest \in Seq(Block) /\ b \in Id
  BY <1>1, TailFree DEF Id
<1>3. entries \in [Entry -> Id]
  BY <1>2, NewEntriesType
<1>4. h = 0 \/ entries = BlankIndex
  BY DEF NewEntries
<1>5. Forest(M, N, f, z) /\ L[b] = Unheld
  <2> HIDE DEF entries
  <2> QED BY <1>3, <1>4, FillForest
<1>6. cell \in Cell
  BY IsCellType
<1> HIDE DEF b, rest, entries
<1>7. \A e \in Entry : cell # EntryCell(b, e)
  <2> SUFFICES ASSUME NEW e \in Entry, cell = EntryCell(b, e) PROVE FALSE
    OBVIOUS
  <2>1. HeldAt(L, b, f, h + 1)
    BY EntryIsCell
  <2> QED BY <1>5, <2>1, Tags DEF HeldAt
<1>8. /\ z \in Memory
      /\ z.inode.filesize = m.inode.filesize /\ z.free = rest /\ z.index[b] = entries
      /\ \A d \in Cell : (\A e \in Entry : d # EntryCell(b, e)) =>
           Get(z, d) = IF d = cell THEN b ELSE Get(m, d)
  BY <1>2, <1>3, <1>6, StoredFields
<1>9. Get(z, cell) = b
  BY <1>6, <1>7, <1>8
<1> HIDE DEF z
<1>10. Grows(m, z)
  <2>0. Popped(m.free, z.free)
    BY <1>1, <1>8, PoppedTail DEF rest
  <2>1. ASSUME NEW k \in 0 .. NDirect - 1
        PROVE  m.inode.direct[k] = NoBlk \/ m.inode.direct[k] = z.inode.direct[k]
    <3> DEFINE d == DirectCell(k)
    <3>1. d \in Cell /\ (\A p, e : d # EntryCell(p, e))
      BY CellsDiffer DEF Cell
    <3>2. Get(m, d) = m.inode.direct[k] /\ Get(z, d) = z.inode.direct[k]
      BY GetIs
    <3> HIDE DEF d
    <3>3. Get(z, d) = IF d = cell THEN b ELSE Get(m, d)
      BY <1>8, <3>1
    <3> QED BY <3>1, <3>2, <3>3
  <2>2. ASSUME NEW k \in 1 .. 3
        PROVE  m.inode.indirect[k] = NoBlk \/ m.inode.indirect[k] = z.inode.indirect[k]
    <3> DEFINE d == RootCell(k)
    <3>1. d \in Cell /\ (\A p, e : d # EntryCell(p, e))
      BY CellsDiffer DEF Cell
    <3>2. Get(m, d) = m.inode.indirect[k] /\ Get(z, d) = z.inode.indirect[k]
      BY GetIs
    <3> HIDE DEF d
    <3>3. Get(z, d) = IF d = cell THEN b ELSE Get(m, d)
      BY <1>8, <3>1
    <3> QED BY <3>1, <3>2, <3>3
  <2> QED BY <1>8, <2>0, <2>1, <2>2 DEF Grows, Under
<1>11. IsCell(M, f, cell, h)
  <2>1. M = [a \in Block |-> IF a = b THEN Tag(f, cell, h) ELSE L[a]]
    <3>1. L = [a \in Block |-> L[a]]
      BY DEF Forest
    <3> QED BY <3>1 DEF With
  <2>2. CASE \E p \in Block, e \in Entry : cell = EntryCell(p, e) /\ HeldAt(L, p, f, h + 1)
    <3>1. PICK p \in Block, e \in Entry : cell = EntryCell(p, e) /\ HeldAt(L, p, f, h + 1)
      BY <2>2
    <3>2. p # b
      BY <1>7, <3>1
    <3>3. M[p] = L[p]
      BY <2>1, <3>2
    <3>4. HeldAt(M, p, f, h + 1)
      BY <3>1, <3>3 DEF HeldAt
    <3>5. h \in 0 .. 2
      BY <3>1, CellsDiffer DEF IsCell
    <3> QED BY <3>1, <3>4, <3>5 DEF IsCell
  <2> QED BY <2>2 DEF IsCell
<1> QED BY <1>2, <1>5, <1>8, <1>9, <1>10, <1>11 DEF z, entries, rest, b

\* The same without the free list and the entries.
LEMMA FillKeeps ==
  ASSUME NEW N \in [File -> INodeType], NEW f \in File, NEW m \in Memory, NEW L,
         Forest(L, N, f, m), m.free # <<>>,
         NEW cell, NEW h \in 0 .. 3, IsCell(L, f, cell, h),
         Get(m, cell) = NoBlk \/ (\E p, e : cell = EntryCell(p, e)),
         NEW use, h = 0 \/ use = IndexUse
  PROVE  LET b == Head(m.free)
             z == Stored(m, cell, b, b, NewEntries(b, use), Tail(m.free))
         IN  /\ b \in Block /\ z \in Memory /\ Grows(m, z) /\ Get(z, cell) = b
             /\ Forest(With(L, b, Tag(f, cell, h)), N, f, z)
             /\ IsCell(With(L, b, Tag(f, cell, h)), f, cell, h)
BY FillLeaves

\* A step of balloc's descent, by cases.
LEMMA DescendIs ==
  ASSUME NEW m, NEW cell, NEW e
  PROVE  /\ Descend(Stuck(m, cell), e) = Stuck(m, cell)
         /\ Get(m, cell) # NoBlk =>
              Descend(Going(m, cell), e) = Going(m, EntryCell(Get(m, cell), e))
         /\ Get(m, cell) = NoBlk /\ m.free = <<>> =>
              Descend(Going(m, cell), e) = Stuck(m, cell)
         /\ Get(m, cell) = NoBlk /\ m.free # <<>> =>
              LET b == Head(m.free)
                  z == Stored(m, cell, b, b, NewEntries(b, IndexUse), Tail(m.free))
              IN  Descend(Going(m, cell), e) = Going(z, EntryCell(Get(z, cell), e))
<1> DEFINE b == Head(m.free)
           z == Stored(m, cell, b, b, NewEntries(b, IndexUse), Tail(m.free))
           going == Going(m, cell)
           stuck == Stuck(m, cell)
           goingz == Going(z, cell)
           filled == Fill(m, cell, IndexUse)
<1>1. /\ going.m = m /\ going.cell = cell /\ going.ok
      /\ stuck.m = m /\ stuck.cell = cell /\ ~stuck.ok
      /\ goingz.m = z /\ goingz.ok
  BY GoingFields
<1>2. /\ m.free = <<>> => filled = stuck
      /\ m.free # <<>> => filled = goingz
  BY FillIs
<1>3. Descend(stuck, e) = stuck
  <2> HIDE DEF stuck
  <2> QED BY <1>1 DEF Descend
<1>4. CASE Get(m, cell) # NoBlk
  <2>1. Descend(going, e) = [m |-> m, cell |-> EntryCell(Get(m, cell), e), ok |-> TRUE]
    <3> HIDE DEF going
    <3> QED BY <1>1, <1>4 DEF Descend
  <2> QED BY <1>3, <1>4, <2>1 DEF Going
<1>5. CASE Get(m, cell) = NoBlk
  <2>1. Descend(going, e) = IF filled.ok
                              THEN [m |-> filled.m, cell |-> EntryCell(Get(filled.m, cell), e),
                                    ok |-> TRUE]
                              ELSE filled
    <3> HIDE DEF going
    <3> QED BY <1>1, <1>5 DEF Descend, IndexUse
  <2>2. CASE m.free = <<>>
    <3>1. Descend(going, e) = stuck
      <4> HIDE DEF going, stuck, filled
      <4> QED BY <1>1, <1>2, <2>1, <2>2
    <3> QED BY <1>3, <1>5, <2>2, <3>1
  <2>3. CASE m.free # <<>>
    <3>1. Descend(going, e) = [m |-> z, cell |-> EntryCell(Get(z, cell), e), ok |-> TRUE]
      <4> HIDE DEF going, stuck, filled, goingz, z
      <4> QED BY <1>1, <1>2, <2>1, <2>3
    <3>2. Going(z, EntryCell(Get(z, cell), e)) =
            [m |-> z, cell |-> EntryCell(Get(z, cell), e), ok |-> TRUE]
      BY DEF Going
    <3> HIDE DEF z
    <3> QED BY <1>3, <1>5, <2>3, <3>1, <3>2 DEF z
  <2> QED BY <2>2, <2>3
<1> QED BY <1>4, <1>5

\* The descent for a file block of f, h levels above the data, from m0: the
\* blocks are apart, and it has given up or is at a cell of f.
OnTheWay(N, f, m0, start, h, a) ==
  \E m, L, cell :
    /\ m \in Memory /\ Grows(m0, m) /\ Forest(L, N, f, m)
    /\ \/ a = Stuck(m, cell)
       \/ /\ a = Going(m, cell) /\ IsCell(L, f, cell, h)
          /\ (\E p, e : cell = EntryCell(p, e)) \/ (cell = start /\ m = m0)

\* One step of the descent goes one level down, or gives up.
LEMMA DescendStep ==
  ASSUME NEW N \in [File -> INodeType], NEW f \in File, NEW m0, NEW start, NEW h \in 1 .. 3,
         NEW a, OnTheWay(N, f, m0, start, h, a), NEW e \in Entry
  PROVE  OnTheWay(N, f, m0, start, h - 1, Descend(a, e))
<1>1. PICK m, L, cell :
        /\ m \in Memory /\ Grows(m0, m) /\ Forest(L, N, f, m)
        /\ \/ a = Stuck(m, cell)
           \/ a = Going(m, cell) /\ IsCell(L, f, cell, h)
  BY DEF OnTheWay
<1>2. CASE a = Stuck(m, cell)
  <2>1. Descend(a, e) = Stuck(m, cell)
    BY <1>2, DescendIs
  <2> QED BY <1>1, <2>1 DEF OnTheWay
<1>3. CASE a = Going(m, cell) /\ IsCell(L, f, cell, h)
  <2>1. CASE Get(m, cell) # NoBlk
    <3> DEFINE d == EntryCell(Get(m, cell), e)
    <3>1. Descend(a, e) = Going(m, d)
      BY <1>3, <2>1, DescendIs
    <3>2. IsCell(L, f, d, h - 1)
      BY <1>1, <1>3, <2>1, EntriesOfCell
    <3> HIDE DEF d
    <3>3. \E p, y : d = EntryCell(p, y)
      BY DEF d
    <3> QED BY <1>1, <3>1, <3>2, <3>3 DEF OnTheWay
  <2>2. CASE Get(m, cell) = NoBlk /\ m.free = <<>>
    <3>1. Descend(a, e) = Stuck(m, cell)
      BY <1>3, <2>2, DescendIs
    <3> QED BY <1>1, <3>1 DEF OnTheWay
  <2>3. CASE Get(m, cell) = NoBlk /\ m.free # <<>>
    <3> DEFINE b == Head(m.free)
               z == Stored(m, cell, b, b, NewEntries(b, IndexUse), Tail(m.free))
               M == With(L, b, Tag(f, cell, h))
               d == EntryCell(b, e)
    <3>1. /\ b \in Block /\ z \in Memory /\ Grows(m, z) /\ Get(z, cell) = b
          /\ Forest(M, N, f, z) /\ IsCell(M, f, cell, h)
      BY <1>1, <1>3, <2>3, FillKeeps
    <3>2. Descend(a, e) = Going(z, EntryCell(Get(z, cell), e))
      BY <1>3, <2>3, DescendIs
    <3> HIDE DEF b, z, M
    <3>3. Descend(a, e) = Going(z, d)
      BY <3>1, <3>2
    <3>4. b # NoBlk
      BY <3>1, GeometryAssumption
    <3>5. IsCell(M, f, d, h - 1)
      BY <3>1, <3>4, EntriesOfCell
    <3>6. Grows(m0, z)
      BY <1>1, <3>1, GrowsTrans
    <3> HIDE DEF d
    <3>7. \E p, y : d = EntryCell(p, y)
      BY DEF d
    <3> QED BY <3>1, <3>3, <3>5, <3>6, <3>7 DEF OnTheWay
  <2> QED BY <2>1, <2>2, <2>3
<1> QED BY <1>1, <1>2, <1>3

\* The functions that define Way and Descent exist.
NextWay(m, k, blk, i) == IF blk = NoBlk THEN NoBlk ELSE m.index[blk][Route(k).path[i]]

IsWay(b, m, k, n) ==
  b = [i \in 0 .. n |-> IF i = 0 THEN Get(m, Route(k).start) ELSE NextWay(m, k, b[i - 1], i)]

\* Way is the function its definition describes.
LEMMA WayIs ==
  ASSUME NEW m, NEW k, Len(Route(k).path) \in Nat
  PROVE  IsWay(Way(m, k), m, k, Len(Route(k).path))
<1> DEFINE N == Len(Route(k).path)
           S == {n \in 0 .. N : \E b : IsWay(b, m, k, n)}
<1>1. 0 \in S
  <2> DEFINE b == [i \in 0 .. 0 |-> Get(m, Route(k).start)]
  <2>1. IsWay(b, m, k, 0)
    BY DEF IsWay
  <2> HIDE DEF b
  <2> QED BY <2>1
<1>2. ASSUME NEW n \in 0 .. N - 1, n \in S
      PROVE  n + 1 \in S
  <2>1. PICK b : IsWay(b, m, k, n)
    BY <1>2
  <2> DEFINE c == [i \in 0 .. n + 1 |-> IF i <= n THEN b[i]
                                        ELSE NextWay(m, k, b[n], n + 1)]
  <2>2. ASSUME NEW i \in 0 .. n + 1
        PROVE  c[i] = IF i = 0 THEN Get(m, Route(k).start)
                      ELSE NextWay(m, k, c[i - 1], i)
    BY <2>1 DEF IsWay
  <2>3. IsWay(c, m, k, n + 1)
    BY <2>2 DEF IsWay
  <2> HIDE DEF c
  <2> QED BY <2>3
<1>3. \A n \in 0 .. N : n \in S
  <2> HIDE DEF S
  <2> QED BY <1>1, <1>2, UpTo
<1>4. \E b : IsWay(b, m, k, N)
  BY <1>3
<1> DEFINE w == CHOOSE b : IsWay(b, m, k, N)
<1>5. IsWay(w, m, k, N)
  BY <1>4
<1>6. Way(m, k) = w
  BY DEF Way, IsWay, NextWay
<1> QED BY <1>5, <1>6

IsDescent(a, m, k, n) ==
  a = [i \in 0 .. n |-> IF i = 0 THEN Going(m, Route(k).start)
                        ELSE Descend(a[i - 1], Route(k).path[i])]

\* Descent is the last value of the function it is defined by.
LEMMA DescentIs ==
  ASSUME NEW m, NEW k, Len(Route(k).path) \in Nat
  PROVE  \E a : /\ IsDescent(a, m, k, Len(Route(k).path))
                /\ Descent(m, k) = a[Len(Route(k).path)]
<1> DEFINE N == Len(Route(k).path)
           S == {n \in 0 .. N : \E a : IsDescent(a, m, k, n)}
<1>1. 0 \in S
  <2> DEFINE a == [i \in 0 .. 0 |-> Going(m, Route(k).start)]
  <2>1. IsDescent(a, m, k, 0)
    BY DEF IsDescent
  <2> HIDE DEF a
  <2> QED BY <2>1
<1>2. ASSUME NEW n \in 0 .. N - 1, n \in S
      PROVE  n + 1 \in S
  <2>1. PICK a : IsDescent(a, m, k, n)
    BY <1>2
  <2> DEFINE c == [i \in 0 .. n + 1 |-> IF i <= n THEN a[i]
                                        ELSE Descend(a[n], Route(k).path[n + 1])]
  <2>2. ASSUME NEW i \in 0 .. n + 1
        PROVE  c[i] = IF i = 0 THEN Going(m, Route(k).start)
                      ELSE Descend(c[i - 1], Route(k).path[i])
    BY SMTT(30), <2>1 DEF IsDescent
  <2>3. IsDescent(c, m, k, n + 1)
    BY <2>2 DEF IsDescent
  <2> HIDE DEF c
  <2> QED BY <2>3
<1>3. \A n \in 0 .. N : n \in S
  <2> HIDE DEF S
  <2> QED BY <1>1, <1>2, UpTo
<1>4. \E a : IsDescent(a, m, k, N)
  BY <1>3
<1> DEFINE w == CHOOSE a : IsDescent(a, m, k, N)
<1>5. IsDescent(w, m, k, N)
  BY <1>4
<1>6. Descent(m, k) = w[N]
  BY DEF Descent, IsDescent, Going
<1> QED BY <1>5, <1>6

\* The first cell of a way is a cell of the file, at the way's height.
LEMMA StartIsCell ==
  ASSUME NEW L, NEW f, NEW k \in 0 .. LastFileBlk
  PROVE  IsCell(L, f, Route(k).start, Len(Route(k).path))
<1>1. /\ Len(Route(k).path) \in 0 .. 3
      /\ Len(Route(k).path) = 0 => k \in 0 .. NDirect - 1 /\ Route(k).start = DirectCell(k)
      /\ Len(Route(k).path) # 0 => Route(k).start = RootCell(Len(Route(k).path))
  BY RouteType
<1> QED BY <1>1 DEF IsCell

\* By induction over the levels.
LEMMA DescentKeeps ==
  ASSUME NEW N \in [File -> INodeType], NEW f \in File, NEW m \in Memory, NEW L,
         Forest(L, N, f, m), NEW k \in 0 .. LastFileBlk
  PROVE  OnTheWay(N, f, m, Route(k).start, 0, Descent(m, k))
<1> DEFINE path == Route(k).path
           start == Route(k).start
           last == Len(path)
<1>1. path \in Seq(Entry) /\ last \in 0 .. 3
  BY RouteType
<1>2. PICK a : IsDescent(a, m, k, last) /\ Descent(m, k) = a[last]
  BY <1>1, DescentIs
<1>3. IsCell(L, f, start, last)
  BY StartIsCell
<1> HIDE DEF start
<1> DEFINE S == {n \in 0 .. last : OnTheWay(N, f, m, start, last - n, a[n])}
<1>4. 0 \in S
  <2>1. a[0] = Going(m, start)
    BY <1>1, <1>2 DEF IsDescent, start
  <2>2. OnTheWay(N, f, m, start, last, Going(m, start))
    BY <1>3, GrowsTrans DEF OnTheWay
  <2>3. last - 0 = last
    BY <1>1
  <2> QED BY <1>1, <2>1, <2>2, <2>3
<1>5. ASSUME NEW n \in 0 .. last - 1, n \in S
      PROVE  n + 1 \in S
  <2>1. a[n + 1] = Descend(a[n], path[n + 1])
    BY <1>1, <1>2 DEF IsDescent
  <2>2. path[n + 1] \in Entry /\ last - n \in 1 .. 3 /\ (last - n) - 1 = last - (n + 1)
    <3>1. last \in 0 .. 3 /\ n \in Nat /\ n + 1 \in 1 .. last
      BY <1>1
    <3>2. path[n + 1] \in Entry
      BY <1>1, <3>1
    <3> HIDE DEF last
    <3> QED BY <3>1, <3>2
  <2>3. OnTheWay(N, f, m, start, last - n, a[n])
    BY <1>5
  <2>4. OnTheWay(N, f, m, start, (last - n) - 1, a[n + 1])
    BY <2>1, <2>2, <2>3, DescendStep
  <2>5. n + 1 \in 0 .. last
    BY <1>1
  <2> QED BY <2>2, <2>4, <2>5
<1>6. \A n \in 0 .. last : n \in S
  <2> HIDE DEF S
  <2>1. last \in Nat
    BY <1>1
  <2> QED BY <1>4, <1>5, <2>1, UpTo
<1>7. last \in 0 .. last /\ last - last = 0
  BY <1>1
<1> QED BY <1>2, <1>6, <1>7 DEF start

\* balloc keeps the blocks apart, and what the inode holds.  If it succeeds the
\* block it took last, if any, is the one for the data.
LEMMA BallocKeeps ==
  ASSUME NEW N \in [File -> INodeType], NEW f \in File, NEW m, Apart(N, f, m),
         NEW k \in 0 .. LastFileBlk
  PROVE  /\ Apart(N, f, Balloc(m, k).m) /\ Grows(m, Balloc(m, k).m)
         /\ Balloc(m, k).ok => DataTaken(m, Balloc(m, k).m)
<1> DEFINE path == Route(k).path
           start == Route(k).start
           a == Descent(m, k)
           z == IF a.ok THEN Fill(a.m, a.cell, DataUse) ELSE a
<1>1. m \in Memory
  BY DEF Apart
<1>2. PICK L : Forest(L, N, f, m)
  BY DEF Apart
<1>3. CASE Bmap(m, k) # NoBlk
  <2>1. Balloc(m, k).m = m
    BY <1>3 DEF Balloc
  <2> QED BY <2>1, GrowsTrans DEF DataTaken
<1>4. CASE Bmap(m, k) = NoBlk
  <2>1. Balloc(m, k).m = z.m /\ Balloc(m, k).ok = z.ok
    <3>1. Balloc(m, k) = [m |-> z.m, ok |-> z.ok]
      BY <1>4 DEF Balloc, DataUse
    <3> HIDE DEF z
    <3> QED BY <3>1
  <2>2. OnTheWay(N, f, m, start, 0, a)
    BY <1>1, <1>2, DescentKeeps
  <2> HIDE DEF a
  <2>3. PICK n, M, cell :
          /\ n \in Memory /\ Grows(m, n) /\ Forest(M, N, f, n)
          /\ \/ a = Stuck(n, cell)
             \/ /\ a = Going(n, cell) /\ IsCell(M, f, cell, 0)
                /\ (\E p, e : cell = EntryCell(p, e)) \/ (cell = start /\ n = m)
    <3> HIDE DEF start
    <3> QED BY <2>2 DEF OnTheWay
  <2>4. CASE a = Stuck(n, cell)
    <3>1. ~a.ok /\ a.m = n
      BY <2>4, GoingFields
    <3>2. z.m = n /\ ~z.ok
      BY <3>1
    <3> QED BY <2>1, <2>3, <3>2 DEF Apart
  <2>5. CASE /\ a = Going(n, cell) /\ IsCell(M, f, cell, 0)
             /\ (\E p, e : cell = EntryCell(p, e)) \/ (cell = start /\ n = m)
    <3>1. a.ok /\ a.m = n /\ a.cell = cell
      BY <2>5, GoingFields
    <3>2. z = Fill(n, cell, DataUse)
      BY <3>1
    <3>3. CASE n.free = <<>>
      <4>1. z = Stuck(n, cell)
        BY <3>2, <3>3, FillIs
      <4>2. z.m = n /\ ~z.ok
        BY <4>1, GoingFields
      <4> QED BY <2>1, <2>3, <4>2 DEF Apart
    <3>4. CASE n.free # <<>>
      <4> DEFINE b == Head(n.free)
                 y == Stored(n, cell, b, b, NewEntries(b, DataUse), Tail(n.free))
      <4>1. z = Going(y, cell)
        BY <3>2, <3>4, FillIs
      <4>2. z.m = y
        BY <4>1, GoingFields
      <4>3. Get(n, cell) = NoBlk \/ (\E p, e : cell = EntryCell(p, e))
        <5> SUFFICES ASSUME cell = start, n = m PROVE Get(m, start) = NoBlk
          BY <2>5
        <5>1. /\ Len(path) \in 0 .. 3
              /\ Len(path) # 0 => start = RootCell(Len(path))
          BY RouteType
        <5>2. Len(path) = 0
          BY <2>5, <5>1, CellsDiffer DEF IsCell
        <5>3. IsWay(Way(m, k), m, k, Len(path))
          BY <5>1, WayIs
        <5>4. Way(m, k)[0] = Get(m, start)
          BY <5>1, <5>3 DEF IsWay
        <5>5. Bmap(m, k) = Way(m, k)[0]
          <6>1. LastFileBlk \in Int
            BY GeometryAssumption DEF LastFileBlk
          <6>2. ~(k > LastFileBlk)
            BY <6>1
          <6> QED BY <5>2, <6>2 DEF Bmap
        <5> QED BY <1>4, <5>4, <5>5
      <4>4. /\ y \in Memory /\ Grows(n, y)
            /\ y.free = Tail(n.free) /\ y.index[b] = NewEntries(b, DataUse)
            /\ Forest(With(M, b, Tag(f, cell, 0)), N, f, y)
        <5>1. 0 \in 0 .. 3
          OBVIOUS
        <5> QED BY <2>3, <2>5, <3>4, <4>3, <5>1, FillLeaves
      <4>5. DataTaken(m, y)
        <5>1. /\ n.free \in Seq(Block) /\ m.free \in Seq(Block)
              /\ Tail(n.free) \in Seq(Block) /\ b \in Block /\ b = n.free[1]
          BY <1>1, <2>3, <3>4, TailFree, MemoryFields
        <5>4. y.index[b][0] = b
          <6>1. NewEntries(b, DataUse)[0] = b
            BY GeometryAssumption DEF NewEntries, DataUse, IndexUse, Junk, Entry
          <6> QED BY <4>4, <6>1
        <5>5. Popped(m.free, n.free)
          BY <2>3 DEF Grows
        <5> HIDE DEF y, b
        <5>6. /\ Len(n.free) \in Nat \ {0} /\ Len(n.free) <= Len(m.free) /\ Len(m.free) \in Nat
              /\ n.free[1] = m.free[1 + (Len(m.free) - Len(n.free))]
          <6>1. Len(n.free) \in Nat \ {0}
            BY <3>4, <5>1
          <6>2. 1 \in 1 .. Len(n.free) /\ Len(m.free) \in Nat
            BY <5>1, <6>1
          <6> QED BY <5>1, <5>5, <6>1, <6>2 DEF Popped
        <5>7. Len(y.free) = Len(n.free) - 1
          BY <3>4, <4>4, <5>1, PoppedTail
        <5>8. /\ 1 + (Len(m.free) - Len(n.free)) = Len(m.free) - Len(y.free)
              /\ Len(y.free) < Len(m.free)
          BY <5>6, <5>7
        <5>9. LastTaken(m, y) = b
          BY <5>1, <5>6, <5>8 DEF LastTaken
        <5> QED BY <5>4, <5>8, <5>9 DEF DataTaken
      <4> HIDE DEF y
      <4>6. Grows(m, y)
        BY <2>3, <4>4, GrowsTrans
      <4> QED BY <2>1, <4>2, <4>4, <4>5, <4>6 DEF Apart
    <3> QED BY <3>3, <3>4
  <2> QED BY <2>3, <2>4, <2>5
<1> QED BY <1>3, <1>4

-----------------------------------------------------------------------------
(* bfree.                                                                    *)

\* freeDBlk and the -1 in the cell, as one store.
LEMMA ReleaseIs ==
  ASSUME NEW m \in Memory, NEW cell \in Cell
  PROVE  Release(m, cell) =
           Stored(m, cell, NoBlk, Get(m, cell), Junk(Get(m, cell)), <<Get(m, cell)>> \o m.free)
<1> DEFINE b == Get(m, cell)
           n == Put(m, cell, NoBlk)
<1>1. n.free = m.free
  <2>1. NoBlk \in Id
    BY DEF Id
  <2> QED BY <2>1, PutFields
<1>2. Release(m, cell) = [n EXCEPT !.free = <<b>> \o n.free, !.index[b] = Junk(b)]
  BY DEF Release
<1>3. Stored(m, cell, NoBlk, b, Junk(b), <<b>> \o m.free)
        = [n EXCEPT !.free = <<b>> \o m.free, !.index[b] = Junk(b)]
  BY DEF Stored
<1> HIDE DEF n, b
<1> QED BY <1>1, <1>2, <1>3 DEF b

\* After a call that released blocks some are free; if it released none, it changed
\* nothing.
Returned(m, z) == z = m \/ z.free # <<>>

\* What is released is free.
LEMMA ReleaseFrees ==
  ASSUME NEW m \in Memory, NEW cell \in Cell
  PROVE  Release(m, cell).free # <<>>
<1> DEFINE b == Get(m, cell)
           n == Put(m, cell, NoBlk)
<1>1. n \in Memory
  <2>1. NoBlk \in Id
    BY DEF Id
  <2> QED BY <2>1, PutFields
<1>2. Release(m, cell) = [n EXCEPT !.free = <<b>> \o n.free, !.index[b] = Junk(b)]
  BY DEF Release
<1> HIDE DEF n, b
<1>3. Release(m, cell).free = <<b>> \o n.free
  BY <1>1, <1>2 DEF Memory
<1>4. n.free \in Seq(Block)
  BY <1>1, MemoryFields
<1>5. Len(<<b>> \o n.free) # 0
  BY <1>4
<1> QED BY <1>3, <1>5

\* The way to a file block that exists: there is a block at each place of it, in
\* a cell of the file.
LEMMA WayCells ==
  ASSUME NEW N \in [File -> INodeType], NEW f \in File, NEW m \in Memory, NEW L,
         Forest(L, N, f, m), NEW k \in 0 .. LastFileBlk, Bmap(m, k) # NoBlk
  PROVE  LET last == Len(Route(k).path)
         IN  \A q \in 0 .. last :
               /\ IsCell(L, f, CellOn(m, k, q), last - q)
               /\ Get(m, CellOn(m, k, q)) = Way(m, k)[q] /\ Way(m, k)[q] # NoBlk
<1> DEFINE path == Route(k).path
           last == Len(path)
           w == Way(m, k)
<1>1. path \in Seq(Entry) /\ last \in 0 .. 3
  BY RouteType
<1>2. IsWay(w, m, k, last)
  BY <1>1, WayIs
<1>3. /\ w[0] = Get(m, Route(k).start)
      /\ \A q \in 1 .. last : w[q] = NextWay(m, k, w[q - 1], q)
  <2>1. last \in 0 .. 3
    BY <1>1
  <2> HIDE DEF last, w
  <2> QED BY <1>2, <2>1 DEF IsWay
<1>4. w[last] # NoBlk
  BY DEF Bmap
<1> HIDE DEF w
<1>5. \A q \in 0 .. last : w[q] # NoBlk
  <2> DEFINE S == {n \in 0 .. last : w[last - n] # NoBlk}
  <2>1. 0 \in S
    <3>1. last - 0 = last /\ 0 \in 0 .. last
      BY <1>1
    <3> QED BY <1>4, <3>1
  <2>2. ASSUME NEW n \in 0 .. last - 1, n \in S
        PROVE  n + 1 \in S
    <3> DEFINE q == last - n
    <3>1. q \in 1 .. last /\ q - 1 = last - (n + 1) /\ n + 1 \in 0 .. last
      BY <1>1
    <3>2. w[q] # NoBlk
      BY <2>2
    <3> HIDE DEF q
    <3>3. w[q - 1] # NoBlk
      BY <1>3, <3>1, <3>2 DEF NextWay
    <3> QED BY <3>1, <3>3
  <2>3. \A n \in 0 .. last : n \in S
    <3> HIDE DEF S
    <3>1. last \in Nat
      BY <1>1
    <3> QED BY <2>1, <2>2, <3>1, UpTo
  <2>4. ASSUME NEW q \in 0 .. last
        PROVE  w[q] # NoBlk
    <3>1. last - q \in 0 .. last /\ last - (last - q) = q
      BY <1>1
    <3>2. w[last - (last - q)] # NoBlk
      BY <2>3, <3>1
    <3> QED BY <3>1, <3>2
  <2> QED BY <2>4
<1> DEFINE S == {q \in 0 .. last : IsCell(L, f, CellOn(m, k, q), last - q)
                                   /\ Get(m, CellOn(m, k, q)) = w[q]}
<1>6. 0 \in S
  <2>1. CellOn(m, k, 0) = Route(k).start
    BY DEF CellOn
  <2>2. IsCell(L, f, Route(k).start, last)
    BY StartIsCell
  <2>3. last - 0 = last /\ 0 \in 0 .. last
    BY <1>1
  <2> QED BY <1>3, <2>1, <2>2, <2>3
<1>7. ASSUME NEW q \in 0 .. last - 1, q \in S
      PROVE  q + 1 \in S
  <2> DEFINE cell == CellOn(m, k, q)
             b == w[q]
             e == path[q + 1]
  <2>1. /\ IsCell(L, f, cell, last - q) /\ Get(m, cell) = b
    BY <1>7
  <2>2. last - q \in 1 .. 3 /\ q + 1 \in 1 .. last /\ (q + 1) - 1 = q /\ q \in 0 .. last
        /\ (last - q) - 1 = last - (q + 1) /\ q + 1 # 0
    <3>1. last \in 0 .. 3 /\ q \in 0 .. last - 1
      BY <1>1
    <3> HIDE DEF last
    <3> QED BY <3>1
  <2>3. e \in Entry
    BY <1>1, <2>2
  <2>4. CellOn(m, k, q + 1) = EntryCell(b, e)
    BY <2>2 DEF CellOn, w
  <2>5. b # NoBlk
    BY <1>5, <2>2
  <2>6. w[q + 1] = m.index[b][e]
    <3>1. w[q + 1] = NextWay(m, k, b, q + 1)
      BY <1>3, <2>2
    <3> QED BY <2>5, <3>1 DEF NextWay
  <2> HIDE DEF cell, b, e
  <2>7. IsCell(L, f, EntryCell(b, e), (last - q) - 1)
    BY <2>1, <2>2, <2>3, <2>5, EntriesOfCell
  <2>8. Get(m, EntryCell(b, e)) = w[q + 1]
    BY <2>6, GetIs
  <2> QED BY <2>2, <2>4, <2>7, <2>8
<1>8. \A q \in 0 .. last : q \in S
  <2> HIDE DEF S
  <2>1. last \in Nat
    BY <1>1
  <2> QED BY <1>6, <1>7, <2>1, UpTo
<1> QED BY <1>5, <1>8 DEF w

NextFreed(m, k, n, i) ==
  LET last == Len(Route(k).path)
  IN  IF \A j \in last + 2 - i .. last : Route(k).path[j] = 0
        THEN Release(n, CellOn(m, k, last + 1 - i)) ELSE n

IsFreeing(n, m, k, x) ==
  n = [i \in 0 .. x |-> IF i = 0 THEN m ELSE NextFreed(m, k, n[i - 1], i)]

\* Bfree is the last value of the function it is defined by.
LEMMA BfreeIs ==
  ASSUME NEW m, NEW k, Len(Route(k).path) \in Nat, Bmap(m, k) # NoBlk
  PROVE  \E n : /\ IsFreeing(n, m, k, Len(Route(k).path) + 1)
                /\ Bfree(m, k) = n[Len(Route(k).path) + 1]
<1> DEFINE N == Len(Route(k).path) + 1
           S == {x \in 0 .. N : \E n : IsFreeing(n, m, k, x)}
<1>1. 0 \in S
  <2> DEFINE n == [i \in 0 .. 0 |-> m]
  <2>1. IsFreeing(n, m, k, 0)
    BY DEF IsFreeing
  <2> HIDE DEF n
  <2> QED BY <2>1
<1>2. ASSUME NEW x \in 0 .. N - 1, x \in S
      PROVE  x + 1 \in S
  <2>1. PICK n : IsFreeing(n, m, k, x)
    BY <1>2
  <2> DEFINE c == [i \in 0 .. x + 1 |-> IF i <= x THEN n[i]
                                        ELSE NextFreed(m, k, n[x], x + 1)]
  <2>2. ASSUME NEW i \in 0 .. x + 1
        PROVE  c[i] = IF i = 0 THEN m ELSE NextFreed(m, k, c[i - 1], i)
    BY <2>1 DEF IsFreeing
  <2>3. IsFreeing(c, m, k, x + 1)
    BY <2>2 DEF IsFreeing
  <2> HIDE DEF c
  <2> QED BY <2>3
<1>3. \A x \in 0 .. N : x \in S
  <2> HIDE DEF S
  <2>1. N \in Nat
    OBVIOUS
  <2> HIDE DEF N
  <2> QED BY <1>1, <1>2, <2>1, UpTo
<1>4. \E n : IsFreeing(n, m, k, N)
  BY <1>3
<1> DEFINE w == CHOOSE n : IsFreeing(n, m, k, N)
<1>5. IsFreeing(w, m, k, N)
  BY <1>4
<1>6. Bfree(m, k) = w[N]
  BY DEF Bfree, IsFreeing, NextFreed
<1> QED BY <1>5, <1>6

\* What Release leaves: the cells further up hold what they held.
LEMMA ReleaseKeeps ==
  ASSUME NEW N \in [File -> INodeType], NEW f \in File, NEW m \in Memory, NEW L,
         Forest(L, N, f, m), NEW cell, NEW h \in 0 .. 3, IsCell(L, f, cell, h),
         Get(m, cell) # NoBlk
  PROVE  /\ Release(m, cell) \in Memory
         /\ \E M : /\ Forest(M, N, f, Release(m, cell))
                   /\ \A d \in Cell, i \in 0 .. 3 :
                        IsCell(L, f, d, i) /\ i > h =>
                          IsCell(M, f, d, i) /\ Get(Release(m, cell), d) = Get(m, d)
<1> DEFINE b == Get(m, cell)
           put == <<b>> \o m.free
           z == Stored(m, cell, NoBlk, b, Junk(b), put)
           M == With(L, b, Unheld)
<1>1. cell \in Cell
  BY IsCellType
<1>2. Release(m, cell) = z
  BY <1>1, ReleaseIs
<1>3. b = Seen(N, f, m, f, cell) /\ b # NoBlk
  BY SeenOwn
<1>4. b \in Block
  <2>1. With(N, f, m.inode)[f] \in INodeType
    BY MemoryFields DEF With
  <2>2. b \in Id
    BY <1>1, <1>3, <2>1, ValueType DEF Seen
  <2> QED BY <1>3, <2>2 DEF Id
<1> DEFINE entries == Junk(b)
<1>5. entries \in [Entry -> Id]
  BY <1>4 DEF Junk, Id
<1> HIDE DEF b, entries
<1>6. /\ Forest(M, N, f, z)
      /\ \A d \in Cell, i \in 0 .. 3 :
           IsCell(L, f, d, i) /\ i >= h /\ d # cell =>
             IsCell(M, f, d, i) /\ Seen(N, f, z, f, d) = Seen(N, f, m, f, d)
  <2>1. LET y == Stored(m, cell, NoBlk, b, entries, <<b>> \o m.free)
        IN  /\ Forest(M, N, f, y)
            /\ \A d \in Cell, i \in 0 .. 3 :
                 IsCell(L, f, d, i) /\ i >= h /\ d # cell =>
                   IsCell(M, f, d, i) /\ Seen(N, f, y, f, d) = Seen(N, f, m, f, d)
    BY <1>3, <1>5, ReleaseForest
  <2> QED BY <2>1 DEF entries
<1>7. z \in Memory
  <2>1. m.free \in Seq(Block)
    BY MemoryFields
  <2>2. put \in Seq(Block) /\ NoBlk \in Id
    BY <1>4, <2>1 DEF Id
  <2> HIDE DEF put
  <2>3. Stored(m, cell, NoBlk, b, entries, put) \in Memory
    BY <1>1, <1>4, <1>5, <2>2, StoredFields
  <2> QED BY <2>3 DEF entries
<1> HIDE DEF z, M
<1>8. ASSUME NEW d \in Cell, NEW i \in 0 .. 3, IsCell(L, f, d, i), i > h
      PROVE  IsCell(M, f, d, i) /\ Get(z, d) = Get(m, d)
  <2>1. d # cell
    <3>1. d = cell => i = h
      BY <1>8, CellUnique
    <3> QED BY <1>8, <3>1
  <2>2. IsCell(M, f, d, i) /\ Seen(N, f, z, f, d) = Seen(N, f, m, f, d)
    <3>1. i >= h
      BY <1>8
    <3> QED BY <1>6, <1>8, <2>1, <3>1
  <2> QED BY <1>7, <2>2, SeenOwn
<1> QED BY <1>2, <1>6, <1>7, <1>8

\* After i steps of bfree the blocks are apart, and the cells on the way that
\* are still to be released hold what they held.
Unfreed(N, f, m, k, n, i) ==
  LET last == Len(Route(k).path)
  IN  /\ n \in Memory
      /\ Returned(m, n)
      /\ \E L : /\ Forest(L, N, f, n)
                /\ \A q \in 0 .. last - i :
                     /\ IsCell(L, f, CellOn(m, k, q), last - q)
                     /\ Get(n, CellOn(m, k, q)) = Way(m, k)[q]

\* One step of bfree: the cell at that place is released or is left alone.
LEMMA FreeStep ==
  ASSUME NEW N \in [File -> INodeType], NEW f \in File, NEW m, NEW k \in 0 .. LastFileBlk,
         NEW n, NEW i \in 0 .. Len(Route(k).path), Unfreed(N, f, m, k, n, i),
         \A q \in 0 .. Len(Route(k).path) : Way(m, k)[q] # NoBlk
  PROVE  Unfreed(N, f, m, k, NextFreed(m, k, n, i + 1), i + 1)
<1> DEFINE last == Len(Route(k).path)
           place == last + 1 - (i + 1)
           cell == CellOn(m, k, place)
           z == NextFreed(m, k, n, i + 1)
<1>1. last \in 0 .. 3
  BY RouteType
<1>2. /\ place = last - i /\ place \in 0 .. last /\ last - place = i /\ i \in 0 .. 3
      /\ place \in 0 .. last - i
  <2> HIDE DEF last
  <2>1. i \in 0 .. last
    BY DEF last
  <2> QED BY <1>1, <2>1
<1>3. PICK L : /\ Forest(L, N, f, n)
               /\ \A q \in 0 .. last - i :
                    /\ IsCell(L, f, CellOn(m, k, q), last - q)
                    /\ Get(n, CellOn(m, k, q)) = Way(m, k)[q]
  BY DEF Unfreed
<1>4. n \in Memory /\ Returned(m, n)
  BY DEF Unfreed
<1>5. ASSUME NEW q \in 0 .. last - (i + 1)
      PROVE  q \in 0 .. last - i /\ last - q \in 0 .. 3 /\ last - q > i
  <2> HIDE DEF last
  <2> QED BY <1>1, <1>2
<1>6. CASE z = n
  <2>1. ASSUME NEW q \in 0 .. last - (i + 1)
        PROVE  /\ IsCell(L, f, CellOn(m, k, q), last - q)
               /\ Get(n, CellOn(m, k, q)) = Way(m, k)[q]
    BY <1>3, <1>5
  <2> QED BY <1>3, <1>4, <1>6, <2>1 DEF Unfreed
<1>7. CASE z = Release(n, cell)
  <2>1. IsCell(L, f, cell, i) /\ Get(n, cell) # NoBlk
    <3> HIDE DEF place
    <3> QED BY <1>2, <1>3
  <2> HIDE DEF cell
  <2>0. Returned(m, z)
    <3>1. cell \in Cell
      BY <2>1, IsCellType
    <3>2. Release(n, cell).free # <<>>
      BY <1>4, <3>1, ReleaseFrees
    <3> QED BY <1>7, <3>2 DEF Returned
  <2>2. PICK M : /\ Forest(M, N, f, z)
                 /\ \A d \in Cell, j \in 0 .. 3 :
                      IsCell(L, f, d, j) /\ j > i =>
                        IsCell(M, f, d, j) /\ Get(z, d) = Get(n, d)
    BY <1>2, <1>3, <1>4, <1>7, <2>1, ReleaseKeeps
  <2>3. z \in Memory
    BY <1>2, <1>3, <1>4, <1>7, <2>1, ReleaseKeeps
  <2> HIDE DEF z
  <2>4. ASSUME NEW q \in 0 .. last - (i + 1)
        PROVE  /\ IsCell(M, f, CellOn(m, k, q), last - q)
               /\ Get(z, CellOn(m, k, q)) = Way(m, k)[q]
    <3>1. /\ IsCell(L, f, CellOn(m, k, q), last - q)
          /\ Get(n, CellOn(m, k, q)) = Way(m, k)[q]
      BY <1>3, <1>5
    <3> DEFINE d == CellOn(m, k, q)
               j == last - q
    <3>2. IsCell(L, f, d, j) /\ j \in 0 .. 3 /\ j > i /\ d \in Cell
      BY <1>5, <3>1, IsCellType
    <3> HIDE DEF d, j
    <3>3. IsCell(M, f, d, j) /\ Get(z, d) = Get(n, d)
      BY <2>2, <3>2
    <3> QED BY <3>1, <3>3 DEF d, j
  <2>5. Unfreed(N, f, m, k, z, i + 1)
    BY <2>0, <2>2, <2>3, <2>4 DEF Unfreed
  <2> QED BY <2>5 DEF z
<1>8. z = n \/ z = Release(n, cell)
  BY DEF NextFreed
<1> QED BY <1>6, <1>7, <1>8

\* By induction over the places of the way, from the data block up.
LEMMA BfreeKeeps ==
  ASSUME NEW N \in [File -> INodeType], NEW f \in File, NEW m, Apart(N, f, m), NEW k \in Nat
  PROVE  Apart(N, f, Bfree(m, k)) /\ Returned(m, Bfree(m, k))
<1> DEFINE last == Len(Route(k).path)
<1>1. m \in Memory
  BY DEF Apart
<1>2. PICK L : Forest(L, N, f, m)
  BY DEF Apart
<1>3. CASE Bmap(m, k) = NoBlk
  BY <1>3 DEF Bfree, Returned
<1>4. CASE Bmap(m, k) # NoBlk
  <2>1. k \in 0 .. LastFileBlk
    <3>1. ~(k > LastFileBlk)
      BY <1>4 DEF Bmap
    <3>2. LastFileBlk \in Int
      BY GeometryAssumption DEF LastFileBlk
    <3> QED BY <3>1, <3>2
  <2>2. last \in 0 .. 3
    BY <2>1, RouteType
  <2>3. \A q \in 0 .. last :
          /\ IsCell(L, f, CellOn(m, k, q), last - q)
          /\ Get(m, CellOn(m, k, q)) = Way(m, k)[q] /\ Way(m, k)[q] # NoBlk
    BY <1>1, <1>2, <1>4, <2>1, WayCells
  <2>4. PICK n : IsFreeing(n, m, k, last + 1) /\ Bfree(m, k) = n[last + 1]
    BY <1>4, <2>2, BfreeIs
  <2> DEFINE S == {i \in 0 .. last + 1 : Unfreed(N, f, m, k, n[i], i)}
  <2>5. 0 \in S
    <3>1. n[0] = m
      BY <2>2, <2>4 DEF IsFreeing
    <3>2. last - 0 = last /\ 0 \in 0 .. last + 1
      BY <2>2
    <3>3. Unfreed(N, f, m, k, m, 0)
      BY <1>1, <1>2, <2>3, <3>2 DEF Unfreed, Returned
    <3> QED BY <3>1, <3>2, <3>3
  <2>6. ASSUME NEW i \in 0 .. (last + 1) - 1, i \in S
        PROVE  i + 1 \in S
    <3>1. i \in 0 .. last /\ i + 1 \in 0 .. last + 1 /\ i + 1 # 0 /\ (i + 1) - 1 = i
      <4> HIDE DEF last
      <4> QED BY <2>2
    <3>2. n[i + 1] = NextFreed(m, k, n[i], i + 1)
      <4> HIDE DEF last
      <4> QED BY <2>4, <3>1 DEF IsFreeing
    <3>3. Unfreed(N, f, m, k, n[i], i)
      BY <2>6
    <3>4. Unfreed(N, f, m, k, n[i + 1], i + 1)
      BY <2>1, <2>3, <3>1, <3>2, <3>3, FreeStep
    <3> QED BY <3>1, <3>4
  <2>7. \A i \in 0 .. last + 1 : i \in S
    <3>1. last + 1 \in Nat
      BY <2>2
    <3> DEFINE top == last + 1
    <3> HIDE DEF S, top
    <3>2. \A i \in 0 .. top : i \in S
      BY <2>5, <2>6, <3>1, UpTo DEF top
    <3> QED BY <3>2 DEF top
  <2>8. Unfreed(N, f, m, k, Bfree(m, k), last + 1)
    <3>1. last + 1 \in 0 .. last + 1
      BY <2>2
    <3> QED BY <2>4, <2>7, <3>1
  <2> QED BY <2>8 DEF Unfreed, Apart
<1> QED BY <1>3, <1>4

IsTrim(n, m, from, x) ==
  n = [i \in 0 .. x |-> IF i = 0 THEN m ELSE Bfree(n[i - 1], from + 1 - i)]

\* BfreeDown is the last value of the function it is defined by.
LEMMA BfreeDownIs ==
  ASSUME NEW m, NEW from \in Int, NEW to \in Int, ~(from < to)
  PROVE  \E n : /\ IsTrim(n, m, from, from - to + 1)
                /\ BfreeDown(m, from, to) = n[from - to + 1]
<1> DEFINE N == from - to + 1
           S == {x \in 0 .. N : \E n : IsTrim(n, m, from, x)}
<1>1. 0 \in S
  <2> DEFINE n == [i \in 0 .. 0 |-> m]
  <2>1. IsTrim(n, m, from, 0)
    BY DEF IsTrim
  <2> HIDE DEF n
  <2> QED BY <2>1
<1>2. ASSUME NEW x \in 0 .. N - 1, x \in S
      PROVE  x + 1 \in S
  <2>1. PICK n : IsTrim(n, m, from, x)
    BY <1>2
  <2> DEFINE c == [i \in 0 .. x + 1 |-> IF i <= x THEN n[i]
                                        ELSE Bfree(n[x], from + 1 - (x + 1))]
  <2>2. ASSUME NEW i \in 0 .. x + 1
        PROVE  c[i] = IF i = 0 THEN m ELSE Bfree(c[i - 1], from + 1 - i)
    BY <2>1 DEF IsTrim
  <2>3. IsTrim(c, m, from, x + 1)
    BY <2>2 DEF IsTrim
  <2>4. x + 1 \in 0 .. N
    OBVIOUS
  <2> HIDE DEF c
  <2> QED BY <2>3, <2>4
<1>3. \A x \in 0 .. N : x \in S
  <2> HIDE DEF S
  <2>1. N \in Nat
    OBVIOUS
  <2> HIDE DEF N
  <2> QED BY <1>1, <1>2, <2>1, UpTo
<1>4. N \in 0 .. N
  OBVIOUS
<1>5. \E n : IsTrim(n, m, from, N)
  BY <1>3, <1>4
<1> DEFINE w == CHOOSE n : IsTrim(n, m, from, N)
<1>6. IsTrim(w, m, from, N)
  BY <1>5
<1>7. BfreeDown(m, from, to) = w[N]
  BY DEF BfreeDown, IsTrim
<1> QED BY <1>6, <1>7

\* Releasing the end of a file keeps the blocks apart, by induction over the
\* blocks released.
LEMMA BfreeDownKeeps ==
  ASSUME NEW N \in [File -> INodeType], NEW f \in File, NEW m, Apart(N, f, m),
         NEW from \in Int, NEW to \in Nat
  PROVE  Apart(N, f, BfreeDown(m, from, to)) /\ Returned(m, BfreeDown(m, from, to))
<1>1. CASE from < to
  BY <1>1 DEF BfreeDown, Returned
<1>2. CASE ~(from < to)
  <2> DEFINE top == from - to + 1
  <2>1. PICK n : IsTrim(n, m, from, top) /\ BfreeDown(m, from, to) = n[top]
    BY <1>2, BfreeDownIs
  <2>2. top \in Nat /\ from + 1 - top = to
    BY <1>2
  <2> HIDE DEF top
  <2> DEFINE S == {i \in 0 .. top : Apart(N, f, n[i]) /\ Returned(m, n[i])}
  <2>3. 0 \in S
    <3>1. n[0] = m
      BY <2>1, <2>2 DEF IsTrim
    <3> QED BY <2>2, <3>1 DEF Returned
  <2>4. ASSUME NEW i \in 0 .. top - 1, i \in S
        PROVE  i + 1 \in S
    <3>1. n[i + 1] = Bfree(n[i], from + 1 - (i + 1))
      BY <2>1, <2>2 DEF IsTrim
    <3>2. from + 1 - (i + 1) \in Nat
      BY <2>2
    <3>3. Apart(N, f, n[i]) /\ Returned(m, n[i])
      BY <2>4
    <3>4. Apart(N, f, n[i + 1]) /\ Returned(n[i], n[i + 1])
      BY <3>1, <3>2, <3>3, BfreeKeeps
    <3>5. Returned(m, n[i + 1])
      BY <3>3, <3>4 DEF Returned
    <3> QED BY <2>2, <3>4, <3>5
  <2>5. \A i \in 0 .. top : i \in S
    <3> HIDE DEF S
    <3> QED BY <2>2, <2>3, <2>4, UpTo
  <2> QED BY <2>1, <2>2, <2>5
<1> QED BY <1>1, <1>2

-----------------------------------------------------------------------------
(* writeINodeData.                                                           *)

Count(off, len) == NBlks(off + len) - off \div BlkSize

FirstWrite(m) == [m |-> m, ok |-> TRUE]

NextWrite(a, first, i) == IF a.ok THEN Balloc(a.m, first + i - 1) ELSE a

IsWriting(a, m, first, x) ==
  a = [i \in 0 .. x |-> IF i = 0 THEN FirstWrite(m) ELSE NextWrite(a[i - 1], first, i)]

\* WriteData is the last value of the function it is defined by.
LEMMA WriteDataIs ==
  ASSUME NEW m, NEW off, NEW len, Count(off, len) \in Nat
  PROVE  \E a : /\ IsWriting(a, m, off \div BlkSize, Count(off, len))
                /\ WriteData(m, off, len) = a[Count(off, len)]
<1> DEFINE N == Count(off, len)
           first == off \div BlkSize
           S == {x \in 0 .. N : \E a : IsWriting(a, m, first, x)}
<1>1. 0 \in S
  <2> DEFINE a == [i \in 0 .. 0 |-> FirstWrite(m)]
  <2>1. IsWriting(a, m, first, 0)
    BY DEF IsWriting
  <2> HIDE DEF a
  <2> QED BY <2>1
<1>2. ASSUME NEW x \in 0 .. N - 1, x \in S
      PROVE  x + 1 \in S
  <2>1. PICK a : IsWriting(a, m, first, x)
    BY <1>2
  <2> HIDE DEF first
  <2> DEFINE c == [i \in 0 .. x + 1 |-> IF i <= x THEN a[i] ELSE NextWrite(a[x], first, x + 1)]
  <2>2. ASSUME NEW i \in 0 .. x + 1
        PROVE  c[i] = IF i = 0 THEN FirstWrite(m) ELSE NextWrite(c[i - 1], first, i)
    BY <2>1 DEF IsWriting
  <2>3. IsWriting(c, m, first, x + 1)
    BY <2>2 DEF IsWriting
  <2> HIDE DEF c
  <2> QED BY <2>3
<1>3. \A x \in 0 .. N : x \in S
  <2> HIDE DEF S, N
  <2> QED BY <1>1, <1>2, UpTo DEF N
<1>4. \E a : IsWriting(a, m, first, N)
  BY <1>3
<1> DEFINE w == CHOOSE a : IsWriting(a, m, first, N)
<1>5. IsWriting(w, m, first, N)
  BY <1>4
<1>6. WriteData(m, off, len) = w[N]
  BY DEF WriteData, IsWriting, NextWrite, FirstWrite, Count
<1> QED BY <1>5, <1>6

\* A number of bytes takes a number of blocks.
LEMMA NBlksNat ==
  ASSUME NEW n \in Nat
  PROVE  NBlks(n) \in Nat /\ n + BlkSize - 1 \in Nat
<1>1. BlkSize \in Nat \ {0}
  BY GeometryAssumption
<1>2. n + BlkSize - 1 \in Nat
  BY <1>1
<1> DEFINE x == n + BlkSize - 1
<1> HIDE DEF x
<1>3. x \div BlkSize \in Nat
  BY <1>1, <1>2, DivideNat DEF x
<1> QED BY <1>2, <1>3 DEF NBlks, x

\* A write covers a number of blocks, from one with a number.
LEMMA CountNat ==
  ASSUME NEW off \in Nat, NEW len \in Nat
  PROVE  Count(off, len) \in Nat /\ off \div BlkSize \in Nat
<1> DEFINE q == NBlks(off + len)
           x == off + len + BlkSize - 1
<1>1. BlkSize \in Nat \ {0} /\ off + len \in Nat
  BY GeometryAssumption
<1>2. q \in Nat /\ x \in Nat
  BY <1>1, NBlksNat
<1>3. x < BlkSize * q + BlkSize
  <2> HIDE DEF x
  <2>1. x % BlkSize \in 0 .. BlkSize - 1 /\ x = BlkSize * (x \div BlkSize) + (x % BlkSize)
        /\ x \div BlkSize \in Int
    BY <1>1, <1>2, Divide
  <2>2. q = x \div BlkSize
    BY DEF NBlks, x
  <2>3. BlkSize * q \in Int
    BY <1>1, <1>2
  <2> QED BY <1>1, <2>1, <2>2, <2>3
<1>4. off < BlkSize * q + BlkSize
  <2>1. off <= x
    BY <1>1
  <2>2. BlkSize * q \in Int
    BY <1>1, <1>2
  <2> HIDE DEF x, q
  <2> QED BY <1>1, <1>2, <1>3, <2>1, <2>2
<1>5. off \div BlkSize <= q
  <2> HIDE DEF q
  <2> QED BY <1>1, <1>2, <1>4, DivideAtMost
<1>6. off \div BlkSize \in Nat
  BY <1>1, DivideNat
<1> QED BY <1>2, <1>5, <1>6 DEF Count

\* Of two calls that grow the inode, the last that took a block decides what the
\* block taken last is.
LEMMA DataTakenTrans ==
  ASSUME NEW m \in Memory, NEW n \in Memory, NEW z \in Memory,
         Grows(m, n), Grows(n, z), DataTaken(m, n), DataTaken(n, z)
  PROVE  DataTaken(m, z)
<1>1. CASE z = n
  BY <1>1
<1>2. CASE z # n
  <2>1. /\ m.free \in Seq(Block) /\ n.free \in Seq(Block) /\ z.free \in Seq(Block)
    BY MemoryFields
  <2>0. Len(m.free) \in Nat /\ Len(n.free) \in Nat /\ Len(z.free) \in Nat
    BY <2>1
  <2>2. /\ Len(n.free) <= Len(m.free)
        /\ \A i \in 1 .. Len(n.free) : n.free[i] = m.free[i + (Len(m.free) - Len(n.free))]
    <3>1. Popped(m.free, n.free)
      BY DEF Grows
    <3> QED BY <2>1, <3>1 DEF Popped
  <2>3. Len(z.free) < Len(n.free) /\ z.index[LastTaken(n, z)][0] = LastTaken(n, z)
    BY <1>2 DEF DataTaken
  <2> DEFINE i == Len(n.free) - Len(z.free)
  <2>4. i \in 1 .. Len(n.free) /\ i + (Len(m.free) - Len(n.free)) = Len(m.free) - Len(z.free)
    <3> DEFINE p == Len(m.free)
               q == Len(n.free)
               r == Len(z.free)
    <3>1. p \in Nat /\ q \in Nat /\ r \in Nat /\ r < q
      BY <2>0, <2>3
    <3> HIDE DEF p, q, r
    <3>2. q - r \in 1 .. q /\ (q - r) + (p - q) = p - r
      BY <3>1
    <3> QED BY <3>2 DEF p, q, r
  <2>5. LastTaken(n, z) = LastTaken(m, z)
    <3>1. LastTaken(n, z) = n.free[i]
      BY DEF LastTaken
    <3> HIDE DEF i
    <3> QED BY <2>2, <2>4, <3>1 DEF LastTaken
  <2>6. Len(z.free) < Len(m.free)
    BY <2>0, <2>2, <2>3
  <2> QED BY <2>3, <2>5, <2>6 DEF DataTaken
<1> QED BY <1>1, <1>2

\* A write keeps the blocks apart, and what the inode holds, done or given up.
\* The block that one which succeeds takes last is for the data.
LEMMA WriteDataKeeps ==
  ASSUME NEW N \in [File -> INodeType], NEW f \in File, NEW m, Apart(N, f, m),
         NEW off \in Nat, NEW len \in Nat, NBlks(off + len) - 1 <= LastFileBlk
  PROVE  LET a == WriteData(m, off, len)
         IN  Apart(N, f, a.m) /\ Grows(m, a.m) /\ (a.ok => DataTaken(m, a.m))
<1> DEFINE count == Count(off, len)
           first == off \div BlkSize
<1>1. count \in Nat /\ first \in Nat
  BY CountNat
<1>2. PICK a : IsWriting(a, m, first, count) /\ WriteData(m, off, len) = a[count]
  BY <1>1, WriteDataIs
<1>3. first + count - 1 <= LastFileBlk /\ LastFileBlk \in Int
  <2>1. NBlks(off + len) \in Nat
    BY NBlksNat
  <2>2. first + count = NBlks(off + len)
    <3> DEFINE q == NBlks(off + len)
    <3>1. count = q - first
      BY DEF Count
    <3> HIDE DEF first, count, q
    <3>2. q \in Nat
      BY <2>1 DEF q
    <3>3. first + count = q
      BY <1>1, <3>1, <3>2
    <3> QED BY <3>3 DEF q
  <2>3. LastFileBlk \in Int
    BY GeometryAssumption DEF LastFileBlk
  <2> HIDE DEF first, count
  <2> QED BY <1>1, <2>1, <2>2, <2>3
<1> HIDE DEF first, count
<1> DEFINE Done(x) == /\ Apart(N, f, x.m) /\ Grows(m, x.m)
                      /\ x.ok => DataTaken(m, x.m)
           S == {i \in 0 .. count : Done(a[i])}
<1>4. 0 \in S
  <2>1. a[0] = FirstWrite(m)
    BY <1>1, <1>2 DEF IsWriting
  <2>2. a[0].m = m
    BY <2>1 DEF FirstWrite
  <2> QED BY <1>1, <2>2, GrowsTrans DEF DataTaken
<1>5. ASSUME NEW i \in 0 .. count - 1, i \in S
      PROVE  i + 1 \in S
  <2>1. a[i + 1] = NextWrite(a[i], first, i + 1)
    BY <1>1, <1>2 DEF IsWriting
  <2>2. first + (i + 1) - 1 \in 0 .. LastFileBlk /\ i + 1 \in 0 .. count
    BY <1>1, <1>3
  <2>3. Done(a[i])
    BY <1>5
  <2>4. CASE a[i].ok
    <3> DEFINE n == a[i].m
               k == first + (i + 1) - 1
    <3>1. a[i + 1] = Balloc(n, k)
      BY <2>1, <2>4 DEF NextWrite
    <3> HIDE DEF n, k
    <3>2. k \in 0 .. LastFileBlk /\ Apart(N, f, n) /\ Grows(m, n) /\ DataTaken(m, n)
      BY <2>2, <2>3, <2>4 DEF n, k
    <3>3. /\ Apart(N, f, Balloc(n, k).m) /\ Grows(n, Balloc(n, k).m)
          /\ Balloc(n, k).ok => DataTaken(n, Balloc(n, k).m)
      BY <3>2, BallocKeeps
    <3>4. Grows(m, Balloc(n, k).m)
      BY <3>2, <3>3, GrowsTrans
    <3>5. Balloc(n, k).ok => DataTaken(m, Balloc(n, k).m)
      BY <3>2, <3>3, DataTakenTrans DEF Apart
    <3>6. Done(a[i + 1])
      BY <3>1, <3>3, <3>4, <3>5
    <3> HIDE DEF Done
    <3> QED BY <2>2, <3>6
  <2>5. CASE ~a[i].ok
    <3>1. a[i + 1] = a[i]
      BY <2>1, <2>5 DEF NextWrite
    <3> QED BY <2>2, <2>3, <3>1
  <2> QED BY <2>4, <2>5
<1>6. \A i \in 0 .. count : i \in S
  <2> HIDE DEF S
  <2> QED BY <1>1, <1>4, <1>5, UpTo
<1>7. count \in 0 .. count
  BY <1>1
<1> QED BY <1>2, <1>6, <1>7

-----------------------------------------------------------------------------
(* The inductive invariant.                                                  *)

\* An inode with less in it, or the same inode read for another file: what
\* was apart is apart.
LEMMA Lessened ==
  ASSUME NEW N \in [File -> INodeType], NEW N2 \in [File -> INodeType],
         NEW f \in File, NEW g \in File, NEW m \in Memory, NEW z \in Memory, NEW L,
         Forest(L, N, f, m), z.free = m.free, z.index = m.index,
         \A e \in File : Under(With(N2, g, z.inode)[e], With(N, f, m.inode)[e])
  PROVE  Forest(L, N2, g, z)
<1> DEFINE Old(e, d) == Seen(N, f, m, e, d)
           New(e, d) == Seen(N2, g, z, e, d)
<1>1. ASSUME NEW e \in File, NEW d \in Cell
      PROVE  New(e, d) = NoBlk \/ New(e, d) = Old(e, d)
  <2> DEFINE i == With(N, f, m.inode)[e]
             j == With(N2, g, z.inode)[e]
  <2>1. New(e, d) = ValueIn(z, j, d) /\ Old(e, d) = ValueIn(m, i, d) /\ Under(j, i)
    BY DEF Seen
  <2> HIDE DEF i, j, New, Old
  <2>2. CASE \E k \in 0 .. NDirect - 1 : d = DirectCell(k)
    <3>1. PICK k \in 0 .. NDirect - 1 : d = DirectCell(k)
      BY <2>2
    <3>2. New(e, d) = j.direct[k] /\ Old(e, d) = i.direct[k]
      BY <2>1, <3>1, ValueIs
    <3> QED BY <2>1, <3>2 DEF Under
  <2>3. CASE \E k \in 1 .. 3 : d = RootCell(k)
    <3>1. PICK k \in 1 .. 3 : d = RootCell(k)
      BY <2>3
    <3>2. New(e, d) = j.indirect[k] /\ Old(e, d) = i.indirect[k]
      BY <2>1, <3>1, ValueIs
    <3> QED BY <2>1, <3>2 DEF Under
  <2>4. CASE \E p \in Block, k \in Entry : d = EntryCell(p, k)
    <3>1. PICK p \in Block, k \in Entry : d = EntryCell(p, k)
      BY <2>4
    <3>2. ValueIn(z, j, EntryCell(p, k)) = z.index[p][k]
      BY ValueIs
    <3>3. ValueIn(m, i, EntryCell(p, k)) = m.index[p][k]
      BY ValueIs
    <3> QED BY <2>1, <3>1, <3>2, <3>3
  <2> QED BY <2>2, <2>3, <2>4, CellKinds
<1>2. ASSUME NEW e \in File, NEW d \in Cell, NEW i \in 0 .. 3, IsCell(L, e, d, i)
      PROVE  New(e, d) = NoBlk \/ L[New(e, d)] = Tag(e, d, i)
  <2>1. Old(e, d) = NoBlk \/ L[Old(e, d)] = Tag(e, d, i)
    BY <1>2 DEF Forest
  <2>2. New(e, d) = NoBlk \/ New(e, d) = Old(e, d)
    BY <1>1
  <2> HIDE DEF New, Old
  <2> QED BY <2>1, <2>2
<1> QED BY <1>2 DEF Forest

\* What the free list, the index blocks and an inode are together.
MemoryOf(fr, ix, i) == [free |-> fr, index |-> ix, inode |-> i]

\* The parts of MemoryOf.
LEMMA MemoryOfFields ==
  ASSUME NEW fr \in Seq(Block), NEW ix \in IndexType, NEW i \in INodeType
  PROVE  /\ MemoryOf(fr, ix, i) \in Memory
         /\ MemoryOf(fr, ix, i).free = fr /\ MemoryOf(fr, ix, i).index = ix
         /\ MemoryOf(fr, ix, i).inode = i
BY DEF MemoryOf, Memory

\* The blocks of the inodes N are apart.
AllApart(L, N, fr, ix) == \A f \in File : Forest(L, N, f, MemoryOf(fr, ix, N[f]))

Types == /\ free \in Seq(Block) /\ index \in IndexType
         /\ inode \in [File -> INodeType] /\ dinode \in [File -> INodeType]
         /\ taken \in Id
         /\ holed \in BOOLEAN /\ failed \in BOOLEAN /\ wiped \in BOOLEAN

\* The inodes on disk lead to part of what those in core lead to: a failed
\* write only adds to the inode in core.
IInv == /\ Types
        /\ IsInjective(free)
        /\ \E L : AllApart(L, inode, free, index)
        /\ \A f \in File : Under(dinode[f], inode[f])

\* On a disk that successful writes filled, the block handed out last holds data:
\* it reads as itself.
LastIsData ==
  ~failed /\ free = <<>> => taken = NoBlk \/ index[taken][0] = taken

\* Having less is reflexive and transitive.
LEMMA UnderSelf ==
  /\ \A i : Under(i, i)
  /\ \A i, j, k : Under(i, j) /\ Under(j, k) => Under(i, k)
BY DEF Under

\* From one file's point of view to every file's, when its inode changes to i.
LEMMA Turned ==
  ASSUME NEW N \in [File -> INodeType], NEW f \in File, NEW z, Apart(N, f, z),
         NEW i \in INodeType, Under(i, z.inode)
  PROVE  /\ z.free \in Seq(Block) /\ z.index \in IndexType /\ IsInjective(z.free)
         /\ With(N, f, i) \in [File -> INodeType]
         /\ \E L : AllApart(L, With(N, f, i), z.free, z.index)
<1> DEFINE N2 == With(N, f, i)
<1>1. PICK L : z \in Memory /\ Forest(L, N, f, z)
  BY DEF Apart
<1>2. z.free \in Seq(Block) /\ z.index \in IndexType
  BY <1>1, MemoryFields
<1>3. N2 \in [File -> INodeType] /\ N2[f] = i /\ \A e \in File \ {f} : N2[e] = N[e]
  BY DEF With
<1> HIDE DEF N2
<1>4. ASSUME NEW g \in File
      PROVE  Forest(L, N2, g, MemoryOf(z.free, z.index, N2[g]))
  <2> DEFINE y == MemoryOf(z.free, z.index, N2[g])
  <2>1. N2[g] \in INodeType
    BY <1>3
  <2>2. y \in Memory /\ y.free = z.free /\ y.index = z.index /\ y.inode = N2[g]
    BY <1>2, <2>1, MemoryOfFields
  <2> HIDE DEF y
  <2>3. ASSUME NEW e \in File
        PROVE  Under(With(N2, g, y.inode)[e], With(N, f, z.inode)[e])
    <3>1. With(N2, g, y.inode)[e] = N2[e]
      BY <1>3, <2>2 DEF With
    <3>2. With(N, f, z.inode)[e] = IF e = f THEN z.inode ELSE N[e]
      BY DEF With
    <3>3. CASE e = f
      <4>1. With(N, f, z.inode)[e] = z.inode /\ N2[e] = i
        BY <1>3, <3>2, <3>3
      <4> QED BY <3>1, <4>1
    <3>4. CASE e # f
      <4>1. With(N, f, z.inode)[e] = N[e] /\ N2[e] = N[e]
        BY <1>3, <3>2, <3>4
      <4> QED BY <3>1, <4>1, UnderSelf
    <3> QED BY <3>3, <3>4
  <2>4. Forest(L, N2, g, y)
    BY <1>1, <1>3, <2>2, <2>3, Lessened
  <2> QED BY <2>4 DEF y
<1>5. IsInjective(z.free)
  BY <1>1 DEF Forest
<1> QED BY <1>2, <1>3, <1>4, <1>5 DEF AllApart, N2

\* The invariant, seen by a call on f.
LEMMA CoreApart ==
  ASSUME IInv, NEW f \in File
  PROVE  Apart(inode, f, CoreOf(f)) /\ CoreOf(f).inode = inode[f]
<1>1. CoreOf(f) = MemoryOf(free, index, inode[f])
  BY DEF CoreOf, MemoryOf
<1>2. inode[f] \in INodeType /\ free \in Seq(Block) /\ index \in IndexType
  BY DEF IInv, Types
<1>3. MemoryOf(free, index, inode[f]) \in Memory
      /\ MemoryOf(free, index, inode[f]).inode = inode[f]
  BY <1>2, MemoryOfFields
<1>4. PICK L : AllApart(L, inode, free, index)
  BY DEF IInv
<1> QED BY <1>1, <1>3, <1>4 DEF AllApart, Apart

\* A call on f that leaves z, with i for the inode.
LEMMA ApplyKeeps ==
  ASSUME IInv, NEW f \in File, NEW z, Apart(inode, f, z), NEW i \in INodeType,
         Under(i, z.inode),
         free' = z.free, index' = z.index, inode' = [inode EXCEPT ![f] = i],
         dinode' \in [File -> INodeType],
         \A g \in File : Under(dinode'[g], inode'[g]),
         taken' \in Id, holed' \in BOOLEAN, failed' \in BOOLEAN, wiped' \in BOOLEAN
  PROVE  IInv'
<1>1. inode \in [File -> INodeType]
  BY DEF IInv, Types
<1>2. /\ z.free \in Seq(Block) /\ z.index \in IndexType /\ IsInjective(z.free)
      /\ With(inode, f, i) \in [File -> INodeType]
      /\ \E L : AllApart(L, With(inode, f, i), z.free, z.index)
  BY <1>1, Turned
<1>3. inode' = With(inode, f, i)
  BY DEF With
<1>4. Types'
  BY <1>2, <1>3 DEF Types
<1>5. \E L : AllApart(L, inode', free', index')
  BY <1>2, <1>3
<1>6. IsInjective(free)'
  BY <1>2
<1> QED BY <1>4, <1>5, <1>6 DEF IInv

\* A new inode holds nothing.
LEMMA EmptyIs ==
  /\ EmptyINode \in INodeType
  /\ \A k \in 0 .. NDirect - 1 : EmptyINode.direct[k] = NoBlk
  /\ \A k \in 1 .. 3 : EmptyINode.indirect[k] = NoBlk
  /\ \A i : Under(EmptyINode, i)
<1>1. EmptyINode \in INodeType
  BY DEF EmptyINode, INodeType, Id
<1>2. /\ \A k \in 0 .. NDirect - 1 : EmptyINode.direct[k] = NoBlk
      /\ \A k \in 1 .. 3 : EmptyINode.indirect[k] = NoBlk
  BY DEF EmptyINode
<1> QED BY <1>1, <1>2 DEF Under

\* The invariant holds at first: no block has a label.
LEMMA InitIInv ==
  ASSUME Init
  PROVE  IInv
<1> DEFINE L == [b \in Block |-> Unheld]
<1>1. free \in Seq(Block) /\ IsInjective(free)
  BY GeometryAssumption DEF Init
<1>2. inode = [f \in File |-> EmptyINode] /\ dinode = inode
  BY DEF Init
<1>3. Types
  <2>1. index \in IndexType
    BY DEF Init, IndexType, Junk, Id
  <2>2. inode \in [File -> INodeType] /\ dinode \in [File -> INodeType]
    BY <1>2, EmptyIs
  <2>3. holed = FALSE /\ failed = FALSE
    BY DEF Init
  <2>4. holed \in BOOLEAN /\ failed \in BOOLEAN
    BY <2>3
  <2>5. taken \in Id /\ wiped \in BOOLEAN
    BY DEF Init, Id
  <2> QED BY <1>1, <2>1, <2>2, <2>4, <2>5 DEF Types
<1>4. \A f \in File : Under(dinode[f], inode[f])
  BY <1>2, EmptyIs
<1>5. ASSUME NEW f \in File
      PROVE  Forest(L, inode, f, MemoryOf(free, index, inode[f]))
  <2> DEFINE m == MemoryOf(free, index, inode[f])
  <2>1. inode[f] \in INodeType /\ index \in IndexType
    BY <1>3 DEF Types
  <2>2. m \in Memory /\ m.free = free /\ m.inode = inode[f]
    BY <1>1, <2>1, MemoryOfFields
  <2> HIDE DEF m
  <2>3. ASSUME NEW g \in File, NEW d \in Cell, NEW i \in 0 .. 3, IsCell(L, g, d, i)
        PROVE  Seen(inode, f, m, g, d) = NoBlk
    <3>1. With(inode, f, m.inode)[g] = EmptyINode
      BY <1>2, <2>2 DEF With
    <3>2. Seen(inode, f, m, g, d) = ValueIn(m, EmptyINode, d)
      BY <3>1 DEF Seen
    <3>3. CASE \E k \in 0 .. NDirect - 1 : d = DirectCell(k)
      <4>1. PICK k \in 0 .. NDirect - 1 : d = DirectCell(k)
        BY <3>3
      <4>2. ValueIn(m, EmptyINode, d) = EmptyINode.direct[k]
        BY <2>2, <4>1, ValueIs
      <4> QED BY <3>2, <4>2, EmptyIs
    <3>4. CASE \E k \in 1 .. 3 : d = RootCell(k)
      <4>1. PICK k \in 1 .. 3 : d = RootCell(k)
        BY <3>4
      <4>2. ValueIn(m, EmptyINode, d) = EmptyINode.indirect[k]
        BY <2>2, <4>1, ValueIs
      <4> QED BY <3>2, <4>2, EmptyIs
    <3>5. CASE \E p \in Block, e \in Entry : d = EntryCell(p, e)
      <4>1. PICK p \in Block, e \in Entry : d = EntryCell(p, e)
        BY <3>5
      <4>2. IsCell(L, g, EntryCell(p, e), i)
        BY <2>3, <4>1
      <4>3. HeldAt(L, p, g, i + 1)
        BY <4>2, EntryIsCell
      <4>4. L[p] = Unheld
        OBVIOUS
      <4> HIDE DEF L
      <4> QED BY <4>3, <4>4, Tags DEF HeldAt
    <3> QED BY <3>3, <3>4, <3>5, CellKinds
  <2>4. \A i \in DOMAIN m.free : L[m.free[i]] = Unheld
    <3>1. \A i \in DOMAIN free : free[i] \in Block
      BY <1>1
    <3> QED BY <2>2, <3>1
  <2>5. L = [b \in Block |-> L[b]]
    OBVIOUS
  <2> HIDE DEF L
  <2>6. IsInjective(m.free)
    BY <1>1, <2>2
  <2>7. Forest(L, inode, f, m)
    BY <2>3, <2>4, <2>5, <2>6 DEF Forest
  <2> QED BY <2>7 DEF m
<1>6. \E M : AllApart(M, inode, free, index)
  <2> HIDE DEF L
  <2> QED BY <1>5 DEF AllApart
<1> QED BY <1>1, <1>3, <1>4, <1>6 DEF IInv

\* Another size leaves the blocks of an inode alone.
LEMMA SizedFields ==
  ASSUME NEW z \in Memory, NEW n \in Nat
  PROVE  LET y == [z EXCEPT !.inode.filesize = n]
         IN  /\ y.free = z.free /\ y.index = z.index /\ y.inode \in INodeType
             /\ Under(y.inode, z.inode) /\ Under(z.inode, y.inode)
             /\ y.inode.filesize = n
             /\ y.inode.direct = z.inode.direct /\ y.inode.indirect = z.inode.indirect
<1> DEFINE i == [filesize |-> n, direct |-> z.inode.direct, indirect |-> z.inode.indirect]
           y == [free |-> z.free, index |-> z.index, inode |-> i]
<1>1. [z EXCEPT !.inode.filesize = n] = y
  <2> DEFINE j == [z.inode EXCEPT !.filesize = n]
  <2>1. z = [free |-> z.free, index |-> z.index, inode |-> z.inode]
    BY MemoryFields
  <2>2. j = i
    <3>1. z.inode = [filesize |-> z.inode.filesize, direct |-> z.inode.direct,
                     indirect |-> z.inode.indirect]
      BY MemoryFields
    <3> QED BY <3>1
  <2>3. [z EXCEPT !.inode.filesize = n] = [z EXCEPT !.inode = j]
    OBVIOUS
  <2> HIDE DEF j, i
  <2>4. [z EXCEPT !.inode = j] = [free |-> z.free, index |-> z.index, inode |-> j]
    BY <2>1
  <2> QED BY <2>2, <2>3, <2>4
<1>2. /\ i.direct = z.inode.direct /\ i.indirect = z.inode.indirect /\ i.filesize = n
      /\ i \in INodeType
  BY MemoryFields DEF INodeType
<1> HIDE DEF i
<1>3. y.free = z.free /\ y.index = z.index /\ y.inode = i
  OBVIOUS
<1> HIDE DEF y
<1>4. Under(y.inode, z.inode) /\ Under(z.inode, y.inode)
  BY <1>2, <1>3 DEF Under
<1> QED BY <1>1, <1>2, <1>3, <1>4

\* After a call on f the inodes on disk still lead to part of those in core:
\* that of f was written, or its inode in core only grew.
LEMMA BelowKeeps ==
  ASSUME IInv, NEW f \in File, NEW i \in INodeType, inode' = [inode EXCEPT ![f] = i],
         \/ dinode' = [dinode EXCEPT ![f] = inode'[f]]
         \/ dinode' = dinode /\ Under(inode[f], i)
  PROVE  dinode' \in [File -> INodeType] /\ \A g \in File : Under(dinode'[g], inode'[g])
<1>1. /\ inode \in [File -> INodeType] /\ dinode \in [File -> INodeType]
      /\ \A g \in File : Under(dinode[g], inode[g])
  BY DEF IInv, Types
<1>2. inode'[f] = i /\ \A g \in File \ {f} : inode'[g] = inode[g]
  BY <1>1
<1>3. CASE dinode' = [dinode EXCEPT ![f] = inode'[f]]
  <2>1. dinode' = With(dinode, f, i)
    BY <1>2, <1>3 DEF With
  <2>2. dinode'[f] = i /\ (\A g \in File \ {f} : dinode'[g] = dinode[g])
        /\ dinode' \in [File -> INodeType]
    BY <1>1, <2>1 DEF With
  <2> QED BY <1>1, <1>2, <2>2, UnderSelf
<1>4. CASE dinode' = dinode /\ Under(inode[f], i)
  <2>1. Under(dinode[f], i)
    BY <1>1, <1>4, UnderSelf
  <2> QED BY <1>1, <1>2, <1>4, <2>1
<1> QED BY <1>3, <1>4

\* The block a write took last, and that it is for data if the write succeeds.
LEMMA WriteTakes ==
  ASSUME NEW m \in Memory, NEW z \in Memory, Grows(m, z), NEW old \in Id
  PROVE  LET new == IF z.free = m.free THEN old ELSE LastTaken(m, z)
         IN  /\ new \in Id
             /\ DataTaken(m, z) => (z.free = m.free /\ z = m) \/ z.index[new][0] = new
<1>1. m.free \in Seq(Block) /\ z.free \in Seq(Block)
  BY MemoryFields
<1>2. Len(m.free) \in Nat /\ Len(z.free) \in Nat
  BY <1>1
<1>3. /\ Len(z.free) <= Len(m.free)
      /\ \A i \in 1 .. Len(z.free) : z.free[i] = m.free[i + (Len(m.free) - Len(z.free))]
  <2>1. Popped(m.free, z.free)
    BY DEF Grows
  <2> QED BY <1>1, <2>1 DEF Popped
<1>4. CASE Len(z.free) = Len(m.free)
  <2>1. \A i \in 1 .. Len(z.free) : z.free[i] = m.free[i]
    <3>1. \A i \in 1 .. Len(z.free) : i + (Len(m.free) - Len(z.free)) = i
      BY <1>2, <1>4
    <3> QED BY <1>3, <3>1
  <2>2. z.free = m.free
    <3> DEFINE s == m.free
               t == z.free
    <3>1. s \in Seq(Block) /\ t \in Seq(Block) /\ Len(t) = Len(s)
          /\ \A i \in 1 .. Len(t) : t[i] = s[i]
      BY <1>1, <1>4, <2>1
    <3> HIDE DEF s, t
    <3>2. t = s
      BY <3>1
    <3> QED BY <3>2 DEF s, t
  <2>3. DataTaken(m, z) => z = m
    BY <1>2, <1>4 DEF DataTaken
  <2> QED BY <2>2, <2>3
<1>5. CASE Len(z.free) # Len(m.free)
  <2>1. z.free # m.free
    BY <1>5
  <2>2. Len(m.free) - Len(z.free) \in 1 .. Len(m.free)
    <3> DEFINE p == Len(m.free)
               q == Len(z.free)
    <3>1. p \in Nat /\ q \in Nat /\ q <= p /\ q # p
      BY <1>2, <1>3, <1>5
    <3> HIDE DEF p, q
    <3>2. p - q \in 1 .. p
      BY <3>1
    <3> QED BY <3>2 DEF p, q
  <2>3. LastTaken(m, z) \in Block
    <3> DEFINE i == Len(m.free) - Len(z.free)
    <3>1. LastTaken(m, z) = m.free[i]
      BY DEF LastTaken
    <3> HIDE DEF i
    <3> QED BY <1>1, <2>2, <3>1 DEF i
  <2> QED BY <2>1, <2>3 DEF DataTaken, Id
<1> QED BY <1>4, <1>5

\* l2_write keeps the invariant, when it succeeds and when the disk is full.
LEMMA WriteKeeps ==
  ASSUME IInv, NEW f \in File, NEW off \in Nat, NEW len \in Nat, Write(f, off, len)
  PROVE  IInv' /\ (LastIsData => LastIsData')
<1> DEFINE a   == WriteData(CoreOf(f), off, len)
           end == off + len
           y   == IF end > a.m.inode.filesize
                    THEN [a.m EXCEPT !.inode.filesize = end] ELSE a.m
<1>1. Apart(inode, f, CoreOf(f)) /\ CoreOf(f).inode = inode[f]
  BY CoreApart
<1>2. Apart(inode, f, a.m) /\ Grows(CoreOf(f), a.m) /\ (a.ok => DataTaken(CoreOf(f), a.m))
  <2>1. NBlks(off + len) - 1 <= LastFileBlk
    BY DEF Write
  <2>2. inode \in [File -> INodeType]
    BY DEF IInv, Types
  <2> QED BY <1>1, <2>1, <2>2, WriteDataKeeps
<1>3. Under(inode[f], a.m.inode)
  BY <1>1, <1>2 DEF Grows
<1>4. a.m \in Memory
  BY <1>2 DEF Apart
<1>5. a.m.inode \in INodeType
  BY <1>4, MemoryFields
<1>6. /\ holed \in BOOLEAN /\ failed \in BOOLEAN /\ wiped' \in BOOLEAN /\ taken' \in Id
      /\ a.ok => \/ a.m.free = free /\ a.m.index = index /\ taken' = taken
                 \/ a.m.index[taken'][0] = taken'
  <2> DEFINE m == CoreOf(f)
  <2>1. holed \in BOOLEAN /\ failed \in BOOLEAN /\ wiped \in BOOLEAN /\ taken \in Id
    BY DEF IInv, Types
  <2>2. /\ wiped' = wiped
        /\ taken' = IF a.m.free = free THEN taken ELSE free[Len(free) - Len(a.m.free)]
    BY DEF Write
  <2>3. m.free = free /\ m.index = index /\ m \in Memory
    BY <1>1 DEF CoreOf, Apart
  <2> HIDE DEF m, a
  <2>4. taken' = IF a.m.free = m.free THEN taken ELSE LastTaken(m, a.m)
    BY <2>2, <2>3 DEF LastTaken
  <2>5. /\ taken' \in Id
        /\ DataTaken(m, a.m) => (a.m.free = m.free /\ a.m = m) \/ a.m.index[taken'][0] = taken'
    <3>1. Grows(m, a.m)
      BY <1>2 DEF m
    <3> QED BY <1>4, <2>1, <2>3, <2>4, <3>1, WriteTakes
  <2>6. a.ok => DataTaken(m, a.m)
    BY <1>2 DEF m
  <2> QED BY <2>1, <2>2, <2>3, <2>4, <2>5, <2>6
<1>7. CASE a.ok
  <2>1. /\ Apply(f, y) /\ WriteINode(f)
        /\ holed' = (holed \/ off \div BlkSize > NBlks(inode[f].filesize))
        /\ failed' = failed
    BY <1>7 DEF Write
  <2>2. /\ y.free = a.m.free /\ y.index = a.m.index /\ y.inode \in INodeType
        /\ Under(y.inode, a.m.inode)
    <3> DEFINE m == a.m
    <3>1. m \in Memory /\ m.inode \in INodeType /\ end \in Nat
      BY <1>4, <1>5
    <3> HIDE DEF a, m, end
    <3>2. LET x == [m EXCEPT !.inode.filesize = end]
          IN  /\ x.free = m.free /\ x.index = m.index /\ x.inode \in INodeType
              /\ Under(x.inode, m.inode)
      BY <3>1, SizedFields
    <3>3. CASE end > a.m.inode.filesize
      BY <3>2, <3>3 DEF m
    <3>4. CASE ~(end > a.m.inode.filesize)
      BY <3>1, <3>4, UnderSelf DEF m
    <3> QED BY <3>3, <3>4
  <2> HIDE DEF y, a
  <2>3. /\ free' = y.free /\ index' = y.index /\ inode' = [inode EXCEPT ![f] = y.inode]
        /\ dinode' = [dinode EXCEPT ![f] = inode'[f]]
    BY <2>1 DEF Apply, WriteINode
  <2>4. dinode' \in [File -> INodeType] /\ \A g \in File : Under(dinode'[g], inode'[g])
    BY <2>2, <2>3, BelowKeeps
  <2>5. holed' \in BOOLEAN /\ failed' \in BOOLEAN
    BY <1>6, <2>1
  <2>6. IInv'
    BY <1>2, <1>6, <2>2, <2>3, <2>4, <2>5, ApplyKeeps
  <2>7. free' = a.m.free /\ index' = a.m.index /\ failed' = failed
    BY <2>1, <2>2, <2>3
  <2> QED BY <1>6, <1>7, <2>6, <2>7 DEF LastIsData
<1>8. CASE ~a.ok
  <2>1. Apply(f, a.m) /\ failed' = TRUE /\ dinode' = dinode /\ holed' = holed
    BY <1>8 DEF Write
  <2> HIDE DEF a
  <2>2. free' = a.m.free /\ index' = a.m.index /\ inode' = [inode EXCEPT ![f] = a.m.inode]
    BY <2>1 DEF Apply
  <2>3. dinode' \in [File -> INodeType] /\ \A g \in File : Under(dinode'[g], inode'[g])
    BY <1>3, <1>5, <2>1, <2>2, BelowKeeps
  <2>4. holed' \in BOOLEAN /\ failed' \in BOOLEAN
    BY <1>6, <2>1
  <2>5. Under(a.m.inode, a.m.inode)
    BY UnderSelf
  <2>6. IInv'
    BY <1>2, <1>5, <1>6, <2>2, <2>3, <2>4, <2>5, ApplyKeeps
  <2> QED BY <2>1, <2>6 DEF LastIsData
<1> QED BY <1>7, <1>8

\* The block numbers l2_truncate releases down to are not negative.
LEMMA TruncateDownTo ==
  ASSUME NEW size \in Nat, NEW length \in Nat, length < size
  PROVE  LET last == NBlks(size) - 1
             more == (last * BlkSize - length) \div BlkSize
         IN  last \in Int /\ last - more \in Nat
<1> DEFINE last == NBlks(size) - 1
           d    == last * BlkSize - length
           more == d \div BlkSize
<1>1. BlkSize \in Nat \ {0} /\ NBlks(size) \in Nat
  BY GeometryAssumption, NBlksNat
<1>2. last \in Int
  BY <1>1
<1> HIDE DEF last
<1>3. d \in Int /\ BlkSize * last \in Int /\ BlkSize * last = last * BlkSize
  BY <1>1, <1>2
<1>4. d < BlkSize * last + BlkSize
  BY <1>1, <1>2, <1>3
<1> HIDE DEF d
<1>5. more <= last /\ more \in Int
  BY <1>1, <1>2, <1>3, <1>4, DivideAtMost, Divide
<1> HIDE DEF more
<1>6. last - more \in Nat
  BY <1>2, <1>5
<1> QED BY <1>2, <1>6 DEF last, more, d

\* l2_truncate keeps the invariant.
LEMMA TruncateKeeps ==
  ASSUME IInv, NEW f \in File, NEW length \in Nat, Truncate(f, length)
  PROVE  IInv' /\ (LastIsData => LastIsData')
<1> DEFINE m    == CoreOf(f)
           size == inode[f].filesize
           last == NBlks(size) - 1
           more == (last * BlkSize - length) \div BlkSize
           cut  == IF length < size /\ NBlks(length) # NBlks(size)
                     THEN BfreeDown(m, last, last - more) ELSE m
           y    == [cut EXCEPT !.inode.filesize = length]
<1>1. Apart(inode, f, m)
  BY CoreApart
<1>2. /\ inode \in [File -> INodeType] /\ holed \in BOOLEAN /\ failed \in BOOLEAN
      /\ taken \in Id /\ wiped \in BOOLEAN
  BY DEF IInv, Types
<1>3. Apart(inode, f, cut) /\ Returned(m, cut)
  <2>1. CASE length < size /\ NBlks(length) # NBlks(size)
    <3>1. size \in Nat
      BY <1>2 DEF INodeType
    <3>2. last \in Int /\ last - more \in Nat
      <4> HIDE DEF size
      <4> QED BY <2>1, <3>1, TruncateDownTo
    <3> DEFINE to == last - more
    <3> HIDE DEF m, last, to
    <3>3. last \in Int /\ to \in Nat
      BY <3>2 DEF to
    <3>4. Apart(inode, f, BfreeDown(m, last, to)) /\ Returned(m, BfreeDown(m, last, to))
      BY <1>1, <1>2, <3>3, BfreeDownKeeps
    <3>5. cut = BfreeDown(m, last, to)
      BY <2>1 DEF to, last
    <3> QED BY <3>4, <3>5
  <2>2. CASE ~(length < size /\ NBlks(length) # NBlks(size))
    BY <1>1, <2>2 DEF Returned
  <2> QED BY <2>1, <2>2
<1>4. Apply(f, y) /\ WriteINode(f) /\ failed' = failed /\ taken' = taken /\ wiped' = wiped
      /\ holed' = (holed \/ NBlks(length) > NBlks(size))
  BY DEF Truncate
<1> HIDE DEF cut
<1>5. cut \in Memory
  BY <1>3 DEF Apart
<1>6. /\ y.free = cut.free /\ y.index = cut.index /\ y.inode \in INodeType
      /\ Under(y.inode, cut.inode)
  BY <1>5, SizedFields
<1> HIDE DEF y
<1>7. /\ free' = y.free /\ index' = y.index /\ inode' = [inode EXCEPT ![f] = y.inode]
      /\ dinode' = [dinode EXCEPT ![f] = inode'[f]]
  BY <1>4 DEF Apply, WriteINode
<1>8. dinode' \in [File -> INodeType] /\ \A g \in File : Under(dinode'[g], inode'[g])
  BY <1>6, <1>7, BelowKeeps
<1>9. holed' \in BOOLEAN /\ failed' \in BOOLEAN /\ taken' \in Id /\ wiped' \in BOOLEAN
  BY <1>2, <1>4
<1>10. IInv'
  BY <1>3, <1>6, <1>7, <1>8, <1>9, ApplyKeeps
<1>11. free' = <<>> => free' = free /\ index' = index
  <2>1. m.free = free /\ m.index = index
    BY DEF CoreOf
  <2> HIDE DEF m
  <2> QED BY <1>3, <1>6, <1>7, <2>1 DEF Returned
<1> QED BY <1>4, <1>10, <1>11 DEF LastIsData

\* The release of an inode keeps the invariant.
LEMMA UnlinkKeeps ==
  ASSUME IInv, NEW f \in File, Unlink(f)
  PROVE  IInv' /\ (LastIsData => LastIsData')
<1> DEFINE m == BfreeDown(CoreOf(f), NBlks(inode[f].filesize), 0)
           y == [m EXCEPT !.inode = EmptyINode]
<1>1. Apart(inode, f, CoreOf(f))
  BY CoreApart
<1>2. /\ inode \in [File -> INodeType] /\ holed \in BOOLEAN /\ failed \in BOOLEAN
      /\ taken \in Id /\ wiped \in BOOLEAN
  BY DEF IInv, Types
<1>3. NBlks(inode[f].filesize) \in Nat
  <2>1. inode[f].filesize \in Nat
    BY <1>2 DEF INodeType
  <2> QED BY <2>1, NBlksNat
<1>4. Apart(inode, f, m) /\ Returned(CoreOf(f), m)
  <2> DEFINE from == NBlks(inode[f].filesize)
  <2>1. from \in Int
    BY <1>3
  <2> HIDE DEF from
  <2>2. 0 \in Nat
    OBVIOUS
  <2>3. /\ Apart(inode, f, BfreeDown(CoreOf(f), from, 0))
        /\ Returned(CoreOf(f), BfreeDown(CoreOf(f), from, 0))
    BY <1>1, <1>2, <2>1, <2>2, BfreeDownKeeps
  <2> QED BY <2>3 DEF from
<1>5. /\ Apply(f, y) /\ WriteINode(f) /\ failed' = failed /\ holed' = holed
      /\ taken' = taken /\ wiped' = wiped
  BY DEF Unlink
<1> HIDE DEF m
<1>6. m \in Memory
  BY <1>4 DEF Apart
<1>7. /\ y.free = m.free /\ y.index = m.index /\ y.inode = EmptyINode
  BY <1>6, MemoryFields
<1>8. y.inode \in INodeType /\ Under(y.inode, m.inode)
  BY <1>7, EmptyIs
<1> HIDE DEF y
<1>9. /\ free' = y.free /\ index' = y.index /\ inode' = [inode EXCEPT ![f] = y.inode]
      /\ dinode' = [dinode EXCEPT ![f] = inode'[f]]
  BY <1>5 DEF Apply, WriteINode
<1>10. dinode' \in [File -> INodeType] /\ \A g \in File : Under(dinode'[g], inode'[g])
  BY <1>8, <1>9, BelowKeeps
<1>11. holed' \in BOOLEAN /\ failed' \in BOOLEAN /\ taken' \in Id /\ wiped' \in BOOLEAN
  BY <1>2, <1>5
<1>12. IInv'
  BY <1>4, <1>7, <1>8, <1>9, <1>10, <1>11, ApplyKeeps
<1>13. free' = <<>> => free' = free /\ index' = index
  <2> DEFINE c == CoreOf(f)
  <2>1. c.free = free /\ c.index = index
    BY DEF CoreOf
  <2>2. Returned(c, m)
    BY <1>4
  <2> HIDE DEF c
  <2> QED BY <1>7, <1>9, <2>1, <2>2 DEF Returned
<1> QED BY <1>5, <1>12, <1>13 DEF LastIsData

\* l2_read's write of the inode keeps the invariant.
LEMMA ReadBackKeeps ==
  ASSUME IInv, NEW f \in File, ReadBack(f)
  PROVE  IInv'
<1>1. /\ free' = free /\ index' = index /\ inode' = inode /\ holed' = holed /\ failed' = failed
      /\ taken' = taken /\ wiped' = wiped
      /\ dinode' = [dinode EXCEPT ![f] = inode'[f]]
  BY DEF ReadBack, WriteINode
<1>2. Types /\ IsInjective(free) /\ (\E L : AllApart(L, inode, free, index))
      /\ \A g \in File : Under(dinode[g], inode[g])
  BY DEF IInv
<1>3. inode \in [File -> INodeType] /\ dinode \in [File -> INodeType]
  BY <1>2 DEF Types
<1>4. dinode' \in [File -> INodeType]
  BY <1>1, <1>3
<1>5. ASSUME NEW g \in File
      PROVE  Under(dinode'[g], inode'[g])
  <2>1. dinode'[g] = inode[g] \/ dinode'[g] = dinode[g]
    BY <1>1, <1>3
  <2> QED BY <1>1, <1>2, <2>1, UnderSelf
<1>6. Types'
  BY <1>1, <1>2, <1>4 DEF Types
<1> QED BY <1>1, <1>2, <1>5, <1>6 DEF IInv

\* What the inodes on disk lead to is apart too.
LEMMA BelowApart ==
  ASSUME IInv, NEW L, AllApart(L, inode, free, index)
  PROVE  AllApart(L, dinode, free, index)
<1>1. /\ inode \in [File -> INodeType] /\ dinode \in [File -> INodeType]
      /\ free \in Seq(Block) /\ index \in IndexType
      /\ \A g \in File : Under(dinode[g], inode[g])
  BY DEF IInv, Types
<1>2. ASSUME NEW g \in File
      PROVE  Forest(L, dinode, g, MemoryOf(free, index, dinode[g]))
  <2> DEFINE m == MemoryOf(free, index, inode[g])
             z == MemoryOf(free, index, dinode[g])
  <2>1. inode[g] \in INodeType /\ dinode[g] \in INodeType
    BY <1>1
  <2>2. /\ m \in Memory /\ m.free = free /\ m.index = index /\ m.inode = inode[g]
        /\ z \in Memory /\ z.free = free /\ z.index = index /\ z.inode = dinode[g]
    BY <1>1, <2>1, MemoryOfFields
  <2>3. Forest(L, inode, g, m)
    BY DEF AllApart
  <2> HIDE DEF m, z
  <2>4. ASSUME NEW e \in File
        PROVE  Under(With(dinode, g, z.inode)[e], With(inode, g, m.inode)[e])
    <3>1. With(dinode, g, z.inode)[e] = dinode[e] /\ With(inode, g, m.inode)[e] = inode[e]
      BY <1>1, <2>2 DEF With
    <3> QED BY <1>1, <3>1
  <2>5. Forest(L, dinode, g, z)
    BY <1>1, <2>2, <2>3, <2>4, Lessened
  <2> QED BY <2>5 DEF z
<1> QED BY <1>2 DEF AllApart

\* A remount keeps the invariant, unless the unmount overwrote an index block.
LEMMA RemountKeeps ==
  ASSUME IInv, Remount, ~wiped'
  PROVE  IInv'
<1>1. /\ free' = free /\ index' = index /\ inode' = dinode /\ dinode' = dinode
      /\ holed' = holed /\ failed' = failed /\ taken' = taken /\ wiped' \in BOOLEAN
  BY DEF Remount
<1>2. Types /\ IsInjective(free)
  BY DEF IInv
<1>3. PICK L : AllApart(L, inode, free, index)
  BY DEF IInv
<1>4. AllApart(L, dinode, free, index)
  BY <1>3, BelowApart
<1>5. Types'
  BY <1>1, <1>2 DEF Types
<1>6. \A g \in File : Under(dinode'[g], inode'[g])
  BY <1>1, UnderSelf
<1> QED BY <1>1, <1>2, <1>4, <1>5, <1>6 DEF IInv

\* Every step keeps the invariant, up to that unmount.
LEMMA StepIInv ==
  ASSUME IInv, [Next]_vars, ~wiped'
  PROVE  IInv'
<1>1. CASE \E f \in File, w \in Writes : Write(f, w[1], w[2])
  <2>1. PICK f \in File, w \in Writes : Write(f, w[1], w[2])
    BY <1>1
  <2>2. w[1] \in Nat /\ w[2] \in Nat
    BY GeometryAssumption
  <2> QED BY <2>1, <2>2, WriteKeeps
<1>2. CASE \E f \in File, length \in Lengths : Truncate(f, length)
  <2>1. PICK f \in File, length \in Lengths : Truncate(f, length)
    BY <1>2
  <2>2. length \in Nat
    BY GeometryAssumption
  <2> QED BY <2>1, <2>2, TruncateKeeps
<1>3. CASE \E f \in File : Unlink(f)
  BY <1>3, UnlinkKeeps
<1>4. CASE \E f \in File : ReadBack(f)
  BY <1>4, ReadBackKeeps
<1>5. CASE Remount
  BY <1>5, RemountKeeps
<1>6. CASE UNCHANGED vars
  BY <1>6 DEF vars, IInv, Types, AllApart
<1> QED BY <1>1, <1>2, <1>3, <1>4, <1>5, <1>6 DEF Next

-----------------------------------------------------------------------------
(* A block is in one place.                                                  *)

\* What a cell of a file holds has the label of that cell.
LEMMA Labelled ==
  ASSUME Types, NEW N \in [File -> INodeType], NEW L, AllApart(L, N, free, index),
         NEW f \in File, NEW d \in Cell, NEW h \in 0 .. 3, IsCell(L, f, d, h),
         InCell(N[f], d) # NoBlk
  PROVE  InCell(N[f], d) \in Block /\ L[InCell(N[f], d)] = Tag(f, d, h)
<1> DEFINE m == MemoryOf(free, index, N[f])
<1>1. N[f] \in INodeType /\ free \in Seq(Block) /\ index \in IndexType
  BY DEF Types
<1>2. m \in Memory /\ m.inode = N[f]
  BY <1>1, MemoryOfFields
<1>3. Get(m, d) = InCell(N[f], d)
  BY DEF MemoryOf, InCell
<1>4. Forest(L, N, f, m)
  BY DEF AllApart
<1> HIDE DEF m
<1>5. Seen(N, f, m, f, d) = Get(m, d)
  BY <1>2, SeenOwn
<1>6. With(N, f, m.inode)[f] \in INodeType
  BY <1>1, <1>2 DEF With
<1>7. Seen(N, f, m, f, d) \in Id
  BY <1>2, <1>6, ValueType DEF Seen
<1>8. Seen(N, f, m, f, d) = NoBlk \/ L[Seen(N, f, m, f, d)] = Tag(f, d, h)
  BY <1>4 DEF Forest
<1> QED BY <1>3, <1>5, <1>7, <1>8 DEF Id

\* What each kind of cell holds in the current state.
LEMMA InCellIs ==
  ASSUME NEW i
  PROVE  /\ \A k : InCell(i, DirectCell(k)) = i.direct[k]
         /\ \A k : InCell(i, RootCell(k)) = i.indirect[k]
         /\ \A b, e : InCell(i, EntryCell(b, e)) = index[b][e]
<1> DEFINE m == [free |-> free, index |-> index, inode |-> i]
<1>1. m.inode = i /\ m.index = index
  OBVIOUS
<1>2. \A d : InCell(i, d) = Get(m, d)
  BY DEF InCell
<1> HIDE DEF m
<1> QED BY <1>1, <1>2, GetIs

\* What an entry holds in the current state.
LEMMA InEntry ==
  ASSUME NEW i, NEW b, NEW e
  PROVE  InCell(i, EntryCell(b, e)) = index[b][e]
BY InCellIs

\* The index blocks an inode leads to are index blocks of its file, so the
\* cells of an inode are cells of its file.
LEMMA CellsOfFile ==
  ASSUME Types, NEW N \in [File -> INodeType], NEW L, AllApart(L, N, free, index),
         NEW f \in File, NEW d \in CellsOf(N[f])
  PROVE  \E h \in 0 .. 3 : IsCell(L, f, d, h)
<1> DEFINE i == N[f]
           At(h) == {b \in Block : HeldAt(L, b, f, h)}
           h3 == Root(i, 3)
           h2 == Root(i, 2) \union EntriesOf(h3)
           h1 == Root(i, 1) \union EntriesOf(h2)
<1>1. i.direct \in [0 .. NDirect - 1 -> Id]
  BY DEF INodeType
<1>2. ASSUME NEW h \in 1 .. 3
      PROVE  Root(i, h) \subseteq At(h)
  <2> SUFFICES ASSUME NEW b \in Root(i, h)
               PROVE  b \in At(h)
    OBVIOUS
  <2>1. b = i.indirect[h] /\ b # NoBlk
    BY DEF Root
  <2>2. RootCell(h) \in Cell /\ IsCell(L, f, RootCell(h), h) /\ h \in 0 .. 3
    BY DEF Cell, IsCell
  <2>3. InCell(i, RootCell(h)) = b
    BY <2>1, InCellIs
  <2>4. b \in Block /\ L[b] = Tag(f, RootCell(h), h)
    BY <2>1, <2>2, <2>3, Labelled
  <2> QED BY <2>4 DEF HeldAt
<1>3. ASSUME NEW h \in 1 .. 2, NEW blks, blks \subseteq At(h + 1)
      PROVE  EntriesOf(blks) \subseteq At(h)
  <2> SUFFICES ASSUME NEW c \in EntriesOf(blks)
               PROVE  c \in At(h)
    OBVIOUS
  <2>1. PICK b \in blks, e \in Entry : c = index[b][e] /\ c # NoBlk
    BY DEF EntriesOf
  <2>2. b \in Block /\ HeldAt(L, b, f, h + 1)
    BY <1>3, <2>1
  <2> DEFINE y == EntryCell(b, e)
  <2>3. InCell(i, y) = c
    <3>1. InCell(i, EntryCell(b, e)) = index[b][e]
      BY InEntry
    <3> QED BY <2>1, <3>1
  <2>4. y \in Cell /\ IsCell(L, f, y, h) /\ h \in 0 .. 3
    <3>1. h \in 0 .. 2 /\ h \in 0 .. 3
      OBVIOUS
    <3>2. y \in Cell
      BY <2>2 DEF Cell
    <3>3. \E p \in Block, e2 \in Entry : y = EntryCell(p, e2) /\ HeldAt(L, p, f, h + 1)
      BY <2>2
    <3> HIDE DEF y
    <3> QED BY <3>1, <3>2, <3>3 DEF IsCell
  <2> HIDE DEF y
  <2>5. c \in Block /\ L[c] = Tag(f, y, h)
    BY <2>1, <2>3, <2>4, Labelled
  <2> QED BY <2>5 DEF HeldAt
<1> HIDE DEF At
<1>4. h3 \subseteq At(3)
  BY <1>2
<1>5. h2 \subseteq At(2)
  <2>1. 2 + 1 = 3
    OBVIOUS
  <2>2. EntriesOf(h3) \subseteq At(2)
    BY <1>3, <1>4, <2>1
  <2> QED BY <1>2, <2>2
<1>6. h1 \subseteq At(1)
  <2> HIDE DEF h2
  <2>1. 1 + 1 = 2
    OBVIOUS
  <2>2. EntriesOf(h2) \subseteq At(1)
    BY <1>3, <1>5, <2>1
  <2> QED BY <1>2, <2>2
<1>7. ASSUME NEW b \in IndexBlks(i)
      PROVE  b \in Block /\ \E h \in 0 .. 2 : HeldAt(L, b, f, h + 1)
  <2>1. IndexBlks(i) = h1 \union h2 \union h3
    BY DEF IndexBlks
  <2> HIDE DEF h1, h2, h3
  <2>2. b \in At(0 + 1) \/ b \in At(1 + 1) \/ b \in At(2 + 1)
    BY <1>4, <1>5, <1>6, <2>1
  <2> QED BY <2>2 DEF At
<1>8. CASE \E k \in DOMAIN i.direct : d = DirectCell(k)
  <2>1. PICK k \in DOMAIN i.direct : d = DirectCell(k)
    BY <1>8
  <2>2. k \in 0 .. NDirect - 1
    BY <1>1
  <2>3. IsCell(L, f, d, 0)
    BY <2>1, <2>2 DEF IsCell
  <2> QED BY <2>3
<1>9. CASE \E level \in 1 .. 3 : d = RootCell(level)
  BY <1>9 DEF IsCell
<1>10. CASE \E b \in IndexBlks(i), e \in Entry : d = EntryCell(b, e)
  <2>1. PICK b \in IndexBlks(i), e \in Entry : d = EntryCell(b, e)
    BY <1>10
  <2>2. b \in Block /\ \E h \in 0 .. 2 : HeldAt(L, b, f, h + 1)
    BY <1>7
  <2>3. PICK h \in 0 .. 2 : HeldAt(L, b, f, h + 1)
    BY <2>2
  <2>4. IsCell(L, f, d, h)
    BY <2>1, <2>2, <2>3 DEF IsCell
  <2> QED BY <2>4
<1> QED BY <1>8, <1>9, <1>10 DEF CellsOf

\* With labels, different cells hold different blocks, so that there are as many
\* blocks as cells that hold one, and none of them is free.
LEMMA HeldApart ==
  ASSUME Types, NEW N \in [File -> INodeType], NEW L, AllApart(L, N, free, index)
  PROVE  /\ Cardinality(Held(N)) = Cardinality(Holding(N))
         /\ Held(N) \intersect ToSet(free) = {}
<1> DEFINE F == [x \in Holding(N) |-> InCell(N[x[1]], x[2])]
<1>1. ASSUME NEW x \in Holding(N)
      PROVE  /\ x[1] \in File /\ x = <<x[1], x[2]>>
             /\ F[x] \in Block
             /\ \E h : L[F[x]] = Tag(x[1], x[2], h)
  <2>1. PICK f, d : /\ f \in File /\ d \in CellsOf(N[f]) /\ x = <<f, d>>
                    /\ InCell(N[f], d) # NoBlk
    <3>1. /\ x \in UNION {{f} \X CellsOf(N[f]) : f \in File}
          /\ InCell(N[x[1]], x[2]) # NoBlk
      BY DEF Holding
    <3>2. PICK f \in File : x \in {f} \X CellsOf(N[f])
      BY <3>1
    <3>3. PICK d \in CellsOf(N[f]) : x = <<f, d>>
      BY <3>2
    <3> QED BY <3>1, <3>3
  <2>2. PICK h \in 0 .. 3 : IsCell(L, f, d, h)
    BY <2>1, CellsOfFile
  <2>3. d \in Cell
    BY <2>2, IsCellType
  <2>4. InCell(N[f], d) \in Block /\ L[InCell(N[f], d)] = Tag(f, d, h)
    BY <2>1, <2>2, <2>3, Labelled
  <2>5. x[1] = f /\ x[2] = d /\ F[x] = InCell(N[f], d)
    BY <2>1
  <2> HIDE DEF F
  <2> QED BY <2>1, <2>4, <2>5
<1>2. Held(N) = {F[x] : x \in Holding(N)}
  BY DEF Held
<1>3. F \in [Holding(N) -> Held(N)]
  BY DEF Held
<1>4. IsInjective(F)
  <2> SUFFICES ASSUME NEW x \in Holding(N), NEW y \in Holding(N), F[x] = F[y]
               PROVE  x = y
    BY DEF IsInjective
  <2>1. PICK h : L[F[x]] = Tag(x[1], x[2], h)
    BY <1>1
  <2>2. PICK i : L[F[y]] = Tag(y[1], y[2], i)
    BY <1>1
  <2> HIDE DEF F
  <2>3. Tag(x[1], x[2], h) = Tag(y[1], y[2], i)
    BY <2>1, <2>2
  <2>4. x[1] = y[1] /\ x[2] = y[2]
    BY <2>3, Tags
  <2>5. x = <<x[1], x[2]>> /\ y = <<y[1], y[2]>>
    BY <1>1
  <2> QED BY <2>4, <2>5
<1> HIDE DEF F
<1>5. F \in Injection(Holding(N), Held(N)) /\ F \in Surjection(Holding(N), Held(N))
  BY <1>2, <1>3, <1>4 DEF Injection, Surjection
<1>6. IsFiniteSet(Held(N))
  <2>1. Held(N) \in SUBSET Block
    BY <1>1, <1>2
  <2>2. IsFiniteSet(Block)
    BY GeometryAssumption
  <2> QED BY <2>1, <2>2, FS_Subset
<1>7. Cardinality(Held(N)) = Cardinality(Holding(N))
  BY <1>5, <1>6, FS_Injection
<1>8. Held(N) \intersect ToSet(free) = {}
  <2> SUFFICES ASSUME NEW b \in Held(N), b \in ToSet(free)
               PROVE  FALSE
    OBVIOUS
  <2>1. PICK x \in Holding(N) : b = F[x]
    BY <1>2
  <2>2. PICK h : L[b] = Tag(x[1], x[2], h)
    BY <1>1, <2>1
  <2>3. x[1] \in File
    BY <1>1
  <2> DEFINE f == x[1]
             m == MemoryOf(free, index, N[f])
  <2>4. Forest(L, N, f, m)
    BY <2>3 DEF AllApart
  <2>5. m.free = free
    BY DEF MemoryOf
  <2> HIDE DEF m, f
  <2>6. \A i \in DOMAIN free : L[free[i]] = Unheld
    BY <2>4, <2>5 DEF Forest
  <2>7. PICK i \in DOMAIN free : b = free[i]
    BY DEF ToSet
  <2> QED BY <2>2, <2>6, <2>7, Tags
<1> QED BY <1>7, <1>8

\* The types that the invariant uses are those of TypeOK.
LEMMA TypesTypeOK ==
  ASSUME Types
  PROVE  TypeOK
<1>1. Types
  OBVIOUS
<1>2. ASSUME NEW i \in INodeType
      PROVE  /\ i.filesize \in Nat
             /\ i.direct \in [0 .. NDirect - 1 -> Block \union {NoBlk}]
             /\ i.indirect \in [1 .. 3 -> Block \union {NoBlk}]
  BY DEF INodeType, Id
<1>3. \A i \in {inode[f] : f \in File} \union {dinode[f] : f \in File} : i \in INodeType
  BY <1>1 DEF Types
<1>4. index \in [Block -> [Entry -> Block \union {NoBlk}]]
  BY <1>1 DEF Types, IndexType, Id
<1>5. /\ free \in Seq(Block) /\ taken \in Block \union {NoBlk}
      /\ holed \in BOOLEAN /\ failed \in BOOLEAN /\ wiped \in BOOLEAN
  BY <1>1 DEF Types, Id
<1> QED BY <1>2, <1>3, <1>4, <1>5 DEF TypeOK

\* The invariant gives NoAliasing, in core and on disk.
LEMMA IInvNoAliasing ==
  ASSUME IInv
  PROVE  NoAliasing
<1>1. /\ Types /\ inode \in [File -> INodeType] /\ dinode \in [File -> INodeType]
      /\ IsInjective(free)
  BY DEF IInv, Types
<1>2. PICK L : AllApart(L, inode, free, index)
  BY DEF IInv
<1>3. AllApart(L, dinode, free, index)
  BY <1>2, BelowApart
<1>4. /\ Cardinality(Held(inode)) = Cardinality(Holding(inode))
      /\ Held(inode) \intersect ToSet(free) = {}
  BY <1>1, <1>2, HeldApart
<1>5. /\ Cardinality(Held(dinode)) = Cardinality(Holding(dinode))
      /\ Held(dinode) \intersect ToSet(free) = {}
  BY <1>1, <1>3, HeldApart
<1> QED BY <1>1, <1>4, <1>5 DEF NoAliasing

\* What holds of the specification: the types always, the rest until an unmount
\* overwrites an index block, which no step follows.
UInv == Types /\ (~wiped => IInv)

\* Every step keeps it, the unmount that overwrites an index block included.
LEMMA StepUInv ==
  ASSUME UInv, [Next]_vars
  PROVE  UInv'
<1>1. CASE UNCHANGED vars
  BY <1>1 DEF vars, UInv, IInv, Types, AllApart
<1>2. CASE Next /\ ~wiped'
  <2>1. IInv
    BY <1>2 DEF Next, UInv
  <2>2. IInv'
    BY <1>2, <2>1, StepIInv
  <2> QED BY <2>2 DEF UInv, IInv
<1>3. CASE Next /\ wiped'
  <2>1. ~wiped /\ Types
    BY <1>3 DEF Next, UInv
  <2>2. Remount
    BY <1>3, <2>1 DEF Next, Write, Truncate, Unlink, ReadBack
  <2>3. PICK zero \in Block : index' = [index EXCEPT ![taken] = [e \in Entry |-> zero]]
    BY <1>3, <2>2 DEF Remount
  <2>4. index' \in IndexType
    <3> DEFINE blank == [e \in Entry |-> zero]
    <3>1. blank \in [Entry -> Id]
      BY DEF Id
    <3> HIDE DEF blank
    <3>2. index' = [index EXCEPT ![taken] = blank]
      BY <2>3 DEF blank
    <3> QED BY <2>1, <3>1, <3>2 DEF Types, IndexType
  <2>5. /\ free' = free /\ inode' = dinode /\ dinode' = dinode /\ taken' = taken
        /\ holed' = holed /\ failed' = failed /\ wiped' \in BOOLEAN
    BY <2>2 DEF Remount
  <2> QED BY <1>3, <2>1, <2>4, <2>5 DEF UInv, Types
<1> QED BY <1>1, <1>2, <1>3

\* Every state of the specification has labels for its blocks, up to an unmount
\* that overwrites an index block: the invariant from which the theorems about
\* balloc and bfree follow.
THEOREM Inductive == Spec => []UInv
<1>1. Init => UInv
  BY InitIInv DEF UInv, IInv
<1>2. UInv /\ [Next]_vars => UInv'
  BY StepUInv
<1> QED BY <1>1, <1>2, PTL DEF Spec

\* The free list, the index blocks and the inodes, in core and on disk, keep
\* their types through every call: what bmap follows and bfree releases is a
\* block's id or -1.
THEOREM TypeCorrect == Spec => []TypeOK
<1>1. UInv => TypeOK
  BY TypesTypeOK DEF UInv
<1> QED BY <1>1, Inductive, PTL

\* balloc, bfree, l2_write, l2_truncate, l2_unlink and a remount never put a
\* block in two places: two cells of files, or a cell and the free list.  It
\* holds for the inodes in core and for those on disk, whatever ran out of
\* blocks half-way, until the unmount of a full disk overwrites an index block.
THEOREM OnePlace == Spec => []NoAliasing
<1>1. UInv => NoAliasing
  BY IInvNoAliasing DEF UInv, NoAliasing
<1> QED BY <1>1, Inductive, PTL

-----------------------------------------------------------------------------
(* What the files hold at each place.                                        *)

\* The memory as a call on file g sees it; m has the inode of file f.
View(N, f, m, g) == MemoryOf(m.free, m.index, With(N, f, m.inode)[g])

\* The block of file g at place k, for bmap.
Maps(N, f, m, g, k) == Bmap(View(N, f, m, g), k)

\* The blocks are apart from every file's point of view.
LEMMA Viewed ==
  ASSUME NEW N \in [File -> INodeType], NEW f \in File, NEW m \in Memory, NEW L,
         Forest(L, N, f, m), NEW g \in File
  PROVE  LET v == View(N, f, m, g)
             O == With(N, f, m.inode)
         IN  /\ v \in Memory /\ O \in [File -> INodeType] /\ Forest(L, O, g, v)
             /\ v.free = m.free /\ v.index = m.index
             /\ \A d : Get(v, d) = Seen(N, f, m, g, d)
<1> DEFINE O == With(N, f, m.inode)
           v == View(N, f, m, g)
<1>1. O \in [File -> INodeType] /\ m.free \in Seq(Block) /\ m.index \in IndexType
  BY MemoryFields DEF With
<1>2. O[g] \in INodeType
  BY <1>1
<1>3. v \in Memory /\ v.free = m.free /\ v.index = m.index /\ v.inode = O[g]
  <2> HIDE DEF O
  <2>1. v = MemoryOf(m.free, m.index, O[g])
    BY DEF View, O
  <2> QED BY <1>1, <1>2, <2>1, MemoryOfFields
<1>4. With(O, g, v.inode) = O
  <2> HIDE DEF O, v
  <2> QED BY <1>1, <1>3 DEF With
<1>5. \A e, d : Seen(O, g, v, e, d) = Seen(N, f, m, e, d)
  <2> HIDE DEF O, v
  <2>1. \A e, d : Seen(O, g, v, e, d) = ValueIn(m, O[e], d)
    BY <1>3, <1>4 DEF Seen, ValueIn
  <2> QED BY <2>1 DEF Seen, O
<1>6. Forest(L, O, g, v)
  <2> HIDE DEF O, v
  <2> QED BY <1>3, <1>5 DEF Forest
<1>7. \A d : Get(v, d) = Seen(N, f, m, g, d)
  BY DEF View, MemoryOf, Seen, ValueIn
<1> QED BY <1>1, <1>3, <1>6, <1>7

\* A call on f sees the memory as it is.
LEMMA ViewOwn ==
  ASSUME NEW N \in [File -> INodeType], NEW f \in File, NEW m \in Memory
  PROVE  View(N, f, m, f) = m
<1>1. With(N, f, m.inode)[f] = m.inode
  BY DEF With
<1>2. m = [free |-> m.free, index |-> m.index, inode |-> m.inode]
  BY MemoryFields
<1> QED BY <1>1, <1>2 DEF View, MemoryOf

\* bmap, by the last place of the way.
LEMMA BmapIs ==
  ASSUME NEW m, NEW k \in 0 .. LastFileBlk
  PROVE  Bmap(m, k) = Way(m, k)[Len(Route(k).path)]
<1>1. LastFileBlk \in Int
  BY GeometryAssumption DEF LastFileBlk
<1>2. ~(k > LastFileBlk)
  BY <1>1
<1> QED BY <1>2 DEF Bmap

\* The way to file block k has blocks at the places before q.
Live(m, k, q) == \A i \in 0 .. q - 1 : Way(m, k)[i] # NoBlk

\* The way goes through a cell.
PassesAt(m, k, cell, q) == Live(m, k, q) /\ CellOn(m, k, q) = cell
Passes(m, k, cell) == \E q \in 0 .. Len(Route(k).path) : PassesAt(m, k, cell, q)

\* The places of a way, one after the other; after a missing block there is
\* none.
LEMMA WayStep ==
  ASSUME NEW m, NEW k \in 0 .. LastFileBlk
  PROVE  LET last == Len(Route(k).path)
         IN  /\ Way(m, k)[0] = Get(m, Route(k).start)
             /\ CellOn(m, k, 0) = Route(k).start
             /\ \A q \in 1 .. last :
                  /\ CellOn(m, k, q) = EntryCell(Way(m, k)[q - 1], Route(k).path[q])
                  /\ Way(m, k)[q - 1] # NoBlk => Way(m, k)[q] = Get(m, CellOn(m, k, q))
                  /\ Way(m, k)[q - 1] = NoBlk => Way(m, k)[q] = NoBlk
             /\ \A q \in 0 .. last :
                  Live(m, k, q) => Way(m, k)[q] = Get(m, CellOn(m, k, q))
<1> DEFINE last == Len(Route(k).path)
           w == Way(m, k)
<1>1. last \in 0 .. 3
  BY RouteType
<1>2. IsWay(w, m, k, last)
  BY <1>1, WayIs
<1>3. /\ w[0] = Get(m, Route(k).start)
      /\ \A q \in 1 .. last : w[q] = NextWay(m, k, w[q - 1], q)
  <2> HIDE DEF last, w
  <2> QED BY <1>1, <1>2 DEF IsWay
<1>4. CellOn(m, k, 0) = Route(k).start
  BY DEF CellOn
<1>5. ASSUME NEW q \in 1 .. last
      PROVE  /\ CellOn(m, k, q) = EntryCell(w[q - 1], Route(k).path[q])
             /\ w[q - 1] # NoBlk => w[q] = Get(m, CellOn(m, k, q))
             /\ w[q - 1] = NoBlk => w[q] = NoBlk
  <2>1. CellOn(m, k, q) = EntryCell(w[q - 1], Route(k).path[q])
    BY <1>1 DEF CellOn
  <2>2. w[q] = NextWay(m, k, w[q - 1], q)
    BY <1>3
  <2> HIDE DEF w
  <2>3. Get(m, EntryCell(w[q - 1], Route(k).path[q])) = m.index[w[q - 1]][Route(k).path[q]]
    BY GetIs
  <2> QED BY <2>1, <2>2, <2>3 DEF NextWay
<1>6. ASSUME NEW q \in 0 .. last, Live(m, k, q)
      PROVE  w[q] = Get(m, CellOn(m, k, q))
  <2>1. CASE q = 0
    BY <1>3, <1>4, <2>1
  <2>2. CASE q # 0
    <3>1. q \in 1 .. last /\ q - 1 \in 0 .. q - 1
      BY <1>1, <2>2
    <3>2. w[q - 1] # NoBlk
      BY <1>6, <3>1 DEF Live
    <3> QED BY <1>5, <3>1, <3>2
  <2> QED BY <2>1, <2>2
<1> QED BY <1>3, <1>4, <1>5, <1>6

\* Past a missing block there is none.
LEMMA WayDead ==
  ASSUME NEW m, NEW k \in 0 .. LastFileBlk, NEW q \in 0 .. Len(Route(k).path),
         Way(m, k)[q] = NoBlk
  PROVE  Bmap(m, k) = NoBlk
<1> DEFINE last == Len(Route(k).path)
           w == Way(m, k)
           S == {n \in 0 .. last - q : w[q + n] = NoBlk}
<1>1. last \in 0 .. 3 /\ q \in Nat /\ last - q \in Nat
  BY RouteType
<1> HIDE DEF w
<1>2. \A i \in 1 .. last : w[i - 1] = NoBlk => w[i] = NoBlk
  BY WayStep DEF w
<1>3. 0 \in S
  <2>1. q + 0 = q /\ 0 \in 0 .. last - q
    BY <1>1
  <2> QED BY <2>1 DEF w
<1>4. ASSUME NEW n \in 0 .. (last - q) - 1, n \in S
      PROVE  n + 1 \in S
  <2>1. q + n + 1 \in 1 .. last /\ (q + n + 1) - 1 = q + n /\ n + 1 \in 0 .. last - q
        /\ q + (n + 1) = q + n + 1
    <3> HIDE DEF last
    <3> QED BY <1>1
  <2>2. w[q + n] = NoBlk
    BY <1>4
  <2> HIDE DEF last
  <2>3. w[q + n + 1] = NoBlk
    BY <1>2, <2>1, <2>2
  <2> QED BY <2>1, <2>3
<1>5. \A n \in 0 .. last - q : n \in S
  <2> DEFINE top == last - q
  <2> HIDE DEF S, top
  <2>1. \A n \in 0 .. top : n \in S
    BY <1>1, <1>3, <1>4, UpTo DEF top
  <2> QED BY <2>1 DEF top
<1>6. q + (last - q) = last /\ last - q \in 0 .. last - q
  BY <1>1
<1>7. w[last] = NoBlk
  <2>1. last - q \in S
    BY <1>5, <1>6
  <2>2. w[q + (last - q)] = NoBlk
    BY <2>1
  <2> QED BY <1>6, <2>2
<1> QED BY <1>7, BmapIs DEF w

\* As long as there are blocks, each cell of a way is a cell of the file, at its
\* height.
LEMMA WayPlace ==
  ASSUME NEW N \in [File -> INodeType], NEW f \in File, NEW m \in Memory, NEW L,
         Forest(L, N, f, m), NEW k \in 0 .. LastFileBlk,
         NEW q \in 0 .. Len(Route(k).path), Live(m, k, q)
  PROVE  /\ IsCell(L, f, CellOn(m, k, q), Len(Route(k).path) - q)
         /\ Get(m, CellOn(m, k, q)) = Way(m, k)[q]
<1> DEFINE path == Route(k).path
           last == Len(path)
           w == Way(m, k)
<1>1. path \in Seq(Entry) /\ last \in 0 .. 3 /\ q \in Nat
  BY RouteType
<1> DEFINE S == {n \in 0 .. q : IsCell(L, f, CellOn(m, k, n), last - n)
                                /\ Get(m, CellOn(m, k, n)) = w[n]}
<1>2. /\ w[0] = Get(m, Route(k).start)
      /\ CellOn(m, k, 0) = Route(k).start
      /\ \A n \in 1 .. last :
           /\ CellOn(m, k, n) = EntryCell(w[n - 1], Route(k).path[n])
           /\ w[n - 1] # NoBlk => w[n] = Get(m, CellOn(m, k, n))
  BY WayStep
<1>3. 0 \in S
  <2>1. IsCell(L, f, Route(k).start, last)
    BY StartIsCell
  <2>2. last - 0 = last /\ 0 \in 0 .. q
    BY <1>1
  <2> QED BY <1>2, <2>1, <2>2
<1>4. ASSUME NEW n \in 0 .. q - 1, n \in S
      PROVE  n + 1 \in S
  <2> DEFINE cell == CellOn(m, k, n)
             b == w[n]
             e == path[n + 1]
  <2>1. IsCell(L, f, cell, last - n) /\ Get(m, cell) = b
    BY <1>4
  <2>2. last - n \in 1 .. 3 /\ n + 1 \in 1 .. last /\ (n + 1) - 1 = n
        /\ (last - n) - 1 = last - (n + 1) /\ n + 1 \in 0 .. q
    <3>1. last \in 0 .. 3 /\ n \in 0 .. q - 1 /\ q \in 0 .. last
      BY <1>1
    <3> HIDE DEF last
    <3> QED BY <3>1
  <2>3. e \in Entry
    BY <1>1, <2>2
  <2>4. b # NoBlk
    BY DEF Live
  <2>5. CellOn(m, k, n + 1) = EntryCell(b, e) /\ w[n + 1] = Get(m, CellOn(m, k, n + 1))
    <3>1. (n + 1) - 1 = n /\ n + 1 \in 1 .. last
      BY <2>2
    <3> HIDE DEF last, w
    <3> QED BY <1>2, <2>4, <3>1
  <2> HIDE DEF cell, b, e
  <2>6. IsCell(L, f, EntryCell(b, e), (last - n) - 1)
    BY <2>1, <2>2, <2>3, <2>4, EntriesOfCell
  <2> QED BY <2>2, <2>5, <2>6
<1>5. \A n \in 0 .. q : n \in S
  <2> HIDE DEF S
  <2> QED BY <1>1, <1>3, <1>4, UpTo
<1>6. q \in S
  BY <1>1, <1>5
<1> QED BY <1>6

\* The way to a block that exists has blocks all along.
LEMMA MappedLive ==
  ASSUME NEW m, NEW k \in 0 .. LastFileBlk, Bmap(m, k) # NoBlk
  PROVE  /\ \A q \in 0 .. Len(Route(k).path) : Live(m, k, q) /\ Way(m, k)[q] # NoBlk
<1>1. Len(Route(k).path) \in 0 .. 3
  BY RouteType
<1>2. \A q \in 0 .. Len(Route(k).path) : Way(m, k)[q] # NoBlk
  BY WayDead
<1>3. ASSUME NEW q \in 0 .. Len(Route(k).path)
      PROVE  Live(m, k, q)
  <2>1. \A i \in 0 .. q - 1 : i \in 0 .. Len(Route(k).path)
    BY <1>1
  <2> QED BY <1>2, <2>1 DEF Live
<1> QED BY <1>2, <1>3

\* Where the cells up to a place hold the same in two memories, the ways are the
\* same up to there.
LEMMA WaySame ==
  ASSUME NEW m, NEW z, NEW k \in 0 .. LastFileBlk, NEW x \in 0 .. Len(Route(k).path),
         \A q \in 0 .. x : Live(m, k, q) => Get(z, CellOn(m, k, q)) = Get(m, CellOn(m, k, q))
  PROVE  \A q \in 0 .. x : /\ Way(z, k)[q] = Way(m, k)[q]
                           /\ CellOn(z, k, q) = CellOn(m, k, q)
                           /\ Live(z, k, q) <=> Live(m, k, q)
<1> DEFINE last == Len(Route(k).path)
           w == Way(m, k)
           y == Way(z, k)
           S == {n \in 0 .. x : \A q \in 0 .. n : y[q] = w[q]}
<1>1. last \in 0 .. 3 /\ x \in Nat
  BY RouteType
<1>2. /\ w[0] = Get(m, Route(k).start) /\ y[0] = Get(z, Route(k).start)
      /\ CellOn(m, k, 0) = Route(k).start /\ CellOn(z, k, 0) = Route(k).start
      /\ \A q \in 1 .. last :
           /\ CellOn(m, k, q) = EntryCell(w[q - 1], Route(k).path[q])
           /\ CellOn(z, k, q) = EntryCell(y[q - 1], Route(k).path[q])
           /\ w[q - 1] = NoBlk => w[q] = NoBlk
           /\ y[q - 1] = NoBlk => y[q] = NoBlk
           /\ y[q - 1] # NoBlk => y[q] = Get(z, CellOn(z, k, q))
      /\ \A q \in 0 .. last : Live(m, k, q) => w[q] = Get(m, CellOn(m, k, q))
  BY WayStep
<1>3. 0 \in S
  <2>1. Live(m, k, 0) /\ 0 \in 0 .. x
    BY <1>1 DEF Live
  <2>2. y[0] = w[0]
    <3> HIDE DEF w, y
    <3> QED BY <1>2, <2>1
  <2>3. \A q \in 0 .. 0 : q = 0
    OBVIOUS
  <2> HIDE DEF w, y
  <2> QED BY <2>1, <2>2, <2>3
<1>4. ASSUME NEW n \in 0 .. x - 1, n \in S
      PROVE  n + 1 \in S
  <2>1. n + 1 \in 0 .. x /\ n + 1 \in 1 .. last /\ (n + 1) - 1 = n
    BY <1>1
  <2>2. \A q \in 0 .. n : y[q] = w[q]
    BY <1>4
  <2>3. y[n + 1] = w[n + 1]
    <3>1. CASE Live(m, k, n + 1)
      <4>1. w[n] # NoBlk
        BY <2>1, <3>1 DEF Live
      <4> HIDE DEF w, y, last
      <4>2. y[n] = w[n]
        BY <2>2
      <4>3. CellOn(z, k, n + 1) = CellOn(m, k, n + 1)
        BY <1>2, <2>1, <4>2
      <4>4. y[n + 1] = Get(z, CellOn(z, k, n + 1))
        BY <1>2, <2>1, <4>1, <4>2
      <4>5. w[n + 1] = Get(m, CellOn(m, k, n + 1))
        BY <1>1, <1>2, <2>1, <3>1
      <4> QED BY <2>1, <3>1, <4>3, <4>4, <4>5
    <3>2. CASE ~Live(m, k, n + 1)
      <4>1. PICK i \in 0 .. n : w[i] = NoBlk
        BY <2>1, <3>2 DEF Live
      <4> HIDE DEF w, y, last
      <4> DEFINE T == {j \in 0 .. n - i : w[i + j] = NoBlk}
      <4>2. 0 \in T
        BY <4>1
      <4>3. ASSUME NEW j \in 0 .. (n - i) - 1, j \in T
            PROVE  j + 1 \in T
        <5>1. i + j + 1 \in 1 .. last /\ (i + j + 1) - 1 = i + j /\ j + 1 \in 0 .. n - i
              /\ i + (j + 1) = i + j + 1
          <6>1. i \in 0 .. n /\ n \in Nat /\ last \in 0 .. 3 /\ n + 1 \in 1 .. last
            BY <1>1, <2>1
          <6> QED BY <6>1
        <5>2. w[i + j] = NoBlk
          BY <4>3
        <5>3. w[i + j + 1] = NoBlk
          BY <1>2, <5>1, <5>2
        <5> QED BY <5>1, <5>3
      <4>4. \A j \in 0 .. n - i : j \in T
        <5> HIDE DEF T
        <5>1. n - i \in Nat
          OBVIOUS
        <5> DEFINE top == n - i
        <5> HIDE DEF top
        <5>2. \A j \in 0 .. top : j \in T
          BY <4>2, <4>3, <5>1, UpTo DEF top
        <5> QED BY <5>2 DEF top
      <4>5. w[n] = NoBlk
        <5>1. n - i \in 0 .. n - i /\ i + (n - i) = n
          OBVIOUS
        <5>2. w[i + (n - i)] = NoBlk
          BY <4>4, <5>1
        <5> QED BY <5>1, <5>2
      <4>6. y[n] = NoBlk
        BY <2>2, <4>5
      <4> QED BY <1>2, <2>1, <4>5, <4>6
    <3> QED BY <3>1, <3>2
  <2> HIDE DEF w, y
  <2>4. \A q \in 0 .. n + 1 : q \in 0 .. n \/ q = n + 1
    OBVIOUS
  <2> QED BY <2>1, <2>2, <2>3, <2>4
<1>5. \A n \in 0 .. x : n \in S
  <2> HIDE DEF S
  <2> QED BY <1>1, <1>3, <1>4, UpTo
<1>6. \A q \in 0 .. x : y[q] = w[q]
  <2>1. x \in S
    BY <1>1, <1>5
  <2> HIDE DEF y, w
  <2> QED BY <2>1
<1>7. ASSUME NEW q \in 0 .. x
      PROVE  CellOn(z, k, q) = CellOn(m, k, q)
  <2>1. q = 0 \/ (q \in 1 .. last /\ q - 1 \in 0 .. x)
    BY <1>1
  <2> HIDE DEF w, y, last
  <2> QED BY <1>2, <1>6, <2>1
<1>8. ASSUME NEW q \in 0 .. x
      PROVE  Live(z, k, q) <=> Live(m, k, q)
  <2>1. \A i \in 0 .. q - 1 : i \in 0 .. x
    BY <1>1
  <2> QED BY <1>6, <2>1 DEF Live
<1> QED BY <1>6, <1>7, <1>8

\* A route is the place's digits in base Entries, from the highest.
LEMMA RouteDigits ==
  ASSUME NEW k \in 0 .. LastFileBlk
  PROVE  LET p == Route(k).path
             E == Entries
         IN  /\ Len(p) = 0 => Route(k).start = DirectCell(k)
             /\ Len(p) = 1 => k = NDirect + p[1]
             /\ Len(p) = 2 => k = NDirect + E + (E * p[1] + p[2])
             /\ Len(p) = 3 => k = NDirect + E + E * E + (E * (E * p[1] + p[2]) + p[3])
<1> DEFINE E == Entries
           s == k - NDirect
           d == s - E
           t == d - E * E
           p == Route(k).path
<1>1. E \in Nat \ {0} /\ NDirect \in Nat \ {0} /\ E * E \in Nat \ {0}
  BY GeometryAssumption
<1>2. k \in Nat /\ s \in Int /\ d \in Int /\ t \in Int
  BY <1>1
<1>3. CASE s < 0
  <2>1. Route(k) = [start |-> DirectCell(k), path |-> <<>>]
    BY <1>3 DEF Route
  <2> QED BY <2>1
<1>4. CASE ~(s < 0) /\ d < 0
  <2>1. Route(k) = [start |-> RootCell(1), path |-> <<s>>]
    BY <1>4 DEF Route
  <2>2. p = <<s>>
    BY <2>1
  <2>3. Len(p) = 1 /\ p[1] = s
    BY <2>2
  <2> QED BY <1>1, <1>2, <2>3
<1>5. CASE ~(s < 0) /\ ~(d < 0) /\ t < 0
  <2>1. Route(k) = [start |-> RootCell(2), path |-> <<d \div E, d % E>>]
    BY <1>5 DEF Route
  <2>2. p = <<d \div E, d % E>>
    BY <2>1
  <2>3. Len(p) = 2 /\ p[1] = d \div E /\ p[2] = d % E
    BY <2>2
  <2>4. d = E * (d \div E) + (d % E)
    <3> HIDE DEF d, E
    <3> QED BY <1>1, <1>2, Divide
  <2>5. k = NDirect + E + d
    BY <1>1, <1>2
  <2> QED BY <2>3, <2>4, <2>5
<1>6. CASE ~(s < 0) /\ ~(d < 0) /\ ~(t < 0)
  <2> DEFINE a == t \div (E * E)
             b == (t \div E) % E
             c == t % E
  <2>1. Route(k) = [start |-> RootCell(3), path |-> <<a, b, c>>]
    BY <1>6 DEF Route
  <2>2. p = <<a, b, c>>
    BY <2>1
  <2>3. Len(p) = 3 /\ p[1] = a /\ p[2] = b /\ p[3] = c
    <3> HIDE DEF a, b, c, p
    <3> QED BY <2>2
  <2>4. k = NDirect + E + E * E + t
    BY <1>1, <1>2
  <2>5. t = E * (t \div E) + c
    <3> HIDE DEF t, E
    <3> QED BY <1>1, <1>2, Divide
  <2>6. t \div E = E * ((t \div E) \div E) + b
    <3> HIDE DEF t, E
    <3>1. t \div E \in Int
      BY <1>1, <1>2, Divide
    <3> DEFINE u == t \div E
    <3> HIDE DEF u
    <3>2. u = E * (u \div E) + (u % E)
      BY <1>1, <3>1, Divide DEF u
    <3> QED BY <3>2 DEF u
  <2>7. (t \div E) \div E = a
    <3> HIDE DEF t, E
    <3> QED BY <1>1, <1>2, DivideTwice
  <2>8. t = E * (E * a + b) + c
    BY <2>5, <2>6, <2>7
  <2> HIDE DEF a, b, c
  <2> QED BY <2>3, <2>4, <2>8
<1> QED BY <1>3, <1>4, <1>5, <1>6

\* Two routes are the same up to a place.
SameRoute(k, j, n) == /\ Route(k).start = Route(j).start
                      /\ Len(Route(k).path) = Len(Route(j).path)
                      /\ \A i \in 1 .. n : Route(k).path[i] = Route(j).path[i]

\* Of the file blocks with the same route up to a place, the one whose route
\* goes on with zeros comes first.
LEMMA RouteLeast ==
  ASSUME NEW k \in 0 .. LastFileBlk, NEW j \in 0 .. LastFileBlk,
         NEW n \in 0 .. Len(Route(k).path), SameRoute(k, j, n),
         \A i \in n + 1 .. Len(Route(k).path) : Route(k).path[i] = 0
  PROVE  k <= j
<1> DEFINE p == Route(k).path
           r == Route(j).path
           last == Len(p)
           E == Entries
<1>1. p \in Seq(Entry) /\ r \in Seq(Entry) /\ last \in 0 .. 3 /\ Len(r) = last
  BY RouteType DEF SameRoute
<1>2. \A i \in 1 .. last : p[i] \in Nat /\ r[i] \in Nat
  <2>1. \A i \in 1 .. last : p[i] \in Entry /\ r[i] \in Entry
    BY <1>1
  <2> QED BY <2>1 DEF Entry
<1>3. \A i \in 1 .. last : (i <= n => p[i] = r[i]) /\ (i > n => p[i] = 0)
  <2>1. ASSUME NEW i \in 1 .. last
        PROVE  (i <= n => p[i] = r[i]) /\ (i > n => p[i] = 0)
    <3>1. (i <= n => i \in 1 .. n) /\ (i > n => i \in n + 1 .. last)
      BY <1>1
    <3> QED BY <3>1 DEF SameRoute
  <2> QED BY <2>1
<1>4. E \in Nat \ {0} /\ NDirect \in Nat /\ k \in Nat /\ j \in Nat
  BY GeometryAssumption
<1>5. /\ last = 0 => Route(k).start = DirectCell(k)
      /\ last = 1 => k = NDirect + p[1]
      /\ last = 2 => k = NDirect + E + (E * p[1] + p[2])
      /\ last = 3 => k = NDirect + E + E * E + (E * (E * p[1] + p[2]) + p[3])
  BY RouteDigits
<1>6. /\ last = 0 => Route(j).start = DirectCell(j)
      /\ last = 1 => j = NDirect + r[1]
      /\ last = 2 => j = NDirect + E + (E * r[1] + r[2])
      /\ last = 3 => j = NDirect + E + E * E + (E * (E * r[1] + r[2]) + r[3])
  BY <1>1, RouteDigits
<1>7. CASE last = 0
  <2>1. DirectCell(k) = DirectCell(j)
    BY <1>5, <1>6, <1>7 DEF SameRoute
  <2>2. k = j
    BY <2>1, CellsDiffer
  <2> QED BY <1>4, <2>2
<1> HIDE DEF p, r, last, E
<1>8. CASE last = 1
  <2>1. p[1] \in Nat /\ r[1] \in Nat /\ (p[1] = r[1] \/ p[1] = 0)
    BY <1>2, <1>3, <1>8
  <2> QED BY <1>4, <1>5, <1>6, <1>8, <2>1
<1>9. CASE last = 2
  <2>1. /\ p[1] \in Nat /\ r[1] \in Nat /\ p[2] \in Nat /\ r[2] \in Nat
        /\ p[1] <= r[1] /\ p[2] <= r[2]
    <3>1. 1 \in 1 .. last /\ 2 \in 1 .. last /\ n \in Nat
      BY <1>9
    <3> QED BY <1>2, <1>3, <3>1
  <2> DEFINE a == p[1]
             c == r[1]
  <2>2. a \in Nat /\ c \in Nat /\ a <= c
    BY <2>1
  <2>3. k = NDirect + E + (E * a + p[2]) /\ j = NDirect + E + (E * c + r[2])
    BY <1>5, <1>6, <1>9
  <2> HIDE DEF a, c
  <2>4. E * a <= E * c /\ E * a \in Nat /\ E * c \in Nat
    BY <1>4, <2>2, TimesAtMost
  <2> QED BY SMTT(30), <1>4, <2>1, <2>3, <2>4
<1>10. CASE last = 3
  <2>1. /\ p[1] \in Nat /\ r[1] \in Nat /\ p[2] \in Nat /\ r[2] \in Nat
        /\ p[3] \in Nat /\ r[3] \in Nat
        /\ p[1] <= r[1] /\ p[2] <= r[2] /\ p[3] <= r[3]
    <3>1. 1 \in 1 .. last /\ 2 \in 1 .. last /\ 3 \in 1 .. last /\ n \in Nat
      BY <1>10
    <3> QED BY <1>2, <1>3, <3>1
  <2> DEFINE u == E * p[1] + p[2]
             v == E * r[1] + r[2]
  <2>2. E * p[1] <= E * r[1] /\ E * p[1] \in Nat /\ E * r[1] \in Nat
    <3> DEFINE a == p[1]
               c == r[1]
    <3>1. a \in Nat /\ c \in Nat /\ a <= c
      BY <2>1
    <3> HIDE DEF a, c
    <3>2. E * a <= E * c /\ E * a \in Nat /\ E * c \in Nat
      BY <1>4, <3>1, TimesAtMost
    <3> QED BY <3>2 DEF a, c
  <2>3. u \in Nat /\ v \in Nat /\ u <= v
    <3> DEFINE a == E * p[1]
               c == E * r[1]
               b == p[2]
               d == r[2]
    <3>1. /\ a \in Nat /\ c \in Nat /\ a <= c
          /\ b \in Nat /\ d \in Nat /\ b <= d
      BY <2>1, <2>2
    <3>2. u = a + b /\ v = c + d
      OBVIOUS
    <3> HIDE DEF a, b, c, d, u, v
    <3> QED BY <3>1, <3>2
  <2> HIDE DEF u, v
  <2>4. E * u <= E * v
    BY <1>4, <2>3, TimesAtMost
  <2>5. k = NDirect + E + E * E + (E * u + p[3]) /\ j = NDirect + E + E * E + (E * v + r[3])
    BY <1>5, <1>6, <1>10 DEF u, v
  <2>6. E * u \in Nat /\ E * v \in Nat /\ E * E \in Nat
    BY <1>4, <2>3
  <2> DEFINE a == p[3]
             c == r[3]
             y == E * u
             x == E * v
             base == NDirect + E + E * E
  <2>7. /\ k = base + (y + a) /\ j = base + (x + c)
        /\ y <= x /\ a <= c /\ base \in Nat
        /\ y \in Nat /\ x \in Nat /\ a \in Nat /\ c \in Nat
    <3>1. base \in Nat
      BY <1>4, <2>6
    <3>2. k = base + (y + a) /\ j = base + (x + c)
      BY <2>5
    <3> HIDE DEF base
    <3> QED BY <2>1, <2>4, <2>6, <3>1, <3>2
  <2> HIDE DEF a, c, y, x, base
  <2> QED BY <2>7
<1> QED BY <1>1, <1>7, <1>8, <1>9, <1>10

\* A cell is at one place of the ways of a file, up to the blocks that are
\* there: two ways that go through it are the same up to it.
LEMMA OneWay ==
  ASSUME NEW N \in [File -> INodeType], NEW f \in File, NEW m \in Memory, NEW L,
         Forest(L, N, f, m), NEW k \in 0 .. LastFileBlk, NEW j \in 0 .. LastFileBlk,
         NEW q \in 0 .. Len(Route(k).path), NEW p \in 0 .. Len(Route(j).path),
         Live(m, k, q), Live(m, j, p), CellOn(m, k, q) = CellOn(m, j, p)
  PROVE  q = p /\ SameRoute(k, j, q)
<1> DEFINE lk == Len(Route(k).path)
           lj == Len(Route(j).path)
           S == {n \in 0 .. lk : \A x \in 0 .. lj :
                   Live(m, k, n) /\ Live(m, j, x) /\ CellOn(m, k, n) = CellOn(m, j, x) =>
                     n = x /\ SameRoute(k, j, n)}
<1>1. lk \in 0 .. 3 /\ lj \in 0 .. 3
  BY RouteType
<1>2. /\ CellOn(m, k, 0) = Route(k).start
      /\ \A n \in 1 .. lk : CellOn(m, k, n) = EntryCell(Way(m, k)[n - 1], Route(k).path[n])
      /\ CellOn(m, j, 0) = Route(j).start
      /\ \A n \in 1 .. lj : CellOn(m, j, n) = EntryCell(Way(m, j)[n - 1], Route(j).path[n])
  BY WayStep
<1>3. /\ \A b, e : Route(k).start # EntryCell(b, e)
      /\ \A b, e : Route(j).start # EntryCell(b, e)
  <2>1. /\ Route(k).start = DirectCell(k) \/ Route(k).start = RootCell(lk)
        /\ Route(j).start = DirectCell(j) \/ Route(j).start = RootCell(lj)
    BY <1>1, RouteType
  <2> QED BY <2>1, CellsDiffer
<1>4. \A n \in 0 .. lk : Live(m, k, n) => IsCell(L, f, CellOn(m, k, n), lk - n)
                                          /\ Get(m, CellOn(m, k, n)) = Way(m, k)[n]
  BY WayPlace
<1>5. \A n \in 0 .. lj : Live(m, j, n) => IsCell(L, f, CellOn(m, j, n), lj - n)
                                          /\ Get(m, CellOn(m, j, n)) = Way(m, j)[n]
  BY WayPlace
<1>6. \A n \in 0 .. lk, x \in 0 .. lj :
        Live(m, k, n) /\ Live(m, j, x) /\ CellOn(m, k, n) = CellOn(m, j, x) => lk - n = lj - x
  <2>1. ASSUME NEW n \in 0 .. lk, NEW x \in 0 .. lj, Live(m, k, n), Live(m, j, x),
               CellOn(m, k, n) = CellOn(m, j, x)
        PROVE  lk - n = lj - x
    <3> DEFINE c == CellOn(m, k, n)
               h == lk - n
               i == lj - x
    <3>1. IsCell(L, f, c, h) /\ IsCell(L, f, c, i)
      BY <1>4, <1>5, <2>1
    <3> HIDE DEF c, h, i
    <3>2. h = i
      BY <3>1, CellUnique
    <3> QED BY <3>2 DEF h, i
  <2> QED BY <2>1
<1> HIDE DEF lk, lj
<1>7. 0 \in S
  <2>1. ASSUME NEW x \in 0 .. lj, Live(m, k, 0), Live(m, j, x), CellOn(m, k, 0) = CellOn(m, j, x)
        PROVE  0 = x /\ SameRoute(k, j, 0)
    <3>1. x = 0
      <4>1. x # 0 => x \in 1 .. lj
        BY <1>1
      <4> QED BY <1>2, <1>3, <2>1, <4>1
    <3>2. 0 \in 0 .. lk /\ lk - 0 = lk /\ lj - 0 = lj
      BY <1>1
    <3>3. lk = lj
      <4>1. lk - 0 = lj - x
        BY <1>6, <2>1, <3>2
      <4> QED BY <3>1, <3>2, <4>1
    <3>4. Route(k).start = Route(j).start
      BY <1>2, <2>1, <3>1
    <3> QED BY <3>1, <3>3, <3>4 DEF SameRoute, lk, lj
  <2> QED BY <1>1, <2>1
<1>8. ASSUME NEW n \in 0 .. lk - 1, n \in S
      PROVE  n + 1 \in S
  <2>1. n + 1 \in 1 .. lk /\ (n + 1) - 1 = n /\ n + 1 \in 0 .. lk /\ n \in 0 .. lk /\ n \in Nat
        /\ lk - n \in 0 .. 3
    BY <1>1
  <2>2. ASSUME NEW x \in 0 .. lj, Live(m, k, n + 1), Live(m, j, x),
               CellOn(m, k, n + 1) = CellOn(m, j, x)
        PROVE  n + 1 = x /\ SameRoute(k, j, n + 1)
    <3>1. CellOn(m, k, n + 1) = EntryCell(Way(m, k)[n], Route(k).path[n + 1])
      BY <1>2, <2>1
    <3>2. x # 0
      BY <1>2, <1>3, <2>2, <3>1
    <3>3. x \in 1 .. lj /\ x - 1 \in 0 .. lj /\ x \in Nat /\ lj - (x - 1) \in 0 .. 3
      BY <1>1, <3>2
    <3>4. CellOn(m, j, x) = EntryCell(Way(m, j)[x - 1], Route(j).path[x])
      BY <1>2, <3>3
    <3> DEFINE b == Way(m, k)[n]
               c == CellOn(m, k, n)
               d == CellOn(m, j, x - 1)
    <3>5. Way(m, j)[x - 1] = b /\ Route(k).path[n + 1] = Route(j).path[x]
      BY <2>2, <3>1, <3>4, CellsDiffer
    <3>6. Live(m, k, n) /\ Live(m, j, x - 1) /\ b # NoBlk
      <4>1. /\ \A i \in 0 .. n - 1 : i \in 0 .. (n + 1) - 1
            /\ n \in 0 .. (n + 1) - 1
            /\ \A i \in 0 .. (x - 1) - 1 : i \in 0 .. x - 1
        BY <2>1, <3>3
      <4> QED BY <2>2, <4>1 DEF Live
    <3>7. IsCell(L, f, c, lk - n) /\ Get(m, c) = b
      BY <1>4, <2>1, <3>6
    <3>8. IsCell(L, f, d, lj - (x - 1)) /\ Get(m, d) = b
      BY <1>5, <3>3, <3>5, <3>6
    <3> HIDE DEF b, c, d
    <3>9. L[b] = Tag(f, c, lk - n) /\ L[b] = Tag(f, d, lj - (x - 1))
      <4>1. c \in Cell /\ d \in Cell
        BY <3>7, <3>8, IsCellType
      <4>2. Seen(N, f, m, f, c) = b /\ Seen(N, f, m, f, d) = b
        BY <3>7, <3>8, SeenOwn
      <4> QED BY <2>1, <3>3, <3>6, <3>7, <3>8, <4>1, <4>2 DEF Forest
    <3>10. c = d
      BY <3>9, Tags
    <3>11. n = x - 1 /\ SameRoute(k, j, n)
      BY <1>8, <3>3, <3>6, <3>10 DEF c, d
    <3>12. n + 1 = x
      BY <2>1, <3>3, <3>11
    <3>13. \A i \in 1 .. n + 1 : Route(k).path[i] = Route(j).path[i]
      <4>1. \A i \in 1 .. n + 1 : i \in 1 .. n \/ i = n + 1
        BY <2>1
      <4> QED BY <3>5, <3>11, <3>12, <4>1 DEF SameRoute
    <3> QED BY <3>11, <3>12, <3>13 DEF SameRoute
  <2> QED BY <2>1, <2>2
<1>9. \A n \in 0 .. lk : n \in S
  <2> HIDE DEF S
  <2>1. lk \in Nat
    BY <1>1
  <2> QED BY <1>7, <1>8, <2>1, UpTo
<1>10. q \in S /\ p \in 0 .. lj
  BY <1>9 DEF lk, lj
<1> QED BY <1>10

-----------------------------------------------------------------------------
(* What a store changes.                                                     *)

\* What a view reads.
LEMMA ViewGet ==
  ASSUME NEW N, NEW f, NEW m, NEW g, NEW d
  PROVE  Get(View(N, f, m, g), d) = Seen(N, f, m, g, d)
BY DEF View, MemoryOf, Seen, ValueIn

\* A way up to a place: the same in two memories; it meets no entry of a block;
\* it does not meet a cell.
SameWay(y, u, j, x) ==
  \A q \in 0 .. x : /\ Way(y, j)[q] = Way(u, j)[q]
                    /\ CellOn(y, j, q) = CellOn(u, j, q)
                    /\ Live(y, j, q) <=> Live(u, j, q)
Avoids(u, j, x, b)    == \A q \in 0 .. x : Live(u, j, q) =>
                           \A e \in Entry : CellOn(u, j, q) # EntryCell(b, e)
Misses(u, j, x, cell) == \A q \in 0 .. x : Live(u, j, q) => CellOn(u, j, q) # cell

\* What SameWay says, in parts.
LEMMA SameWayIs ==
  ASSUME NEW y, NEW u, NEW j, NEW x, SameWay(y, u, j, x)
  PROVE  \A q \in 0 .. x : /\ Way(y, j)[q] = Way(u, j)[q]
                           /\ CellOn(y, j, q) = CellOn(u, j, q)
                           /\ Live(y, j, q) <=> Live(u, j, q)
BY DEF SameWay

\* The same way leads to the same block.
LEMMA SameWayBmap ==
  ASSUME NEW y, NEW u, NEW j \in 0 .. LastFileBlk, SameWay(y, u, j, Len(Route(j).path))
  PROVE  Bmap(y, j) = Bmap(u, j)
<1> DEFINE x == Len(Route(j).path)
<1>1. x \in 0 .. x
  BY RouteType
<1>2. Bmap(y, j) = Way(y, j)[x] /\ Bmap(u, j) = Way(u, j)[x]
  BY BmapIs
<1> HIDE DEF x
<1>3. Way(y, j)[x] = Way(u, j)[x]
  <2>1. SameWay(y, u, j, x)
    BY DEF x
  <2> QED BY <1>1, <2>1, SameWayIs
<1> QED BY <1>2, <1>3

\* A way that meets neither the cell stored to nor, before it, an entry of the
\* block written, is as before.
LEMMA StoredWay ==
  ASSUME NEW N \in [File -> INodeType], NEW f \in File, NEW m \in Memory, NEW L,
         Forest(L, N, f, m), NEW cell, NEW h, IsCell(L, f, cell, h),
         NEW v \in Id, NEW b \in Block, NEW entries \in [Entry -> Id],
         NEW free2 \in Seq(Block), NEW g \in File, NEW j \in 0 .. LastFileBlk,
         NEW x \in 0 .. Len(Route(j).path),
         Avoids(View(N, f, m, g), j, x, b), g = f => Misses(View(N, f, m, g), j, x, cell)
  PROVE  SameWay(View(N, f, Stored(m, cell, v, b, entries, free2), g), View(N, f, m, g), j, x)
<1> DEFINE z == Stored(m, cell, v, b, entries, free2)
           u == View(N, f, m, g)
           y == View(N, f, z, g)
           O == With(N, f, m.inode)
           last == Len(Route(j).path)
<1>1. u \in Memory /\ O \in [File -> INodeType] /\ Forest(L, O, g, u)
  BY Viewed
<1>2. last \in 0 .. 3 /\ x \in Nat
  BY RouteType
<1>3. cell \in Cell
  BY IsCellType
<1>4. \A d \in Cell : (\A e \in Entry : d # EntryCell(b, e)) =>
        /\ d # cell => Seen(N, f, z, g, d) = Seen(N, f, m, g, d)
        /\ d = cell /\ g # f /\ (\A p, e : d # EntryCell(p, e)) =>
             Seen(N, f, z, g, d) = Seen(N, f, m, g, d)
  BY <1>3, StoredFields
<1> HIDE DEF z, O
<1>5. ASSUME NEW q \in 0 .. x, Live(u, j, q)
      PROVE  Get(y, CellOn(u, j, q)) = Get(u, CellOn(u, j, q))
  <2> DEFINE d == CellOn(u, j, q)
             i == last - q
  <2>1. IsCell(L, g, d, i)
    <3>1. q \in 0 .. Len(Route(j).path)
      BY <1>2
    <3> HIDE DEF u
    <3> QED BY <1>1, <1>5, <3>1, WayPlace
  <2>2. d \in Cell
    BY <2>1, IsCellType
  <2>3. (\A e \in Entry : d # EntryCell(b, e)) /\ (g = f => d # cell)
    BY <1>5 DEF Avoids, Misses
  <2> HIDE DEF d, i
  <2>4. g # f /\ d = cell => \A p, e : d # EntryCell(p, e)
    BY <2>1, CellUnique
  <2>5. Seen(N, f, z, g, d) = Seen(N, f, m, g, d)
    BY <1>4, <2>2, <2>3, <2>4
  <2>6. Get(y, d) = Seen(N, f, z, g, d) /\ Get(u, d) = Seen(N, f, m, g, d)
    BY ViewGet
  <2>7. Get(y, d) = Get(u, d)
    BY <2>5, <2>6
  <2> QED BY <2>7 DEF d
<1> HIDE DEF y, u
<1>6. \A q \in 0 .. x : Live(u, j, q) => Get(y, CellOn(u, j, q)) = Get(u, CellOn(u, j, q))
  BY <1>5
<1>7. \A q \in 0 .. x : /\ Way(y, j)[q] = Way(u, j)[q]
                        /\ CellOn(y, j, q) = CellOn(u, j, q)
                        /\ Live(y, j, q) <=> Live(u, j, q)
  BY <1>6, WaySame
<1> QED BY <1>7 DEF y, u, z, SameWay

\* The files hold the same at a place.
Alike(N, f, m, z, g, j) == Maps(N, f, z, g, j) = Maps(N, f, m, g, j)

\* The memory after a fill.
Filled(m, cell, use) ==
  LET b == Head(m.free)
  IN  Stored(m, cell, b, b, NewEntries(b, use), Tail(m.free))

\* What a fill of a cell with block b does to place j of the files.
FilledAt(N, f, m, cell, b, z, j) ==
  /\ \A g \in File : ~(g = f /\ Passes(m, j, cell)) => Alike(N, f, m, z, g, j)
  /\ \A q \in 0 .. Len(Route(j).path) : PassesAt(m, j, cell, q) =>
       /\ CellOn(z, j, q) = cell /\ Live(z, j, q) /\ Way(z, j)[q] = b
       /\ Bmap(m, j) = NoBlk
       /\ q # Len(Route(j).path) => Bmap(z, j) = NoBlk

\* Filling an empty cell does not change what a way that does not pass it leads
\* to.  A way that passes it led nowhere, and now has the new block there, which
\* is all of it when that is an index block.
LEMMA FillMaps ==
  ASSUME NEW N \in [File -> INodeType], NEW f \in File, NEW m \in Memory, NEW L,
         Forest(L, N, f, m), m.free # <<>>,
         NEW cell, NEW h \in 0 .. 3, IsCell(L, f, cell, h), Get(m, cell) = NoBlk,
         NEW use, h = 0 \/ use = IndexUse, NEW j \in 0 .. LastFileBlk
  PROVE  FilledAt(N, f, m, cell, Head(m.free), Filled(m, cell, use), j)
<1> DEFINE b == Head(m.free)
           rest == Tail(m.free)
           entries == NewEntries(b, use)
           z == Stored(m, cell, b, b, entries, rest)
           last == Len(Route(j).path)
<1>1. m.free \in Seq(Block)
  BY MemoryFields
<1>2. b \in Block /\ rest \in Seq(Block) /\ b \in Id /\ b # NoBlk
  BY <1>1, TailFree, GeometryAssumption DEF Id
<1>3. entries \in [Entry -> Id]
  BY <1>2, NewEntriesType
<1>4. L[b] = Unheld
  <2>1. Head(m.free) = m.free[1] /\ 1 \in DOMAIN m.free
    BY <1>1, TailFree
  <2> QED BY <2>1 DEF Forest
<1>5. last \in 0 .. 3 /\ Route(j).path \in Seq(Entry)
  BY RouteType
<1>6. cell \in Cell
  BY IsCellType
<1>7. z \in Memory
  <2> HIDE DEF b, rest, entries
  <2> QED BY <1>2, <1>3, <1>6, StoredFields
<1>8. ASSUME NEW g \in File, NEW q \in 0 .. last, Live(View(N, f, m, g), j, q), NEW e \in Entry
      PROVE  CellOn(View(N, f, m, g), j, q) # EntryCell(b, e)
  <2> DEFINE u == View(N, f, m, g)
             O == With(N, f, m.inode)
             d == CellOn(u, j, q)
             i == last - q
  <2>1. u \in Memory /\ O \in [File -> INodeType] /\ Forest(L, O, g, u)
    BY Viewed
  <2>2. IsCell(L, g, d, i)
    <3> HIDE DEF u, O
    <3> QED BY <1>8, <2>1, WayPlace DEF u
  <2>3. i \in 0 .. 3
    <3>1. last \in 0 .. 3 /\ q \in 0 .. last
      BY <1>5
    <3> HIDE DEF last
    <3> QED BY <3>1
  <2> HIDE DEF d, i, b
  <2>4. d # EntryCell(b, e)
    <3> SUFFICES ASSUME d = EntryCell(b, e) PROVE FALSE
      OBVIOUS
    <3>1. HeldAt(L, b, g, i + 1)
      BY <2>2, <2>3, EntryIsCell
    <3> QED BY <1>4, <3>1, Tags DEF HeldAt
  <2> QED BY <2>4 DEF d
<1> HIDE DEF b, rest, entries
<1>9. ASSUME NEW g \in File, ~(g = f /\ Passes(m, j, cell))
      PROVE  Alike(N, f, m, z, g, j)
  <2> DEFINE u == View(N, f, m, g)
             y == View(N, f, z, g)
  <2>1. Avoids(u, j, last, b) /\ (g = f => Misses(u, j, last, cell))
    <3>1. g = f => u = m
      BY ViewOwn
    <3> HIDE DEF u
    <3>2. \A q \in 0 .. last : Live(u, j, q) => \A e \in Entry : CellOn(u, j, q) # EntryCell(b, e)
      BY <1>8 DEF u
    <3>3. Avoids(u, j, last, b)
      BY <3>2 DEF Avoids
    <3>4. g = f => Misses(u, j, last, cell)
      BY <1>9, <3>1 DEF Misses, Passes, PassesAt
    <3> QED BY <3>3, <3>4
  <2>2. last \in 0 .. last
    BY <1>5
  <2>3. SameWay(y, u, j, last)
    <3> DEFINE x == last
    <3>1. x \in 0 .. Len(Route(j).path) /\ Avoids(u, j, x, b)
          /\ (g = f => Misses(u, j, x, cell))
      BY <2>1, <2>2
    <3> HIDE DEF x
    <3>2. SameWay(y, u, j, x)
      BY <1>2, <1>3, <3>1, StoredWay
    <3> QED BY <3>2 DEF x
  <2> HIDE DEF y, u
  <2>4. Bmap(y, j) = Bmap(u, j)
    BY <2>3, SameWayBmap
  <2> QED BY <2>4 DEF Alike, Maps, y, u
<1>10. ASSUME NEW q \in 0 .. last, PassesAt(m, j, cell, q)
       PROVE  /\ CellOn(z, j, q) = cell /\ Live(z, j, q) /\ Way(z, j)[q] = b
              /\ Bmap(m, j) = NoBlk
              /\ q # last => Bmap(z, j) = NoBlk
  <2>1. Live(m, j, q) /\ CellOn(m, j, q) = cell
    BY <1>10 DEF PassesAt
  <2>2. View(N, f, m, f) = m /\ View(N, f, z, f) = z
    <3> HIDE DEF z
    <3> QED BY <1>7, ViewOwn
  <2>3. ASSUME NEW i \in 0 .. q - 1
        PROVE  /\ Way(z, j)[i] = Way(m, j)[i] /\ i \in 0 .. last
    <3>1. q - 1 \in 0 .. last /\ q - 1 \in Nat /\ q \in 0 .. last
      BY <1>5
    <3>2. \A n \in 0 .. q - 1 : Live(m, j, n) =>
            /\ \A e \in Entry : CellOn(m, j, n) # EntryCell(b, e)
            /\ CellOn(m, j, n) # cell
      <4>1. ASSUME NEW n \in 0 .. q - 1, Live(m, j, n)
            PROVE  /\ \A e \in Entry : CellOn(m, j, n) # EntryCell(b, e)
                   /\ CellOn(m, j, n) # cell
        <5>1. n \in 0 .. last /\ n # q
          BY <1>5
        <5>2. \A e \in Entry : CellOn(m, j, n) # EntryCell(b, e)
          BY <1>8, <2>2, <4>1, <5>1
        <5>3. CellOn(m, j, n) # cell
          BY <2>1, <4>1, <5>1, OneWay
        <5> QED BY <5>2, <5>3
      <4> QED BY <4>1
    <3> DEFINE u == View(N, f, m, f)
               y == View(N, f, z, f)
               x == q - 1
    <3>3. x \in 0 .. Len(Route(j).path) /\ Avoids(u, j, x, b) /\ Misses(u, j, x, cell)
      <4> HIDE DEF u
      <4>1. u = m
        BY <2>2 DEF u
      <4> QED BY <3>1, <3>2, <4>1 DEF Avoids, Misses
    <3> HIDE DEF x
    <3>4. SameWay(y, u, j, x)
      BY <1>2, <1>3, <3>3, StoredWay
    <3>5. SameWay(z, m, j, x)
      <4> HIDE DEF y, u
      <4>1. y = z /\ u = m
        BY <2>2 DEF y, u
      <4> QED BY <3>4, <4>1
    <3>6. \A n \in 0 .. x : Way(z, j)[n] = Way(m, j)[n]
      <4> HIDE DEF z
      <4> QED BY <3>5, SameWayIs
    <3>7. i \in 0 .. x /\ i \in 0 .. last
      BY <1>5 DEF x
    <3> QED BY <3>6, <3>7
  <2>4. Live(z, j, q)
    BY <2>1, <2>3 DEF Live
  <2>5. CellOn(z, j, q) = cell
    <3>1. /\ CellOn(z, j, 0) = Route(j).start /\ CellOn(m, j, 0) = Route(j).start
          /\ \A n \in 1 .. last : CellOn(z, j, n) = EntryCell(Way(z, j)[n - 1], Route(j).path[n])
          /\ \A n \in 1 .. last : CellOn(m, j, n) = EntryCell(Way(m, j)[n - 1], Route(j).path[n])
      BY WayStep
    <3>2. q = 0 \/ (q \in 1 .. last /\ q - 1 \in 0 .. q - 1)
      BY <1>5
    <3> HIDE DEF z, last
    <3> QED BY <2>1, <2>3, <3>1, <3>2
  <2>6. Get(z, cell) = b
    <3>1. \A e \in Entry : cell # EntryCell(b, e)
      BY <1>8, <2>1, <2>2
    <3>2. \A d \in Cell : (\A e \in Entry : d # EntryCell(b, e)) =>
            Get(z, d) = IF d = cell THEN b ELSE Get(m, d)
      BY <1>2, <1>3, <1>6, StoredFields
    <3> HIDE DEF z
    <3> QED BY <1>6, <3>1, <3>2
  <2>7. Way(z, j)[q] = b
    <3>1. Live(z, j, q) => Way(z, j)[q] = Get(z, CellOn(z, j, q))
      BY WayStep
    <3> HIDE DEF z
    <3> QED BY <2>4, <2>5, <2>6, <3>1
  <2>8. Bmap(m, j) = NoBlk
    <3>1. Way(m, j)[q] = Get(m, CellOn(m, j, q))
      BY <2>1, WayStep
    <3> QED BY <2>1, <3>1, WayDead
  <2>9. CASE q # last
    <3>1. q + 1 \in 1 .. last /\ (q + 1) - 1 = q /\ q + 1 \in 0 .. last
      BY <1>5, <2>9
    <3>2. h # 0
      <4>1. IsCell(L, f, cell, last - q)
        BY <2>1, WayPlace
      <4>2. last - q # 0
        BY <1>5, <2>9
      <4> DEFINE i == last - q
      <4> HIDE DEF i
      <4>3. h = i
        BY <4>1, CellUnique DEF i
      <4> QED BY <4>2, <4>3 DEF i
    <3>3. entries = BlankIndex
      BY <3>2 DEF entries, NewEntries
    <3> DEFINE e == Route(j).path[q + 1]
    <3>4. e \in Entry
      BY <1>5, <3>1
    <3>5. z.index[b] = entries
      BY <1>2, <1>3, <1>6, StoredFields
    <3> HIDE DEF z, last
    <3>6. CellOn(z, j, q + 1) = EntryCell(Way(z, j)[(q + 1) - 1], e)
          /\ (Way(z, j)[(q + 1) - 1] # NoBlk => Way(z, j)[q + 1] = Get(z, CellOn(z, j, q + 1)))
      BY <3>1, WayStep DEF last
    <3>7. Way(z, j)[q + 1] = Get(z, EntryCell(b, e))
      BY <1>2, <2>7, <3>1, <3>6
    <3>8. Get(z, EntryCell(b, e)) = entries[e]
      BY <3>5, GetIs
    <3>9. Way(z, j)[q + 1] = NoBlk
      BY <3>3, <3>4, <3>7, <3>8 DEF BlankIndex
    <3> QED BY <2>4, <2>5, <2>7, <2>8, <3>1, <3>9, WayDead DEF last
  <2> HIDE DEF z
  <2> QED BY <2>4, <2>5, <2>7, <2>8, <2>9
<1> HIDE DEF z
<1>11. FilledAt(N, f, m, cell, b, z, j)
  BY <1>9, <1>10 DEF FilledAt
<1> QED BY <1>11 DEF Filled, z, b, rest, entries

\* The block of a cell that is released is the file's own, held there.
LEMMA HeldHere ==
  ASSUME NEW N \in [File -> INodeType], NEW f \in File, NEW m \in Memory, NEW L,
         Forest(L, N, f, m), NEW cell, NEW h \in 0 .. 3, IsCell(L, f, cell, h),
         Get(m, cell) # NoBlk
  PROVE  Get(m, cell) \in Block /\ L[Get(m, cell)] = Tag(f, cell, h)
<1> DEFINE b == Get(m, cell)
<1>1. cell \in Cell
  BY IsCellType
<1>2. b = Seen(N, f, m, f, cell)
  BY SeenOwn
<1>3. With(N, f, m.inode)[f] \in INodeType
  BY MemoryFields DEF With
<1>4. b \in Id
  BY <1>1, <1>2, <1>3, ValueType DEF Seen
<1>5. b \in Block
  BY <1>4 DEF Id
<1>6. L[b] = Tag(f, cell, h)
  BY <1>1, <1>2 DEF Forest
<1> QED BY <1>5, <1>6

\* A way that goes on below the block of a cell comes from the cell.
LEMMA ThroughCell ==
  ASSUME NEW N \in [File -> INodeType], NEW f \in File, NEW m \in Memory, NEW L,
         Forest(L, N, f, m), NEW cell, NEW h \in 0 .. 3, IsCell(L, f, cell, h),
         Get(m, cell) # NoBlk, NEW g \in File, NEW j \in 0 .. LastFileBlk,
         NEW q \in 0 .. Len(Route(j).path), Live(View(N, f, m, g), j, q), NEW e,
         CellOn(View(N, f, m, g), j, q) = EntryCell(Get(m, cell), e)
  PROVE  g = f /\ q # 0 /\ PassesAt(m, j, cell, q - 1)
<1> DEFINE u == View(N, f, m, g)
           O == With(N, f, m.inode)
           b == Get(m, cell)
           last == Len(Route(j).path)
           i == last - q
           d == CellOn(u, j, q)
<1>1. u \in Memory /\ O \in [File -> INodeType] /\ Forest(L, O, g, u)
  BY Viewed
<1>2. last \in 0 .. 3 /\ q \in Nat
  BY RouteType
<1>3. IsCell(L, g, d, i)
  <2> HIDE DEF u, O
  <2> QED BY <1>1, WayPlace DEF u
<1>4. i \in 0 .. 3
  <2>1. last \in 0 .. 3 /\ q \in 0 .. last
    BY <1>2
  <2> HIDE DEF last
  <2> QED BY <2>1
<1>5. L[b] = Tag(f, cell, h) /\ b \in Block
  BY HeldHere
<1>6. g = f
  <2>1. d = EntryCell(b, e)
    OBVIOUS
  <2> HIDE DEF d, i, b
  <2>2. HeldAt(L, b, g, i + 1)
    BY <1>3, <1>4, <2>1, EntryIsCell
  <2>3. PICK c : L[b] = Tag(g, c, i + 1)
    BY <2>2 DEF HeldAt
  <2>4. Tag(f, cell, h) = Tag(g, c, i + 1)
    BY <1>5, <2>3
  <2> QED BY <2>4, Tags
<1>7. u = m
  BY <1>6, ViewOwn
<1>8. Live(m, j, q) /\ CellOn(m, j, q) = EntryCell(b, e) /\ b # NoBlk
  <2> HIDE DEF b
  <2>1. Live(u, j, q) /\ CellOn(u, j, q) = EntryCell(b, e)
    BY DEF b
  <2> HIDE DEF u
  <2> QED BY <1>7, <2>1 DEF b
<1> HIDE DEF u, O, b, d, i
<1>9. q # 0
  <2>1. CellOn(m, j, 0) = Route(j).start
    BY WayStep
  <2>2. Route(j).start = DirectCell(j) \/ Route(j).start = RootCell(last)
    BY <1>2, RouteType
  <2> QED BY <1>8, <2>1, <2>2, CellsDiffer
<1>10. q \in 1 .. last /\ q - 1 \in 0 .. last /\ q - 1 \in 0 .. q - 1 /\ last - (q - 1) \in 0 .. 3
  <2>1. last \in 0 .. 3 /\ q \in 0 .. last
    BY <1>2
  <2> HIDE DEF last
  <2> QED BY <1>9, <2>1
<1>11. Way(m, j)[q - 1] = b
  <2>1. CellOn(m, j, q) = EntryCell(Way(m, j)[q - 1], Route(j).path[q])
    BY <1>10, WayStep
  <2>2. EntryCell(Way(m, j)[q - 1], Route(j).path[q]) = EntryCell(b, e)
    BY <1>8, <2>1
  <2> QED BY <2>2, CellsDiffer
<1>12. Live(m, j, q - 1)
  <2>1. \A n \in 0 .. (q - 1) - 1 : n \in 0 .. q - 1
    BY <1>2
  <2> QED BY <1>8, <2>1 DEF Live
<1> DEFINE c == CellOn(m, j, q - 1)
           x == last - (q - 1)
<1>13. IsCell(L, f, c, x) /\ Get(m, c) = b /\ x \in 0 .. 3
  BY <1>10, <1>11, <1>12, WayPlace
<1> HIDE DEF c, x
<1>14. L[b] = Tag(f, c, x)
  BY <1>8, <1>13, HeldHere
<1>15. c = cell
  <2>1. Tag(f, cell, h) = Tag(f, c, x)
    BY <1>5, <1>14
  <2> QED BY <2>1, Tags
<1> QED BY <1>6, <1>9, <1>12, <1>15 DEF PassesAt, c

\* Two ways that are the same before a place are at the same cell there.
LEMMA CellAfter ==
  ASSUME NEW m, NEW z, NEW j \in 0 .. LastFileBlk, NEW q \in 0 .. Len(Route(j).path),
         \A i \in 0 .. q - 1 : Way(z, j)[i] = Way(m, j)[i], Live(m, j, q)
  PROVE  Live(z, j, q) /\ CellOn(z, j, q) = CellOn(m, j, q)
<1> DEFINE last == Len(Route(j).path)
<1>1. last \in 0 .. 3
  BY RouteType
<1>2. /\ CellOn(z, j, 0) = Route(j).start /\ CellOn(m, j, 0) = Route(j).start
      /\ \A n \in 1 .. last : CellOn(z, j, n) = EntryCell(Way(z, j)[n - 1], Route(j).path[n])
      /\ \A n \in 1 .. last : CellOn(m, j, n) = EntryCell(Way(m, j)[n - 1], Route(j).path[n])
  BY WayStep
<1>3. q = 0 \/ (q \in 1 .. last /\ q - 1 \in 0 .. q - 1)
  BY <1>1
<1> HIDE DEF last
<1>4. CellOn(z, j, q) = CellOn(m, j, q)
  BY <1>2, <1>3
<1> QED BY <1>4 DEF Live

\* Releasing the block of a cell does not change what a way that does not pass
\* the cell leads to; one that passes it now leads nowhere.
LEMMA ReleaseMaps ==
  ASSUME NEW N \in [File -> INodeType], NEW f \in File, NEW m \in Memory, NEW L,
         Forest(L, N, f, m), NEW cell, NEW h \in 0 .. 3, IsCell(L, f, cell, h),
         Get(m, cell) # NoBlk, NEW j \in 0 .. LastFileBlk
  PROVE  /\ \A g \in File : ~(g = f /\ Passes(m, j, cell)) =>
              Alike(N, f, m, Release(m, cell), g, j)
         /\ \A q \in 0 .. Len(Route(j).path) : PassesAt(m, j, cell, q) =>
              /\ \A i \in 0 .. q - 1 : Way(Release(m, cell), j)[i] = Way(m, j)[i]
              /\ Bmap(Release(m, cell), j) = NoBlk
<1> DEFINE b == Get(m, cell)
           put == <<b>> \o m.free
           entries == Junk(b)
           z == Stored(m, cell, NoBlk, b, entries, put)
           last == Len(Route(j).path)
<1>1. cell \in Cell
  BY IsCellType
<1>2. Release(m, cell) = z
  BY <1>1, ReleaseIs
<1>3. b \in Block /\ b # NoBlk
  BY HeldHere
<1>4. entries \in [Entry -> Id] /\ NoBlk \in Id /\ put \in Seq(Block)
  <2>1. m.free \in Seq(Block)
    BY MemoryFields
  <2>2. put \in Seq(Block)
    BY <1>3, <2>1
  <2> QED BY <1>3, <2>2 DEF Junk, Id
<1>5. last \in 0 .. 3
  BY RouteType
<1>6. \A g \in File, q \in 0 .. last : Live(View(N, f, m, g), j, q) =>
        \A e \in Entry : CellOn(View(N, f, m, g), j, q) = EntryCell(b, e) =>
          g = f /\ q # 0 /\ PassesAt(m, j, cell, q - 1)
  BY ThroughCell
<1> HIDE DEF b, put, entries
<1>7. z \in Memory
  BY <1>1, <1>3, <1>4, StoredFields
<1>8. ASSUME NEW g \in File, ~(g = f /\ Passes(m, j, cell))
      PROVE  Alike(N, f, m, z, g, j)
  <2> DEFINE u == View(N, f, m, g)
             y == View(N, f, z, g)
  <2>1. g = f => u = m
    BY ViewOwn
  <2>2. last \in 0 .. last
    BY <1>5
  <2>3. Avoids(u, j, last, b)
    <3> SUFFICES ASSUME NEW q \in 0 .. last, Live(u, j, q), NEW e \in Entry,
                        CellOn(u, j, q) = EntryCell(b, e)
                 PROVE  FALSE
      BY DEF Avoids
    <3>1. g = f /\ q # 0 /\ PassesAt(m, j, cell, q - 1)
      BY <1>6
    <3>2. q - 1 \in 0 .. last
      <4>1. last \in 0 .. 3 /\ q \in 0 .. last /\ q # 0
        BY <1>5, <3>1
      <4> HIDE DEF last
      <4> QED BY <4>1
    <3> QED BY <1>8, <3>1, <3>2 DEF Passes
  <2>4. g = f => Misses(u, j, last, cell)
    <3> HIDE DEF u
    <3> QED BY <1>8, <2>1 DEF Misses, Passes, PassesAt
  <2>5. SameWay(y, u, j, last)
    <3> DEFINE x == last
    <3>1. x \in 0 .. Len(Route(j).path) /\ Avoids(u, j, x, b)
          /\ (g = f => Misses(u, j, x, cell))
      BY <2>2, <2>3, <2>4
    <3> HIDE DEF x
    <3>2. SameWay(y, u, j, x)
      BY <1>3, <1>4, <3>1, StoredWay
    <3> QED BY <3>2 DEF x
  <2> HIDE DEF y, u
  <2>6. Bmap(y, j) = Bmap(u, j)
    BY <2>5, SameWayBmap
  <2> QED BY <2>6 DEF Alike, Maps, y, u
<1>9. ASSUME NEW q \in 0 .. last, PassesAt(m, j, cell, q)
      PROVE  /\ \A i \in 0 .. q - 1 : Way(z, j)[i] = Way(m, j)[i]
             /\ Bmap(z, j) = NoBlk
  <2>1. Live(m, j, q) /\ CellOn(m, j, q) = cell
    BY <1>9 DEF PassesAt
  <2>2. View(N, f, m, f) = m /\ View(N, f, z, f) = z
    <3> HIDE DEF z
    <3> QED BY <1>7, ViewOwn
  <2>3. ASSUME NEW n \in 0 .. q, Live(m, j, n), NEW e \in Entry
        PROVE  CellOn(m, j, n) # EntryCell(b, e)
    <3> SUFFICES ASSUME CellOn(m, j, n) = EntryCell(b, e)
                 PROVE  FALSE
      OBVIOUS
    <3>1. n \in 0 .. last
      BY <1>5
    <3>2. n # 0 /\ PassesAt(m, j, cell, n - 1)
      BY <1>6, <2>2, <2>3, <3>1
    <3>3. n - 1 \in 0 .. last /\ n - 1 # q
      <4>1. last \in 0 .. 3 /\ q \in 0 .. last
        BY <1>5
      <4> HIDE DEF last
      <4> QED BY <3>2, <4>1
    <3>4. Live(m, j, n - 1) /\ CellOn(m, j, n - 1) = cell
      BY <3>2 DEF PassesAt
    <3> DEFINE x == n - 1
    <3> HIDE DEF x
    <3>5. x = q
      BY <2>1, <3>3, <3>4, OneWay DEF x
    <3> QED BY <3>3, <3>5 DEF x
  <2>4. ASSUME NEW i \in 0 .. q - 1
        PROVE  Way(z, j)[i] = Way(m, j)[i]
    <3> DEFINE x == q - 1
    <3>1. x \in 0 .. last /\ i \in 0 .. x /\ x \in Nat
      BY <1>5
    <3>2. Avoids(m, j, x, b)
      <4>1. \A n \in 0 .. x : n \in 0 .. q
        BY <1>5
      <4> QED BY <2>3, <4>1 DEF Avoids
    <3>3. Misses(m, j, x, cell)
      <4> SUFFICES ASSUME NEW n \in 0 .. x, Live(m, j, n), CellOn(m, j, n) = cell
                   PROVE  FALSE
        BY DEF Misses
      <4>1. n \in 0 .. last /\ n # q
        BY <1>5
      <4> QED BY <2>1, <4>1, OneWay
    <3> DEFINE u == View(N, f, m, f)
               y == View(N, f, z, f)
    <3>4. x \in 0 .. Len(Route(j).path) /\ Avoids(u, j, x, b) /\ Misses(u, j, x, cell)
      <4> HIDE DEF u
      <4>1. u = m
        BY <2>2 DEF u
      <4> QED BY <3>1, <3>2, <3>3, <4>1
    <3> HIDE DEF x
    <3>5. SameWay(y, u, j, x)
      BY <1>3, <1>4, <3>4, StoredWay
    <3>6. SameWay(z, m, j, x)
      <4> HIDE DEF y, u
      <4>1. y = z /\ u = m
        BY <2>2 DEF y, u
      <4> QED BY <3>5, <4>1
    <3>7. \A n \in 0 .. x : Way(z, j)[n] = Way(m, j)[n]
      <4> HIDE DEF z
      <4> QED BY <3>6, SameWayIs
    <3> QED BY <3>1, <3>7
  <2>5. Live(z, j, q) /\ CellOn(z, j, q) = cell
    <3> HIDE DEF z
    <3> QED BY <2>1, <2>4, CellAfter
  <2>6. Get(z, cell) = NoBlk
    <3>1. \A e \in Entry : cell # EntryCell(b, e)
      <4>1. q \in 0 .. q
        BY <1>5
      <4> QED BY <2>1, <2>3, <4>1
    <3>2. \A d \in Cell : (\A e \in Entry : d # EntryCell(b, e)) =>
            Get(z, d) = IF d = cell THEN NoBlk ELSE Get(m, d)
      BY <1>1, <1>3, <1>4, StoredFields
    <3> HIDE DEF z
    <3> QED BY <1>1, <3>1, <3>2
  <2> HIDE DEF z
  <2>7. Way(z, j)[q] = NoBlk
    <3>1. Live(z, j, q) => Way(z, j)[q] = Get(z, CellOn(z, j, q))
      BY WayStep
    <3> QED BY <2>5, <2>6, <3>1
  <2>8. Bmap(z, j) = NoBlk
    BY <2>7, WayDead
  <2> QED BY <2>4, <2>8
<1> HIDE DEF z
<1> QED BY <1>2, <1>8, <1>9

\* The same, with the blocks apart.
FilledWell(N, f, m, cell, z) ==
  /\ z \in Memory /\ (\E M : Forest(M, N, f, z)) /\ Get(z, cell) \in Block
  /\ \A j \in 0 .. LastFileBlk : FilledAt(N, f, m, cell, Get(z, cell), z, j)

\* Filling an empty cell of f puts the new block there and moves no other.
LEMMA FillWell ==
  ASSUME NEW N \in [File -> INodeType], NEW f \in File, NEW m \in Memory, NEW L,
         Forest(L, N, f, m), m.free # <<>>,
         NEW cell, NEW h \in 0 .. 3, IsCell(L, f, cell, h), Get(m, cell) = NoBlk,
         NEW use, h = 0 \/ use = IndexUse
  PROVE  FilledWell(N, f, m, cell, Filled(m, cell, use))
<1> DEFINE b == Head(m.free)
           z == Stored(m, cell, b, b, NewEntries(b, use), Tail(m.free))
<1>1. /\ b \in Block /\ z \in Memory /\ Grows(m, z) /\ Get(z, cell) = b
      /\ Forest(With(L, b, Tag(f, cell, h)), N, f, z)
      /\ IsCell(With(L, b, Tag(f, cell, h)), f, cell, h)
  BY ZenonT(30), FillKeeps
<1>2. \A j \in 0 .. LastFileBlk : FilledAt(N, f, m, cell, Head(m.free), Filled(m, cell, use), j)
  BY FillMaps
<1>3. Filled(m, cell, use) = z
  BY DEF Filled
<1> HIDE DEF z
<1>4. \A j \in 0 .. LastFileBlk : FilledAt(N, f, m, cell, Get(z, cell), z, j)
  BY <1>1, <1>2, <1>3
<1>5. FilledWell(N, f, m, cell, z)
  BY <1>1, <1>4 DEF FilledWell
<1> QED BY <1>3, <1>5

-----------------------------------------------------------------------------
(* What balloc changes.                                                      *)

AllAlike(N, f, m, z) == \A g \in File, j \in 0 .. LastFileBlk : Alike(N, f, m, z, g, j)

\* A way that passes a cell with a block passes the block's entry.
LEMMA PassOn ==
  ASSUME NEW m, NEW k \in 0 .. LastFileBlk, NEW n \in 0 .. Len(Route(k).path) - 1,
         NEW cell, PassesAt(m, k, cell, n), Get(m, cell) # NoBlk
  PROVE  PassesAt(m, k, EntryCell(Get(m, cell), Route(k).path[n + 1]), n + 1)
<1> DEFINE last == Len(Route(k).path)
<1>1. n + 1 \in 1 .. last /\ (n + 1) - 1 = n /\ n \in 0 .. last
  <2>1. last \in 0 .. 3 /\ n \in 0 .. last - 1
    BY RouteType
  <2> HIDE DEF last
  <2> QED BY <2>1
<1>2. Live(m, k, n) /\ CellOn(m, k, n) = cell
  BY DEF PassesAt
<1> HIDE DEF last
<1>3. Way(m, k)[n] = Get(m, cell)
  BY <1>1, <1>2, WayStep DEF last
<1>4. CellOn(m, k, n + 1) = EntryCell(Way(m, k)[n], Route(k).path[n + 1])
  BY <1>1, WayStep DEF last
<1>5. Live(m, k, n + 1)
  <2>1. \A i \in 0 .. (n + 1) - 1 : i \in 0 .. n - 1 \/ i = n
    BY <1>1
  <2> QED BY <1>2, <1>3, <2>1 DEF Live
<1> QED BY <1>3, <1>4, <1>5 DEF PassesAt

\* The descent for file block k of f at place n: it has given up, or the way
\* goes through its cell there; no file's blocks have changed.
OnMap(N, f, m0, k, n, a) ==
  \E m, L, cell :
    /\ m \in Memory /\ Forest(L, N, f, m) /\ AllAlike(N, f, m0, m)
    /\ a = Stuck(m, cell) \/ (a = Going(m, cell) /\ PassesAt(m, k, cell, n))

\* A new index block leads to no block.
LEMMA IndexMaps ==
  ASSUME NEW N \in [File -> INodeType], NEW f \in File, NEW m \in Memory, NEW L,
         Forest(L, N, f, m), m.free # <<>>, NEW k \in 0 .. LastFileBlk,
         NEW n \in 0 .. Len(Route(k).path) - 1, NEW cell, PassesAt(m, k, cell, n),
         Get(m, cell) = NoBlk
  PROVE  LET z == Filled(m, cell, IndexUse)
         IN  /\ z \in Memory /\ (\E M : Forest(M, N, f, z)) /\ AllAlike(N, f, m, z)
             /\ Get(z, cell) # NoBlk /\ PassesAt(z, k, cell, n)
<1> DEFINE last == Len(Route(k).path)
           h == last - n
           z == Filled(m, cell, IndexUse)
<1>1. last \in 0 .. 3 /\ n \in 0 .. last /\ h \in 1 .. 3 /\ n # last
  <2>1. last \in 0 .. 3 /\ n \in 0 .. last - 1
    BY RouteType
  <2> HIDE DEF last
  <2> QED BY <2>1
<1>2. Live(m, k, n) /\ CellOn(m, k, n) = cell
  BY DEF PassesAt
<1>3. IsCell(L, f, cell, h)
  BY <1>1, <1>2, WayPlace
<1> HIDE DEF h
<1>4. h \in 0 .. 3
  BY <1>1
<1>5. FilledWell(N, f, m, cell, z)
  BY <1>3, <1>4, FillWell
<1> HIDE DEF z
<1>6. z \in Memory /\ (\E M : Forest(M, N, f, z)) /\ Get(z, cell) # NoBlk
  BY <1>5, GeometryAssumption DEF FilledWell
<1>7. \A j \in 0 .. LastFileBlk :
        /\ \A g \in File : ~(g = f /\ Passes(m, j, cell)) => Alike(N, f, m, z, g, j)
        /\ \A q \in 0 .. Len(Route(j).path) : PassesAt(m, j, cell, q) =>
             /\ CellOn(z, j, q) = cell /\ Live(z, j, q)
             /\ Bmap(m, j) = NoBlk
             /\ q # Len(Route(j).path) => Bmap(z, j) = NoBlk
  BY <1>5 DEF FilledWell, FilledAt
<1>8. ASSUME NEW g \in File, NEW j \in 0 .. LastFileBlk
      PROVE  Alike(N, f, m, z, g, j)
  <2>1. CASE ~(g = f /\ Passes(m, j, cell))
    BY <1>7, <2>1
  <2>2. CASE g = f /\ Passes(m, j, cell)
    <3>1. PICK q \in 0 .. Len(Route(j).path) : PassesAt(m, j, cell, q)
      BY <2>2 DEF Passes
    <3>2. n = q /\ SameRoute(k, j, n)
      <4>1. Live(m, j, q) /\ CellOn(m, k, n) = CellOn(m, j, q)
        BY <1>2, <3>1 DEF PassesAt
      <4> QED BY <1>1, <1>2, <4>1, OneWay
    <3>3. q # Len(Route(j).path)
      BY <1>1, <3>2 DEF SameRoute
    <3>4. Bmap(z, j) = Bmap(m, j)
      BY <1>7, <3>1, <3>3
    <3>5. View(N, f, m, f) = m /\ View(N, f, z, f) = z
      BY <1>6, ViewOwn
    <3> QED BY <2>2, <3>4, <3>5 DEF Alike, Maps
  <2> QED BY <2>1, <2>2
<1>9. PassesAt(z, k, cell, n)
  BY <1>1, <1>7 DEF PassesAt
<1> QED BY <1>6, <1>8, <1>9 DEF AllAlike, z

\* No change, twice.
LEMMA AlikeTrans ==
  /\ \A N, f, m : AllAlike(N, f, m, m)
  /\ \A N, f, m, n, z : AllAlike(N, f, m, n) /\ AllAlike(N, f, n, z) => AllAlike(N, f, m, z)
BY DEF AllAlike, Alike

\* One step of the descent goes one place further, or gives up.
LEMMA DescendMaps ==
  ASSUME NEW N \in [File -> INodeType], NEW f \in File, NEW m0, NEW k \in 0 .. LastFileBlk,
         NEW n \in 0 .. Len(Route(k).path) - 1, NEW a, OnMap(N, f, m0, k, n, a)
  PROVE  OnMap(N, f, m0, k, n + 1, Descend(a, Route(k).path[n + 1]))
<1> DEFINE e == Route(k).path[n + 1]
<1>1. PICK m, L, cell :
        /\ m \in Memory /\ Forest(L, N, f, m) /\ AllAlike(N, f, m0, m)
        /\ a = Stuck(m, cell) \/ (a = Going(m, cell) /\ PassesAt(m, k, cell, n))
  BY DEF OnMap
<1>2. CASE a = Stuck(m, cell)
  <2>1. Descend(a, e) = Stuck(m, cell)
    BY <1>2, DescendIs
  <2> HIDE DEF e
  <2>2. OnMap(N, f, m0, k, n + 1, Stuck(m, cell))
    BY <1>1 DEF OnMap
  <2> QED BY <2>1, <2>2 DEF e
<1>3. CASE a = Going(m, cell) /\ PassesAt(m, k, cell, n)
  <2>1. CASE Get(m, cell) # NoBlk
    <3> DEFINE d == EntryCell(Get(m, cell), e)
    <3>1. Descend(a, e) = Going(m, d)
      BY <1>3, <2>1, DescendIs
    <3>2. PassesAt(m, k, d, n + 1)
      BY <1>3, <2>1, PassOn
    <3> HIDE DEF d, e
    <3>3. OnMap(N, f, m0, k, n + 1, Going(m, d))
      BY <1>1, <3>2 DEF OnMap
    <3> QED BY <3>1, <3>3 DEF e
  <2>2. CASE Get(m, cell) = NoBlk /\ m.free = <<>>
    <3>1. Descend(a, e) = Stuck(m, cell)
      BY <1>3, <2>2, DescendIs
    <3> HIDE DEF e
    <3>2. OnMap(N, f, m0, k, n + 1, Stuck(m, cell))
      BY <1>1 DEF OnMap
    <3> QED BY <3>1, <3>2 DEF e
  <2>3. CASE Get(m, cell) = NoBlk /\ m.free # <<>>
    <3> DEFINE z == Filled(m, cell, IndexUse)
               d == EntryCell(Get(z, cell), e)
    <3>1. /\ z \in Memory /\ (\E M : Forest(M, N, f, z)) /\ AllAlike(N, f, m, z)
          /\ Get(z, cell) # NoBlk /\ PassesAt(z, k, cell, n)
      BY <1>1, <1>3, <2>3, IndexMaps
    <3>2. Descend(a, e) = Going(z, EntryCell(Get(z, cell), e))
      BY <1>3, <2>3, DescendIs DEF Filled
    <3> HIDE DEF z
    <3>3. PassesAt(z, k, d, n + 1)
      BY <3>1, PassOn
    <3>4. Descend(a, e) = Going(z, d)
      BY <3>2
    <3> HIDE DEF d, e
    <3>5. AllAlike(N, f, m0, z)
      BY <1>1, <3>1, AlikeTrans
    <3>6. OnMap(N, f, m0, k, n + 1, Going(z, d))
      BY <3>1, <3>3, <3>5 DEF OnMap
    <3> QED BY <3>4, <3>6 DEF e
  <2> QED BY <2>1, <2>2, <2>3
<1> QED BY <1>1, <1>2, <1>3

\* balloc's descent ends at the cell for the id of the file block, or gives up,
\* and has not changed what any file holds.
LEMMA DescentMaps ==
  ASSUME NEW N \in [File -> INodeType], NEW f \in File, NEW m \in Memory, NEW L,
         Forest(L, N, f, m), NEW k \in 0 .. LastFileBlk
  PROVE  OnMap(N, f, m, k, Len(Route(k).path), Descent(m, k))
<1> DEFINE path == Route(k).path
           last == Len(path)
<1>1. last \in 0 .. 3
  BY RouteType
<1>2. PICK a : IsDescent(a, m, k, last) /\ Descent(m, k) = a[last]
  BY <1>1, DescentIs
<1> DEFINE S == {n \in 0 .. last : OnMap(N, f, m, k, n, a[n])}
<1>3. 0 \in S
  <2>1. a[0] = Going(m, Route(k).start)
    BY <1>1, <1>2 DEF IsDescent
  <2>2. PassesAt(m, k, Route(k).start, 0)
    BY DEF PassesAt, Live, CellOn
  <2> DEFINE start == Route(k).start
  <2> HIDE DEF start
  <2>3. OnMap(N, f, m, k, 0, Going(m, start))
    <3>1. PassesAt(m, k, start, 0)
      BY <2>2 DEF start
    <3> QED BY <3>1, AlikeTrans DEF OnMap
  <2>4. a[0] = Going(m, start)
    BY <2>1 DEF start
  <2>5. 0 \in 0 .. last
    BY <1>1
  <2> QED BY <2>3, <2>4, <2>5
<1>4. ASSUME NEW n \in 0 .. last - 1, n \in S
      PROVE  n + 1 \in S
  <2>1. a[n + 1] = Descend(a[n], path[n + 1])
    BY <1>1, <1>2 DEF IsDescent
  <2>2. OnMap(N, f, m, k, n, a[n])
    BY <1>4
  <2>3. OnMap(N, f, m, k, n + 1, Descend(a[n], path[n + 1]))
    BY <2>2, DescendMaps
  <2>4. n + 1 \in 0 .. last
    BY <1>1
  <2> QED BY <2>1, <2>3, <2>4
<1>5. \A n \in 0 .. last : n \in S
  <2> HIDE DEF S
  <2>1. last \in Nat
    BY <1>1
  <2> QED BY <1>3, <1>4, <2>1, UpTo
<1>6. last \in S
  <2>1. last \in 0 .. last
    BY <1>1
  <2> HIDE DEF S, last
  <2> QED BY <1>5, <2>1
<1> QED BY <1>2, <1>6

\* balloc changes one file's blocks at one place only, and there only if it had
\* no block; when it succeeds there is a block there.
LEMMA BallocMaps ==
  ASSUME NEW N \in [File -> INodeType], NEW f \in File, NEW m, Apart(N, f, m),
         NEW k \in 0 .. LastFileBlk
  PROVE  /\ \A g \in File, j \in 0 .. LastFileBlk :
              g # f \/ j # k \/ Maps(N, f, m, g, j) # NoBlk =>
                Alike(N, f, m, Balloc(m, k).m, g, j)
         /\ Balloc(m, k).ok => Maps(N, f, Balloc(m, k).m, f, k) # NoBlk
<1> DEFINE last == Len(Route(k).path)
           a == Descent(m, k)
           z == IF a.ok THEN Fill(a.m, a.cell, DataUse) ELSE a
<1>1. m \in Memory
  BY DEF Apart
<1>2. PICK L : Forest(L, N, f, m)
  BY DEF Apart
<1>3. Maps(N, f, m, f, k) = Bmap(m, k)
  BY <1>1, ViewOwn DEF Maps
<1>4. CASE Bmap(m, k) # NoBlk
  <2>1. Balloc(m, k) = [m |-> m, ok |-> TRUE]
    BY <1>4 DEF Balloc
  <2>2. Balloc(m, k).m = m
    BY <2>1
  <2> QED BY <1>3, <1>4, <2>2 DEF Alike
<1>5. CASE Bmap(m, k) = NoBlk
  <2>1. Balloc(m, k).m = z.m /\ Balloc(m, k).ok = z.ok
    <3>1. Balloc(m, k) = [m |-> z.m, ok |-> z.ok]
      BY <1>5 DEF Balloc, DataUse
    <3> HIDE DEF z
    <3> QED BY <3>1
  <2>2. OnMap(N, f, m, k, last, a)
    BY <1>1, <1>2, DescentMaps
  <2> HIDE DEF a
  <2>3. PICK n, M, cell :
          /\ n \in Memory /\ Forest(M, N, f, n) /\ AllAlike(N, f, m, n)
          /\ a = Stuck(n, cell) \/ (a = Going(n, cell) /\ PassesAt(n, k, cell, last))
    <3> HIDE DEF last
    <3> QED BY <2>2 DEF OnMap
  <2>4. CASE a = Stuck(n, cell)
    <3>1. ~a.ok /\ a.m = n
      BY <2>4, GoingFields
    <3>2. z.m = n /\ ~z.ok
      BY <3>1
    <3>3. Balloc(m, k).m = n /\ ~Balloc(m, k).ok
      <4> HIDE DEF z
      <4> QED BY <2>1, <3>2
    <3> QED BY <2>3, <3>3 DEF AllAlike
  <2>5. CASE a = Going(n, cell) /\ PassesAt(n, k, cell, last)
    <3>1. a.ok /\ a.m = n /\ a.cell = cell
      BY <2>5, GoingFields
    <3>2. z = Fill(n, cell, DataUse)
      BY <3>1
    <3>3. CASE n.free = <<>>
      <4>1. z = Stuck(n, cell)
        BY <3>2, <3>3, FillIs
      <4> HIDE DEF z
      <4>2. z.m = n /\ ~z.ok
        BY <4>1, GoingFields
      <4>3. Balloc(m, k).m = n /\ ~Balloc(m, k).ok
        BY <2>1, <4>2
      <4> QED BY <2>3, <4>3 DEF AllAlike
    <3>4. CASE n.free # <<>>
      <4> DEFINE y == Filled(n, cell, DataUse)
                 b == Get(y, cell)
      <4>1. z = Going(y, cell)
        BY <3>2, <3>4, FillIs DEF Filled
      <4> HIDE DEF z, y
      <4>2. z.m = y
        BY <4>1, GoingFields
      <4>3. Balloc(m, k).m = y
        BY <2>1, <4>2
      <4>4. last \in 0 .. last /\ last - last = 0 /\ last \in 0 .. 3
        BY RouteType
      <4>5. Live(n, k, last) /\ CellOn(n, k, last) = cell
        BY <2>5 DEF PassesAt
      <4>6. IsCell(M, f, cell, 0) /\ Get(n, cell) = Way(n, k)[last]
        BY <2>3, <4>4, <4>5, WayPlace
      <4>7. Bmap(n, k) = NoBlk
        <5>1. Maps(N, f, n, f, k) = Maps(N, f, m, f, k)
          BY <2>3 DEF AllAlike, Alike
        <5>2. Maps(N, f, n, f, k) = Bmap(n, k)
          BY <2>3, ViewOwn DEF Maps
        <5> QED BY <1>3, <1>5, <5>1, <5>2
      <4>8. Get(n, cell) = NoBlk
        BY <4>6, <4>7, BmapIs
      <4>9. 0 \in 0 .. 3
        OBVIOUS
      <4>10. FilledWell(N, f, n, cell, y)
        BY <2>3, <3>4, <4>6, <4>8, <4>9, FillWell DEF y
      <4>11. b \in Block /\ y \in Memory
        BY <4>10 DEF FilledWell
      <4> HIDE DEF b
      <4>12. Maps(N, f, y, f, k) # NoBlk
        <5>1. Way(y, k)[last] = b
          BY <2>5, <4>4, <4>10 DEF FilledWell, FilledAt, b
        <5>2. Bmap(y, k) = b
          BY <5>1, BmapIs
        <5>3. View(N, f, y, f) = y
          BY <4>11, ViewOwn
        <5> QED BY <4>11, <5>2, <5>3, GeometryAssumption DEF Maps
      <4>13. ASSUME NEW g \in File, NEW j \in 0 .. LastFileBlk,
                    g # f \/ j # k \/ Maps(N, f, m, g, j) # NoBlk
             PROVE  Alike(N, f, m, y, g, j)
        <5>1. g # f \/ j # k
          BY <1>3, <1>5, <4>13
        <5>2. ~(g = f /\ Passes(n, j, cell))
          <6> SUFFICES ASSUME g = f, j # k, NEW q \in 0 .. Len(Route(j).path),
                              PassesAt(n, j, cell, q)
                       PROVE  FALSE
            BY <5>1 DEF Passes
          <6>1. Live(n, j, q) /\ CellOn(n, j, q) = cell
            BY DEF PassesAt
          <6>2. last = q /\ SameRoute(k, j, last)
            BY <2>3, <4>4, <4>5, <6>1, OneWay
          <6>3. /\ Len(Route(j).path) = last /\ SameRoute(j, k, last)
                /\ last \in 0 .. Len(Route(j).path)
            BY <4>4, <6>2 DEF SameRoute
          <6>4. /\ \A i \in last + 1 .. last : Route(k).path[i] = 0
                /\ \A i \in last + 1 .. last : Route(j).path[i] = 0
            BY <4>4
          <6>5. k <= j
            BY <4>4, <6>2, <6>4, RouteLeast
          <6>6. j <= k
            BY <6>3, <6>4, RouteLeast
          <6>7. j \in Int /\ k \in Int
            OBVIOUS
          <6> QED BY <6>5, <6>6, <6>7
        <5>3. Alike(N, f, n, y, g, j)
          BY <4>10, <5>2 DEF FilledWell, FilledAt
        <5> QED BY <2>3, <5>3 DEF AllAlike, Alike
      <4> QED BY <4>3, <4>12, <4>13
    <3> QED BY <3>3, <3>4
  <2> QED BY <2>3, <2>4, <2>5
<1> QED BY <1>4, <1>5

-----------------------------------------------------------------------------
(* What bfree changes.                                                       *)

\* Between m and z file f loses blocks only, and none before place k; the others
\* lose none.
Trimmed(N, f, m, z, k) ==
  \A g \in File, j \in 0 .. LastFileBlk :
    /\ g # f \/ j < k => Alike(N, f, m, z, g, j)
    /\ Alike(N, f, m, z, g, j) \/ Maps(N, f, z, g, j) = NoBlk

\* Trimming, twice.
LEMMA TrimmedTrans ==
  ASSUME NEW N, NEW f, NEW m, NEW n, NEW z, NEW k, NEW l,
         Trimmed(N, f, m, n, k), Trimmed(N, f, n, z, l), \A j \in 0 .. LastFileBlk : j < l => j < k
  PROVE  Trimmed(N, f, m, z, l)
BY DEF Trimmed, Alike

\* Nothing is trimmed when nothing is done.
LEMMA TrimmedSelf ==
  ASSUME NEW N, NEW f, NEW m, NEW k
  PROVE  Trimmed(N, f, m, m, k)
BY DEF Trimmed, Alike

\* What the release of a cell does to place j of the files.
ReleasedAt(N, f, m, cell, z, j) ==
  /\ \A g \in File : ~(g = f /\ Passes(m, j, cell)) => Alike(N, f, m, z, g, j)
  /\ \A q \in 0 .. Len(Route(j).path) : PassesAt(m, j, cell, q) =>
       /\ \A i \in 0 .. q - 1 : Way(z, j)[i] = Way(m, j)[i]
       /\ Bmap(z, j) = NoBlk

\* After i steps of bfree the places before the last i are as they were, and file
\* block k is gone if there was a step.
Freed(N, f, m, k, n, i) ==
  /\ Apart(N, f, n) /\ Trimmed(N, f, m, n, k)
  /\ \A q \in 0 .. Len(Route(k).path) - i : Way(n, k)[q] = Way(m, k)[q]
  /\ i # 0 => Maps(N, f, n, f, k) = NoBlk

\* Releasing a cell of the way from which only zeros lead to file block k takes
\* nothing from before k.
LEMMA ReleaseOnWay ==
  ASSUME NEW N \in [File -> INodeType], NEW f \in File, NEW n \in Memory, NEW L,
         Forest(L, N, f, n), NEW k \in 0 .. LastFileBlk, NEW p \in 0 .. Len(Route(k).path),
         NEW cell, PassesAt(n, k, cell, p), Get(n, cell) # NoBlk,
         \A x \in p + 1 .. Len(Route(k).path) : Route(k).path[x] = 0
  PROVE  LET z == Release(n, cell)
         IN  /\ Apart(N, f, z) /\ Trimmed(N, f, n, z, k)
             /\ \A q \in 0 .. p - 1 : Way(z, k)[q] = Way(n, k)[q]
             /\ Maps(N, f, z, f, k) = NoBlk
<1> DEFINE last == Len(Route(k).path)
           h == last - p
           z == Release(n, cell)
<1>1. last \in 0 .. 3 /\ h \in 0 .. 3
  <2>1. last \in 0 .. 3 /\ p \in 0 .. last
    BY RouteType
  <2> HIDE DEF last
  <2> QED BY <2>1
<1>2. Live(n, k, p) /\ CellOn(n, k, p) = cell
  BY DEF PassesAt
<1>3. IsCell(L, f, cell, h)
  BY <1>2, WayPlace
<1> HIDE DEF h
<1>4. z \in Memory /\ Apart(N, f, z)
  BY <1>1, <1>3, ReleaseKeeps DEF Apart
<1>5. ASSUME NEW j \in 0 .. LastFileBlk
      PROVE  ReleasedAt(N, f, n, cell, z, j)
  <2>1. /\ \A g \in File : ~(g = f /\ Passes(n, j, cell)) =>
              Alike(N, f, n, Release(n, cell), g, j)
        /\ \A q \in 0 .. Len(Route(j).path) : PassesAt(n, j, cell, q) =>
              /\ \A i \in 0 .. q - 1 : Way(Release(n, cell), j)[i] = Way(n, j)[i]
              /\ Bmap(Release(n, cell), j) = NoBlk
    BY <1>1, <1>3, ReleaseMaps
  <2> QED BY <2>1 DEF ReleasedAt
<1> HIDE DEF z
<1>6. View(N, f, z, f) = z
  BY <1>4, ViewOwn
<1>7. Maps(N, f, z, f, k) = NoBlk /\ \A q \in 0 .. p - 1 : Way(z, k)[q] = Way(n, k)[q]
  BY <1>5, <1>6 DEF ReleasedAt, Maps
<1>8. ASSUME NEW g \in File, NEW j \in 0 .. LastFileBlk
      PROVE  /\ g # f \/ j < k => Alike(N, f, n, z, g, j)
             /\ Alike(N, f, n, z, g, j) \/ Maps(N, f, z, g, j) = NoBlk
  <2>1. CASE ~(g = f /\ Passes(n, j, cell))
    BY <1>5, <2>1 DEF ReleasedAt
  <2>2. CASE g = f /\ Passes(n, j, cell)
    <3>1. PICK q \in 0 .. Len(Route(j).path) : PassesAt(n, j, cell, q)
      BY <2>2 DEF Passes
    <3>2. Live(n, j, q) /\ CellOn(n, k, p) = CellOn(n, j, q)
      BY <1>2, <3>1 DEF PassesAt
    <3>3. SameRoute(k, j, p)
      BY <1>2, <3>2, OneWay
    <3>4. k <= j
      BY <3>3, RouteLeast
    <3>5. Maps(N, f, z, g, j) = NoBlk
      BY <1>5, <1>6, <2>2, <3>1 DEF ReleasedAt, Maps
    <3>6. ~(j < k)
      <4>1. j \in Int /\ k \in Int
        OBVIOUS
      <4> QED BY <3>4, <4>1
    <3> QED BY <2>2, <3>5, <3>6
  <2> QED BY <2>1, <2>2
<1>9. Trimmed(N, f, n, z, k)
  BY <1>8 DEF Trimmed
<1> QED BY <1>4, <1>7, <1>9 DEF z

\* One step of bfree.
LEMMA FreedStep ==
  ASSUME NEW N \in [File -> INodeType], NEW f \in File, NEW m, NEW k \in 0 .. LastFileBlk,
         Bmap(m, k) # NoBlk, NEW n, NEW i \in 0 .. Len(Route(k).path), Freed(N, f, m, k, n, i)
  PROVE  Freed(N, f, m, k, NextFreed(m, k, n, i + 1), i + 1)
<1> DEFINE last == Len(Route(k).path)
           p == last + 1 - (i + 1)
           cell == CellOn(m, k, p)
           z == NextFreed(m, k, n, i + 1)
           zero == \A j \in last + 2 - (i + 1) .. last : Route(k).path[j] = 0
<1>1. last \in 0 .. 3
  BY RouteType
<1>2. /\ p = last - i /\ p \in 0 .. last /\ last - (i + 1) = p - 1 /\ i + 1 # 0
      /\ last + 2 - (i + 1) = p + 1 /\ (i = 0 => p = last) /\ p \in Nat
  <2> HIDE DEF last
  <2>1. i \in 0 .. last
    BY DEF last
  <2> QED BY <1>1, <2>1
<1>3. z = IF zero THEN Release(n, cell) ELSE n
  BY DEF NextFreed
<1> HIDE DEF p
<1>4. n \in Memory /\ (\E L : Forest(L, N, f, n)) /\ Trimmed(N, f, m, n, k)
      /\ (i # 0 => Maps(N, f, n, f, k) = NoBlk)
  BY DEF Freed, Apart
<1>5. \A q \in 0 .. p : Way(n, k)[q] = Way(m, k)[q]
  <2>1. \A q \in 0 .. last - i : Way(n, k)[q] = Way(m, k)[q]
    BY DEF Freed
  <2> QED BY <1>2, <2>1
<1>6. CASE ~zero
  <2>1. i # 0
    <3> SUFFICES ASSUME i = 0 PROVE FALSE
      OBVIOUS
    <3>1. last + 2 - (i + 1) = last + 1
      BY <1>1
    <3>2. \A j \in last + 2 - (i + 1) .. last : FALSE
      <4> DEFINE x == last + 2 - (i + 1)
      <4>1. x = last + 1
        BY <3>1
      <4> HIDE DEF x, last
      <4>2. \A j \in x .. last : FALSE
        BY <1>1, <4>1
      <4> QED BY <4>2 DEF x
    <3> QED BY <1>6, <3>2
  <2>2. z = n
    BY <1>3, <1>6
  <2>3. \A q \in 0 .. last - (i + 1) : q \in 0 .. p
    BY <1>2
  <2>4. \A q \in 0 .. last - (i + 1) : Way(n, k)[q] = Way(m, k)[q]
    BY <1>5, <2>3
  <2>5. Freed(N, f, m, k, n, i + 1)
    BY <1>4, <2>1, <2>4 DEF Freed, Apart
  <2> QED BY <2>2, <2>5
<1>7. CASE zero
  <2>1. Live(m, k, p) /\ Way(m, k)[p] # NoBlk
    BY <1>2, MappedLive
  <2>2. \A q \in 0 .. p - 1 : Way(n, k)[q] = Way(m, k)[q]
    <3>1. \A q \in 0 .. p - 1 : q \in 0 .. p
      BY <1>2
    <3> QED BY <1>5, <3>1
  <2>3. Live(n, k, p) /\ CellOn(n, k, p) = cell
    <3>1. p \in 0 .. Len(Route(k).path) /\ Live(m, k, p)
      BY <1>2, <2>1
    <3>2. Live(n, k, p) /\ CellOn(n, k, p) = CellOn(m, k, p)
      BY <2>2, <3>1, CellAfter
    <3> QED BY <3>2
  <2> HIDE DEF cell
  <2>4. PassesAt(n, k, cell, p)
    BY <2>3 DEF PassesAt
  <2>5. Get(n, cell) # NoBlk
    <3>1. Way(n, k)[p] = Get(n, CellOn(n, k, p))
      BY <1>2, <2>3, WayStep
    <3>2. Way(n, k)[p] = Way(m, k)[p]
      BY <1>2, <1>5
    <3> QED BY <2>1, <2>3, <3>1, <3>2
  <2>6. z = Release(n, cell)
    BY <1>3, <1>7
  <2> HIDE DEF z
  <2>7. \A x \in p + 1 .. Len(Route(k).path) : Route(k).path[x] = 0
    <3>1. \A x \in last + 2 - (i + 1) .. last : Route(k).path[x] = 0
      BY <1>7
    <3> QED BY <1>2, <3>1
  <2>8. PICK L : Forest(L, N, f, n)
    BY <1>4
  <2>9. /\ Apart(N, f, z) /\ Trimmed(N, f, n, z, k)
        /\ \A q \in 0 .. p - 1 : Way(z, k)[q] = Way(n, k)[q]
        /\ Maps(N, f, z, f, k) = NoBlk
    <3>1. /\ Apart(N, f, Release(n, cell)) /\ Trimmed(N, f, n, Release(n, cell), k)
          /\ \A q \in 0 .. p - 1 : Way(Release(n, cell), k)[q] = Way(n, k)[q]
          /\ Maps(N, f, Release(n, cell), f, k) = NoBlk
      BY SMTT(30), <1>2, <1>4, <2>4, <2>5, <2>7, <2>8, ReleaseOnWay
    <3> QED BY <2>6, <3>1
  <2>10. Trimmed(N, f, m, z, k)
    BY <1>4, <2>9, TrimmedTrans
  <2>11. \A q \in 0 .. last - (i + 1) : Way(z, k)[q] = Way(m, k)[q]
    BY <1>2, <2>2, <2>9
  <2>12. Freed(N, f, m, k, z, i + 1)
    BY <2>9, <2>10, <2>11 DEF Freed
  <2> QED BY <2>12 DEF z
<1> QED BY <1>6, <1>7

\* bfree takes file block k, nothing before it, and nothing of another file.
LEMMA BfreeMaps ==
  ASSUME NEW N \in [File -> INodeType], NEW f \in File, NEW m, Apart(N, f, m), NEW k \in Nat
  PROVE  /\ Trimmed(N, f, m, Bfree(m, k), k)
         /\ k <= LastFileBlk => Maps(N, f, Bfree(m, k), f, k) = NoBlk
<1> DEFINE last == Len(Route(k).path)
<1>1. m \in Memory
  BY DEF Apart
<1>2. Maps(N, f, m, f, k) = Bmap(m, k)
  BY <1>1, ViewOwn DEF Maps
<1>3. CASE Bmap(m, k) = NoBlk
  <2>1. Bfree(m, k) = m
    BY <1>3 DEF Bfree
  <2> QED BY <1>2, <1>3, <2>1, TrimmedSelf
<1>4. CASE Bmap(m, k) # NoBlk
  <2>1. k \in 0 .. LastFileBlk
    <3>1. ~(k > LastFileBlk)
      BY <1>4 DEF Bmap
    <3>2. LastFileBlk \in Int
      BY GeometryAssumption DEF LastFileBlk
    <3> QED BY <3>1, <3>2
  <2>2. last \in 0 .. 3
    BY <2>1, RouteType
  <2>3. PICK n : IsFreeing(n, m, k, last + 1) /\ Bfree(m, k) = n[last + 1]
    BY <1>4, <2>2, BfreeIs
  <2> DEFINE S == {i \in 0 .. last + 1 : Freed(N, f, m, k, n[i], i)}
  <2>4. 0 \in S
    <3>1. n[0] = m
      BY <2>2, <2>3 DEF IsFreeing
    <3>2. Freed(N, f, m, k, m, 0)
      BY TrimmedSelf DEF Freed
    <3>3. 0 \in 0 .. last + 1
      BY <2>2
    <3> QED BY <3>1, <3>2, <3>3
  <2>5. ASSUME NEW i \in 0 .. (last + 1) - 1, i \in S
        PROVE  i + 1 \in S
    <3>1. i \in 0 .. last /\ i + 1 \in 0 .. last + 1 /\ i + 1 # 0 /\ (i + 1) - 1 = i
      <4> HIDE DEF last
      <4> QED BY <2>2
    <3>2. n[i + 1] = NextFreed(m, k, n[i], i + 1)
      <4> HIDE DEF last
      <4> QED BY <2>3, <3>1 DEF IsFreeing
    <3>3. Freed(N, f, m, k, n[i], i)
      BY <2>5
    <3>4. Freed(N, f, m, k, n[i + 1], i + 1)
      BY <1>4, <2>1, <3>1, <3>2, <3>3, FreedStep
    <3> QED BY <3>1, <3>4
  <2>6. \A i \in 0 .. last + 1 : i \in S
    <3>1. last + 1 \in Nat
      BY <2>2
    <3> DEFINE top == last + 1
    <3> HIDE DEF S, top
    <3>2. \A i \in 0 .. top : i \in S
      BY <2>4, <2>5, <3>1, UpTo DEF top
    <3> QED BY <3>2 DEF top
  <2>7. Freed(N, f, m, k, Bfree(m, k), last + 1) /\ last + 1 # 0
    <3>1. last + 1 \in 0 .. last + 1 /\ last + 1 # 0
      BY <2>2
    <3> QED BY <2>3, <2>6, <3>1
  <2> QED BY <2>7 DEF Freed
<1> QED BY <1>3, <1>4

\* Releasing the end of a file takes all the blocks from "to" to "from", none
\* before them, and nothing of another file.
LEMMA BfreeDownMaps ==
  ASSUME NEW N \in [File -> INodeType], NEW f \in File, NEW m, Apart(N, f, m),
         NEW from \in Int, NEW to \in Nat
  PROVE  /\ Trimmed(N, f, m, BfreeDown(m, from, to), to)
         /\ \A j \in 0 .. LastFileBlk : j \in to .. from =>
              Maps(N, f, BfreeDown(m, from, to), f, j) = NoBlk
<1>1. CASE from < to
  <2>1. BfreeDown(m, from, to) = m
    BY <1>1 DEF BfreeDown
  <2>2. \A j : j \notin to .. from
    BY <1>1
  <2> QED BY <2>1, <2>2, TrimmedSelf
<1>2. CASE ~(from < to)
  <2> DEFINE top == from - to + 1
  <2>1. PICK n : IsTrim(n, m, from, top) /\ BfreeDown(m, from, to) = n[top]
    BY <1>2, BfreeDownIs
  <2>2. top \in Nat /\ from + 1 - top = to
    BY <1>2
  <2> HIDE DEF top
  <2> DEFINE S == {i \in 0 .. top :
                     /\ Apart(N, f, n[i]) /\ Trimmed(N, f, m, n[i], from + 1 - i)
                     /\ \A j \in 0 .. LastFileBlk : j \in from + 1 - i .. from =>
                          Maps(N, f, n[i], f, j) = NoBlk}
  <2>3. 0 \in S
    <3>1. n[0] = m
      BY <2>1, <2>2 DEF IsTrim
    <3>2. 0 \in 0 .. top /\ \A j : j \notin from + 1 - 0 .. from
      BY <2>2
    <3>3. Trimmed(N, f, m, m, from + 1 - 0)
      BY TrimmedSelf
    <3> QED BY <3>1, <3>2, <3>3
  <2>4. ASSUME NEW i \in 0 .. top - 1, i \in S
        PROVE  i + 1 \in S
    <3> DEFINE k == from + 1 - (i + 1)
    <3>1. n[i + 1] = Bfree(n[i], k)
      BY <2>1, <2>2 DEF IsTrim
    <3>2. k \in Nat /\ k + 1 = from + 1 - i /\ i + 1 \in 0 .. top
      BY <2>2
    <3>3. /\ Apart(N, f, n[i]) /\ Trimmed(N, f, m, n[i], from + 1 - i)
          /\ \A j \in 0 .. LastFileBlk : j \in from + 1 - i .. from =>
               Maps(N, f, n[i], f, j) = NoBlk
      BY <2>4
    <3> HIDE DEF k
    <3>4. Apart(N, f, n[i + 1])
      BY <3>1, <3>2, <3>3, BfreeKeeps
    <3>5. /\ Trimmed(N, f, n[i], n[i + 1], k)
          /\ k <= LastFileBlk => Maps(N, f, n[i + 1], f, k) = NoBlk
      BY <3>1, <3>2, <3>3, BfreeMaps
    <3>6. Trimmed(N, f, m, n[i + 1], k)
      <4>1. \A j \in 0 .. LastFileBlk : j < k => j < from + 1 - i
        BY <3>2
      <4> QED BY <3>3, <3>5, <4>1, TrimmedTrans
    <3>7. ASSUME NEW j \in 0 .. LastFileBlk, j \in k .. from
          PROVE  Maps(N, f, n[i + 1], f, j) = NoBlk
      <4>1. CASE j = k
        <5>1. k <= LastFileBlk
          BY <4>1
        <5> QED BY <3>5, <4>1, <5>1
      <4>2. CASE j # k
        <5>1. j \in from + 1 - i .. from
          BY <3>2, <3>7, <4>2
        <5>2. Maps(N, f, n[i], f, j) = NoBlk
          BY <3>3, <5>1
        <5> QED BY <3>5, <5>2 DEF Trimmed, Alike
      <4> QED BY <4>1, <4>2
    <3> QED BY <3>2, <3>4, <3>6, <3>7 DEF k
  <2>5. \A i \in 0 .. top : i \in S
    <3> HIDE DEF S
    <3> QED BY <2>2, <2>3, <2>4, UpTo
  <2>6. /\ Trimmed(N, f, m, n[top], from + 1 - top)
        /\ \A j \in 0 .. LastFileBlk : j \in from + 1 - top .. from =>
             Maps(N, f, n[top], f, j) = NoBlk
    <3>1. top \in 0 .. top
      BY <2>2
    <3> QED BY <2>5, <3>1
  <2> QED BY <2>1, <2>2, <2>6
<1> QED BY <1>1, <1>2

-----------------------------------------------------------------------------
(* What a write changes.                                                     *)

\* Once a write has done the places from first to below top, nothing but those
\* of f that had no block has changed, and if it did not fail they have one.
Written(N, f, m, z, ok, first, top) ==
  /\ Apart(N, f, z)
  /\ \A g \in File, j \in 0 .. LastFileBlk :
       g # f \/ j \notin first .. top - 1 \/ Maps(N, f, m, g, j) # NoBlk => Alike(N, f, m, z, g, j)
  /\ ok => \A j \in 0 .. LastFileBlk : j \in first .. top - 1 => Maps(N, f, z, f, j) # NoBlk

\* The next place of a write.
LEMMA WrittenStep ==
  ASSUME NEW N \in [File -> INodeType], NEW f \in File, NEW m, NEW n,
         NEW ok, ok, NEW first \in Nat, NEW k \in 0 .. LastFileBlk, first <= k,
         Written(N, f, m, n, ok, first, k)
  PROVE  Written(N, f, m, Balloc(n, k).m, Balloc(n, k).ok, first, k + 1)
<1> DEFINE z == Balloc(n, k).m
<1>1. Apart(N, f, n)
  BY DEF Written
<1>2. Apart(N, f, z)
  BY <1>1, BallocKeeps
<1>3. /\ \A g \in File, j \in 0 .. LastFileBlk :
           g # f \/ j # k \/ Maps(N, f, n, g, j) # NoBlk => Alike(N, f, n, z, g, j)
      /\ Balloc(n, k).ok => Maps(N, f, z, f, k) # NoBlk
  BY <1>1, BallocMaps
<1> HIDE DEF z
<1>4. (k + 1) - 1 = k /\ \A j : j \in first .. k <=> j \in first .. k - 1 \/ j = k
  <2>1. k \in Int
    OBVIOUS
  <2> QED BY <2>1
<1>5. ASSUME NEW g \in File, NEW j \in 0 .. LastFileBlk,
             g # f \/ j \notin first .. k \/ Maps(N, f, m, g, j) # NoBlk
      PROVE  Alike(N, f, m, z, g, j)
  <2>1. Alike(N, f, m, n, g, j)
    BY <1>4, <1>5 DEF Written
  <2>2. g # f \/ j # k \/ Maps(N, f, n, g, j) # NoBlk
    BY <1>4, <1>5, <2>1 DEF Alike
  <2>3. Alike(N, f, n, z, g, j)
    BY <1>3, <2>2
  <2> QED BY <2>1, <2>3 DEF Alike
<1>6. ASSUME Balloc(n, k).ok, NEW j \in 0 .. LastFileBlk, j \in first .. k
      PROVE  Maps(N, f, z, f, j) # NoBlk
  <2>1. CASE j = k
    BY <1>3, <1>6, <2>1
  <2>2. CASE j # k
    <3>1. Maps(N, f, n, f, j) # NoBlk
      BY <1>4, <1>6, <2>2 DEF Written
    <3> QED BY <1>3, <3>1 DEF Alike
  <2> QED BY <2>1, <2>2
<1>7. Written(N, f, m, z, Balloc(n, k).ok, first, k + 1)
  BY <1>2, <1>4, <1>5, <1>6 DEF Written
<1> QED BY <1>7 DEF z

\* A write that gave up changes nothing in the places it did not reach.
LEMMA WrittenStop ==
  ASSUME NEW N, NEW f, NEW m, NEW n, NEW ok, ~ok, NEW first \in Nat,
         NEW k \in Nat, Written(N, f, m, n, ok, first, k)
  PROVE  Written(N, f, m, n, ok, first, k + 1)
<1>1. \A j : j \notin first .. (k + 1) - 1 => j \notin first .. k - 1
  OBVIOUS
<1> QED BY <1>1 DEF Written

\* A write gives blocks to the places it covers, up to where it fails, and
\* changes no other place.
LEMMA WriteDataMaps ==
  ASSUME NEW N \in [File -> INodeType], NEW f \in File, NEW m, Apart(N, f, m),
         NEW off \in Nat, NEW len \in Nat, NBlks(off + len) - 1 <= LastFileBlk
  PROVE  LET a == WriteData(m, off, len)
         IN  Written(N, f, m, a.m, a.ok, off \div BlkSize, NBlks(off + len))
<1> DEFINE count == Count(off, len)
           first == off \div BlkSize
           q     == NBlks(off + len)
<1>1. count \in Nat /\ first \in Nat
  BY CountNat
<1>2. PICK a : IsWriting(a, m, first, count) /\ WriteData(m, off, len) = a[count]
  BY <1>1, WriteDataIs
<1>3. first + count = q /\ q - 1 <= LastFileBlk /\ LastFileBlk \in Int /\ q \in Nat
  <2>1. q \in Nat
    BY NBlksNat
  <2>2. first + count = q
    <3>1. count = q - first
      BY DEF Count
    <3> HIDE DEF first, count, q
    <3> QED BY <1>1, <2>1, <3>1
  <2>3. LastFileBlk \in Int
    BY GeometryAssumption DEF LastFileBlk
  <2> QED BY <2>1, <2>2, <2>3
<1> HIDE DEF first, count, q
<1> DEFINE S == {i \in 0 .. count : Written(N, f, m, a[i].m, a[i].ok, first, first + i)}
<1>4. 0 \in S
  <2>1. a[0] = FirstWrite(m)
    BY <1>1, <1>2 DEF IsWriting
  <2>2. a[0].m = m /\ a[0].ok = TRUE
    BY <2>1 DEF FirstWrite
  <2>3. first + 0 = first /\ (\A j : j \notin first .. first - 1) /\ 0 \in 0 .. count
    BY <1>1
  <2>4. Written(N, f, m, m, a[0].ok, first, first)
    BY <2>3 DEF Written, Alike
  <2> QED BY <2>2, <2>3, <2>4
<1>5. ASSUME NEW i \in 0 .. count - 1, i \in S
      PROVE  i + 1 \in S
  <2>1. a[i + 1] = NextWrite(a[i], first, i + 1)
    BY <1>1, <1>2 DEF IsWriting
  <2> DEFINE n == a[i].m
             k == first + (i + 1) - 1
  <2>2. /\ k \in 0 .. LastFileBlk /\ k \in Nat /\ first <= k /\ i + 1 \in 0 .. count
        /\ k = first + i /\ k + 1 = first + (i + 1)
    BY <1>1, <1>3
  <2>3. Written(N, f, m, n, a[i].ok, first, first + i)
    BY <1>5
  <2> HIDE DEF n, k
  <2>4. CASE a[i].ok
    <3>1. a[i + 1] = Balloc(n, k)
      BY <2>1, <2>4 DEF NextWrite, n, k
    <3>2. Written(N, f, m, n, a[i].ok, first, k)
      BY <2>2, <2>3
    <3>3. Written(N, f, m, Balloc(n, k).m, Balloc(n, k).ok, first, k + 1)
      BY <1>1, <2>2, <2>4, <3>2, WrittenStep
    <3> QED BY <2>2, <3>1, <3>3
  <2>5. CASE ~a[i].ok
    <3>1. a[i + 1] = a[i]
      BY <2>1, <2>5 DEF NextWrite
    <3>2. Written(N, f, m, n, a[i].ok, first, k)
      BY <2>2, <2>3
    <3>3. Written(N, f, m, n, a[i].ok, first, k + 1)
      BY <1>1, <2>2, <2>5, <3>2, WrittenStop
    <3> QED BY <2>2, <3>1, <3>3 DEF n
  <2> QED BY <2>4, <2>5
<1>6. \A i \in 0 .. count : i \in S
  <2> HIDE DEF S
  <2> QED BY <1>1, <1>4, <1>5, UpTo
<1>7. Written(N, f, m, a[count].m, a[count].ok, first, first + count)
  <2>1. count \in 0 .. count
    BY <1>1
  <2> QED BY <1>6, <2>1
<1> QED BY <1>2, <1>3, <1>7 DEF first, q

-----------------------------------------------------------------------------
(* What a call changes.                                                      *)

\* bmap reads the index blocks and the cells of the inode, not its size.
LEMMA BmapSame ==
  ASSUME NEW m, NEW z, z.index = m.index, z.inode.direct = m.inode.direct,
         z.inode.indirect = m.inode.indirect, NEW k \in 0 .. LastFileBlk
  PROVE  Bmap(z, k) = Bmap(m, k)
<1> DEFINE last == Len(Route(k).path)
<1>1. \A cell : Get(z, cell) = Get(m, cell)
  BY DEF Get
<1>2. last \in 0 .. last
  BY RouteType
<1> HIDE DEF last
<1>3. Way(z, k)[last] = Way(m, k)[last]
  BY <1>1, <1>2, WaySame DEF last
<1> QED BY <1>3, BmapIs DEF last

\* A new inode has no block anywhere.
LEMMA BmapEmpty ==
  ASSUME NEW m, m.inode = EmptyINode, NEW k \in 0 .. LastFileBlk
  PROVE  Bmap(m, k) = NoBlk
<1>1. Way(m, k)[0] = Get(m, Route(k).start) /\ 0 \in 0 .. Len(Route(k).path)
  BY WayStep, RouteType
<1>2. Get(m, Route(k).start) = NoBlk
  <2> DEFINE last == Len(Route(k).path)
  <2>1. /\ last \in 0 .. 3
        /\ last = 0 => k \in 0 .. NDirect - 1 /\ Route(k).start = DirectCell(k)
        /\ last # 0 => Route(k).start = RootCell(last)
    BY RouteType
  <2> HIDE DEF last
  <2>2. CASE last = 0
    BY <2>1, <2>2, GetIs, EmptyIs
  <2>3. CASE last # 0
    <3>1. last \in 1 .. 3
      BY <2>1, <2>3
    <3> QED BY <2>1, <2>3, <3>1, GetIs, EmptyIs
  <2> QED BY <2>2, <2>3
<1> QED BY <1>1, <1>2, WayDead

\* Where the files' blocks are after a call on f that left the memory z and the
\* inode i.
LEMMA AfterCall ==
  ASSUME IInv, NEW f \in File, NEW z \in Memory, NEW i \in INodeType,
         free' = z.free, index' = z.index, inode' = [inode EXCEPT ![f] = i],
         NEW g \in File, NEW k \in 0 .. LastFileBlk
  PROVE  /\ FileBlk(g, k) = Maps(inode, f, CoreOf(f), g, k)
         /\ g # f \/ (i.direct = z.inode.direct /\ i.indirect = z.inode.indirect) =>
              FileBlk(g, k)' = Maps(inode, f, z, g, k)
         /\ g = f /\ i = EmptyINode => FileBlk(g, k)' = NoBlk
<1>1. /\ inode \in [File -> INodeType] /\ free \in Seq(Block) /\ index \in IndexType
      /\ inode[g] \in INodeType
  BY DEF IInv, Types
<1>2. CoreOf(f).inode = inode[f] /\ CoreOf(f).free = free /\ CoreOf(f).index = index
  BY DEF CoreOf
<1>3. View(inode, f, CoreOf(f), g) = CoreOf(g)
  <2>1. With(inode, f, inode[f])[g] = inode[g]
    BY <1>1 DEF With
  <2> QED BY <1>2, <2>1 DEF View, MemoryOf, CoreOf
<1>4. FileBlk(g, k) = Maps(inode, f, CoreOf(f), g, k)
  BY <1>3 DEF FileBlk, Maps
<1> DEFINE c == MemoryOf(z.free, z.index, inode'[g])
           v == View(inode, f, z, g)
<1>5. FileBlk(g, k)' = Bmap(c, k)
  BY DEF FileBlk, CoreOf, MemoryOf
<1>6. c.index = z.index /\ c.inode = inode'[g]
  BY DEF MemoryOf
<1>7. v.index = z.index /\ v.inode = With(inode, f, z.inode)[g]
  BY DEF View, MemoryOf
<1> HIDE DEF c, v
<1>8. ASSUME g # f \/ (i.direct = z.inode.direct /\ i.indirect = z.inode.indirect)
      PROVE  FileBlk(g, k)' = Maps(inode, f, z, g, k)
  <2>1. CASE g # f
    <3>1. c.inode = inode[g] /\ v.inode = inode[g]
      BY <1>1, <1>6, <1>7, <2>1 DEF With
    <3>2. Bmap(c, k) = Bmap(v, k)
      BY <1>6, <1>7, <3>1, BmapSame
    <3> QED BY <1>5, <3>2 DEF Maps, v
  <2>2. CASE g = f
    <3>1. c.inode = i /\ v.inode = z.inode
      BY <1>1, <1>6, <1>7, <2>2 DEF With
    <3>2. c.inode.direct = v.inode.direct /\ c.inode.indirect = v.inode.indirect
      BY <1>8, <2>2, <3>1
    <3>3. Bmap(c, k) = Bmap(v, k)
      BY <1>6, <1>7, <3>2, BmapSame
    <3> QED BY <1>5, <3>3 DEF Maps, v
  <2> QED BY <2>1, <2>2
<1>9. ASSUME g = f, i = EmptyINode
      PROVE  FileBlk(g, k)' = NoBlk
  <2>1. c.inode = EmptyINode
    BY <1>1, <1>6, <1>9
  <2> QED BY <1>5, <2>1, BmapEmpty
<1> QED BY <1>4, <1>8, <1>9

\* There is no block past the largest file.
LEMMA PastLast ==
  ASSUME NEW m, NEW k \in Nat, k \notin 0 .. LastFileBlk
  PROVE  Bmap(m, k) = NoBlk
<1>1. LastFileBlk \in Int
  BY GeometryAssumption DEF LastFileBlk
<1>2. k > LastFileBlk
  BY <1>1
<1> QED BY <1>2 DEF Bmap

\* More bytes take no fewer blocks; none take none.
LEMMA NBlksUp ==
  /\ NBlks(0) = 0
  /\ \A a, b \in Nat : a <= b => NBlks(a) <= NBlks(b)
<1>1. BlkSize \in Nat \ {0}
  BY GeometryAssumption
<1>2. NBlks(0) = 0
  <2>1. BlkSize - 1 \in Int /\ BlkSize - 1 < BlkSize * 0 + BlkSize
    BY <1>1
  <2>2. (BlkSize - 1) \div BlkSize <= 0
    BY <1>1, <2>1, DivideAtMost
  <2>3. NBlks(0) \in Nat
    BY NBlksNat
  <2>4. NBlks(0) = (BlkSize - 1) \div BlkSize
    <3>1. 0 + BlkSize - 1 = BlkSize - 1
      BY <1>1
    <3> QED BY <3>1 DEF NBlks
  <2> QED BY <2>2, <2>3, <2>4
<1>3. ASSUME NEW a \in Nat, NEW b \in Nat, a <= b
      PROVE  NBlks(a) <= NBlks(b)
  <2> DEFINE x == a + BlkSize - 1
             y == b + BlkSize - 1
             q == y \div BlkSize
  <2>1. x \in Int /\ y \in Int /\ x <= y
    BY <1>1, <1>3
  <2> HIDE DEF x, y
  <2>2. q \in Int /\ y % BlkSize \in 0 .. BlkSize - 1 /\ y = BlkSize * q + (y % BlkSize)
    BY <1>1, <2>1, Divide
  <2> HIDE DEF q
  <2>3. BlkSize * q \in Int
    BY <1>1, <2>2
  <2>4. x < BlkSize * q + BlkSize
    BY <1>1, <2>1, <2>2, <2>3
  <2>5. x \div BlkSize <= q
    BY <1>1, <2>1, <2>2, <2>4, DivideAtMost
  <2> QED BY <2>5 DEF NBlks, x, y, q
<1> QED BY <1>2, <1>3

\* l2_truncate releases down to the number of blocks of the new size.
LEMMA TruncateTo ==
  ASSUME NEW size \in Nat, NEW length \in Nat
  PROVE  LET last == NBlks(size) - 1
             more == (last * BlkSize - length) \div BlkSize
         IN  last - more = NBlks(length)
<1> DEFINE last == NBlks(size) - 1
           q    == NBlks(length)
           x    == length + BlkSize - 1
           r    == x % BlkSize
           d    == last * BlkSize - length
<1>1. BlkSize \in Nat \ {0} /\ NBlks(size) \in Nat /\ q \in Nat
  BY GeometryAssumption, NBlksNat
<1>2. last \in Int
  BY <1>1
<1>3. x \in Int
  BY <1>1
<1>4. r \in 0 .. BlkSize - 1 /\ x = BlkSize * q + r
  <2>1. q = x \div BlkSize
    BY DEF NBlks
  <2> HIDE DEF x, q
  <2> QED BY <1>1, <1>3, <2>1, Divide
<1> HIDE DEF last, q, r
<1> DEFINE t == BlkSize - 1 - r
<1>5. t \in 0 .. BlkSize - 1 /\ t \in Int
  BY <1>1, <1>4
<1>6. d = BlkSize * (last - q) + t
  <2>1. BlkSize * (last - q) = BlkSize * last - BlkSize * q /\ last * BlkSize = BlkSize * last
    BY <1>1, <1>2
  <2>2. BlkSize * last \in Int /\ BlkSize * q \in Int
    BY <1>1, <1>2
  <2>3. length = BlkSize * q + r - BlkSize + 1
    BY <1>1, <1>4, <2>2
  <2> QED BY <1>1, <1>4, <2>1, <2>2, <2>3
<1> HIDE DEF t, d
<1>7. last - q \in Int
  BY <1>1, <1>2
<1>8. d \div BlkSize = last - q
  BY <1>1, <1>5, <1>6, <1>7, QuotientIs
<1> DEFINE more == d \div BlkSize
<1> HIDE DEF more
<1>9. last - more = q
  BY <1>1, <1>2, <1>8 DEF more
<1> QED BY <1>9 DEF last, more, d, q

-----------------------------------------------------------------------------
(* Where the blocks of the files are.                                        *)

\* As long as no write failed the inodes on disk are those in core; the sizes
\* always are.
Synced == /\ failed \/ dinode = inode
          /\ \A f \in File : dinode[f].filesize = inode[f].filesize

\* What the properties of file blocks rest on.
MInv == IInv /\ Synced /\ SizeCoversBlocks /\ LastIsData

\* What ShrinkExact and MappingKept say of one step.
ShrinkStep ==
  \A f \in File :
    inode'[f].filesize < inode[f].filesize =>
      \A g \in File : \A k \in 0 .. NBlks(inode[g].filesize) - 1 :
        FileBlk(g, k)' = IF g = f /\ k >= NBlks(inode'[f].filesize)
                           THEN NoBlk ELSE FileBlk(g, k)

MapStep ==
  \A f \in File, k \in 0 .. LastFileBlk :
    \/ k >= NBlks(inode[f].filesize) \/ k >= NBlks(inode'[f].filesize)
    \/ FileBlk(f, k) = NoBlk
    \/ FileBlk(f, k)' = FileBlk(f, k)
    \/ failed /\ inode' = dinode

\* The sizes of the files are numbers, and so are their numbers of blocks.
LEMMA SizesNat ==
  ASSUME IInv, NEW f \in File
  PROVE  inode[f].filesize \in Nat /\ NBlks(inode[f].filesize) \in Nat
<1>1. inode[f].filesize \in Nat
  BY DEF IInv, Types, INodeType
<1> QED BY <1>1, NBlksNat

\* A call that changes f alone, sets its size to n and writes the inode, if it
\* does not fail.
LEMMA CallSyncs ==
  ASSUME IInv, Synced, NEW f \in File, NEW i \in INodeType,
         inode' = [inode EXCEPT ![f] = i],
         \/ dinode' = [dinode EXCEPT ![f] = inode'[f]] /\ failed' = failed
         \/ dinode' = dinode /\ failed' = TRUE /\ i.filesize = inode[f].filesize
  PROVE  /\ Synced' /\ inode'[f] = i
         /\ \A g \in File \ {f} : inode'[g] = inode[g]
<1>1. inode \in [File -> INodeType] /\ dinode \in [File -> INodeType]
  BY DEF IInv, Types
<1>2. inode'[f] = i /\ \A g \in File \ {f} : inode'[g] = inode[g]
  BY <1>1
<1>3. CASE dinode' = [dinode EXCEPT ![f] = inode'[f]] /\ failed' = failed
  <2>1. dinode'[f] = i /\ \A g \in File \ {f} : dinode'[g] = dinode[g]
    BY <1>1, <1>2, <1>3
  <2>2. \A g \in File : dinode'[g].filesize = inode'[g].filesize
    BY <1>2, <2>1 DEF Synced
  <2>3. failed' \/ dinode' = inode'
    <3>1. CASE failed
      BY <1>3, <3>1
    <3>2. CASE dinode = inode
      BY <1>2, <1>3, <3>2
    <3> QED BY <3>1, <3>2 DEF Synced
  <2> QED BY <1>2, <2>2, <2>3 DEF Synced
<1>4. CASE dinode' = dinode /\ failed' = TRUE /\ i.filesize = inode[f].filesize
  BY <1>2, <1>4 DEF Synced
<1> QED BY <1>2, <1>3, <1>4

\* What l2_write does to the places of the files: it moves no block, gives none
\* to another file, and makes no file shorter; if it does not fail, f has blocks
\* where the write is and nowhere else that it had not.
Wrote(f, off, end) ==
  /\ \A g \in File : inode[g].filesize <= inode'[g].filesize
  /\ \A g \in File, k \in 0 .. LastFileBlk :
       FileBlk(g, k) # NoBlk => FileBlk(g, k)' = FileBlk(g, k)
  /\ ~failed' =>
       /\ inode'[f].filesize = IF end > inode[f].filesize THEN end ELSE inode[f].filesize
       /\ \A g \in File \ {f} : inode'[g] = inode[g]
       /\ \A g \in File \ {f}, k \in 0 .. LastFileBlk : FileBlk(g, k)' = FileBlk(g, k)
       /\ \A k \in 0 .. LastFileBlk : IF k \in off \div BlkSize .. NBlks(end) - 1
                                        THEN FileBlk(f, k)' # NoBlk
                                        ELSE FileBlk(f, k)' = FileBlk(f, k)
       /\ ~holed' => off \div BlkSize <= NBlks(inode[f].filesize)
       /\ ~failed /\ (holed => holed')

\* l2_write keeps the inodes on disk in step, and moves no block.
LEMMA WriteSteps ==
  ASSUME IInv, Synced, NEW f \in File, NEW off \in Nat, NEW len \in Nat, Write(f, off, len)
  PROVE  Synced' /\ Wrote(f, off, off + len)
<1> DEFINE a    == WriteData(CoreOf(f), off, len)
           end  == off + len
           size == inode[f].filesize
           y    == IF end > a.m.inode.filesize
                     THEN [a.m EXCEPT !.inode.filesize = end] ELSE a.m
           first == off \div BlkSize
<1>1. Apart(inode, f, CoreOf(f)) /\ CoreOf(f).inode = inode[f]
  BY CoreApart
<1>2. /\ Grows(CoreOf(f), a.m)
      /\ Written(inode, f, CoreOf(f), a.m, a.ok, first, NBlks(end))
  <2>1. NBlks(off + len) - 1 <= LastFileBlk
    BY DEF Write
  <2>2. inode \in [File -> INodeType]
    BY DEF IInv, Types
  <2> QED BY <1>1, <2>1, <2>2, WriteDataKeeps, WriteDataMaps
<1>3. a.m \in Memory /\ a.m.inode \in INodeType /\ a.m.inode.filesize = size
  <2>1. a.m \in Memory
    BY <1>2 DEF Written, Apart
  <2>2. a.m.inode.filesize = size
    BY <1>1, <1>2 DEF Grows
  <2> HIDE DEF a, size
  <2> QED BY <2>1, <2>2, MemoryFields
<1>4. size \in Nat /\ end \in Nat /\ (\A g \in File : inode[g].filesize \in Nat)
      /\ NBlks(size) \in Nat /\ first \in Nat
  <2>1. size \in Nat /\ NBlks(size) \in Nat /\ \A g \in File : inode[g].filesize \in Nat
    BY SizesNat
  <2>2. first \in Nat
    BY CountNat
  <2>3. end \in Nat
    OBVIOUS
  <2> QED BY <2>1, <2>2, <2>3
<1>5. ASSUME NEW i \in INodeType, inode' = [inode EXCEPT ![f] = i], free' = a.m.free,
             index' = a.m.index, i.direct = a.m.inode.direct, i.indirect = a.m.inode.indirect
      PROVE  /\ \A g \in File, k \in 0 .. LastFileBlk :
                  g # f \/ k \notin first .. NBlks(end) - 1 \/ FileBlk(g, k) # NoBlk =>
                    FileBlk(g, k)' = FileBlk(g, k)
             /\ a.ok => \A k \in 0 .. LastFileBlk : k \in first .. NBlks(end) - 1 =>
                          FileBlk(f, k)' # NoBlk
  <2> DEFINE m == a.m
             ok == a.ok
             q == NBlks(end)
  <2> HIDE DEF a, m, ok, first, q
  <2>1. m \in Memory /\ Written(inode, f, CoreOf(f), m, ok, first, q)
    BY <1>2, <1>3 DEF m, ok, q
  <2>2. ASSUME NEW g \in File, NEW k \in 0 .. LastFileBlk
        PROVE  /\ FileBlk(g, k) = Maps(inode, f, CoreOf(f), g, k)
               /\ FileBlk(g, k)' = Maps(inode, f, m, g, k)
    <3>1. free' = m.free /\ index' = m.index
      BY <1>5 DEF m
    <3>2. i.direct = m.inode.direct /\ i.indirect = m.inode.indirect
      BY <1>5 DEF m
    <3> QED BY <1>5, <2>1, <3>1, <3>2, AfterCall
  <2>3. ASSUME NEW g \in File, NEW k \in 0 .. LastFileBlk,
               g # f \/ k \notin first .. q - 1 \/ FileBlk(g, k) # NoBlk
        PROVE  FileBlk(g, k)' = FileBlk(g, k)
    <3>1. Alike(inode, f, CoreOf(f), m, g, k)
      BY <2>1, <2>2, <2>3 DEF Written
    <3> QED BY <2>2, <3>1 DEF Alike
  <2>4. ASSUME ok, NEW k \in 0 .. LastFileBlk, k \in first .. q - 1
        PROVE  FileBlk(f, k)' # NoBlk
    BY <2>1, <2>2, <2>4 DEF Written
  <2> QED BY <2>3, <2>4 DEF ok, q
<1>6. CASE a.ok
  <2>1. /\ Apply(f, y) /\ WriteINode(f)
        /\ holed' = (holed \/ off \div BlkSize > NBlks(inode[f].filesize))
        /\ failed' = failed
    BY <1>6 DEF Write
  <2>2. /\ y.free = a.m.free /\ y.index = a.m.index /\ y.inode \in INodeType
        /\ y.inode.direct = a.m.inode.direct /\ y.inode.indirect = a.m.inode.indirect
        /\ y.inode.filesize = IF end > size THEN end ELSE size
    <3> DEFINE m == a.m
    <3>1. m \in Memory /\ m.inode \in INodeType /\ end \in Nat /\ m.inode.filesize = size
      BY <1>3, <1>4
    <3> HIDE DEF a, m, end, size
    <3>2. LET x == [m EXCEPT !.inode.filesize = end]
          IN  /\ x.free = m.free /\ x.index = m.index /\ x.inode \in INodeType
              /\ x.inode.filesize = end
              /\ x.inode.direct = m.inode.direct /\ x.inode.indirect = m.inode.indirect
      BY <3>1, SizedFields
    <3>3. CASE end > a.m.inode.filesize
      BY <3>1, <3>2, <3>3 DEF m
    <3>4. CASE ~(end > a.m.inode.filesize)
      BY <3>1, <3>4 DEF m
    <3> QED BY <3>3, <3>4
  <2> HIDE DEF y, a
  <2> DEFINE i == y.inode
  <2>3. /\ free' = y.free /\ index' = y.index /\ inode' = [inode EXCEPT ![f] = i]
        /\ dinode' = [dinode EXCEPT ![f] = inode'[f]]
    BY <2>1 DEF Apply, WriteINode
  <2>4. i \in INodeType
    BY <2>2
  <2> HIDE DEF i
  <2>5. Synced' /\ inode'[f] = i /\ \A g \in File \ {f} : inode'[g] = inode[g]
    BY <2>1, <2>3, <2>4, CallSyncs
  <2>6. /\ \A g \in File, k \in 0 .. LastFileBlk :
             g # f \/ k \notin first .. NBlks(end) - 1 \/ FileBlk(g, k) # NoBlk =>
               FileBlk(g, k)' = FileBlk(g, k)
        /\ a.ok => \A k \in 0 .. LastFileBlk : k \in first .. NBlks(end) - 1 =>
                     FileBlk(f, k)' # NoBlk
    BY <1>5, <2>2, <2>3, <2>4 DEF i
  <2>7. inode'[f].filesize = IF end > size THEN end ELSE size
    BY <2>2, <2>5 DEF i
  <2>8. ASSUME NEW g \in File
        PROVE  inode[g].filesize <= inode'[g].filesize
    <3>1. CASE g = f
      <4>1. inode'[g].filesize = IF end > size THEN end ELSE size
        BY <2>7, <3>1
      <4> HIDE DEF end
      <4> QED BY <1>4, <3>1, <4>1
    <3>2. CASE g # f
      <4>1. inode'[g].filesize = inode[g].filesize
        BY <2>5, <3>2
      <4> QED BY <1>4, <4>1
    <3> QED BY <3>1, <3>2
  <2>9. ~holed' => first <= NBlks(size)
    <3> HIDE DEF first, size
    <3>1. ~holed' => ~(first > NBlks(size))
      BY <2>1 DEF first, size
    <3> QED BY <1>4, <3>1
  <2>10. \A k \in 0 .. LastFileBlk : IF k \in first .. NBlks(end) - 1
                                       THEN FileBlk(f, k)' # NoBlk
                                       ELSE FileBlk(f, k)' = FileBlk(f, k)
    <3> HIDE DEF first, end
    <3> QED BY <1>6, <2>6
  <2>11. \A g \in File \ {f}, k \in 0 .. LastFileBlk : FileBlk(g, k)' = FileBlk(g, k)
    <3> HIDE DEF first, end
    <3> QED BY <2>6
  <2>12. \A g \in File, k \in 0 .. LastFileBlk :
           FileBlk(g, k) # NoBlk => FileBlk(g, k)' = FileBlk(g, k)
    <3> HIDE DEF first, end
    <3> QED BY <2>6
  <2>13. ~failed' => ~failed /\ (holed => holed')
    BY <2>1
  <2> QED BY <2>5, <2>7, <2>8, <2>9, <2>10, <2>11, <2>12, <2>13 DEF Wrote
<1>7. CASE ~a.ok
  <2>1. Apply(f, a.m) /\ failed' = TRUE /\ dinode' = dinode /\ holed' = holed
    BY <1>7 DEF Write
  <2> HIDE DEF a
  <2> DEFINE i == a.m.inode
  <2>2. free' = a.m.free /\ index' = a.m.index /\ inode' = [inode EXCEPT ![f] = i]
    BY <2>1 DEF Apply
  <2>3. i \in INodeType /\ i.filesize = inode[f].filesize
    BY <1>3
  <2>4. Synced' /\ inode'[f] = i /\ \A g \in File \ {f} : inode'[g] = inode[g]
    <3> HIDE DEF i
    <3> QED BY <2>1, <2>2, <2>3, CallSyncs
  <2>5. \A g \in File, k \in 0 .. LastFileBlk :
          g # f \/ k \notin first .. NBlks(end) - 1 \/ FileBlk(g, k) # NoBlk =>
            FileBlk(g, k)' = FileBlk(g, k)
    <3>1. i.direct = a.m.inode.direct /\ i.indirect = a.m.inode.indirect
      OBVIOUS
    <3> HIDE DEF i
    <3> QED BY <1>5, <2>2, <2>3, <3>1
  <2>6. \A g \in File, k \in 0 .. LastFileBlk :
          FileBlk(g, k) # NoBlk => FileBlk(g, k)' = FileBlk(g, k)
    <3> HIDE DEF first, end
    <3> QED BY <2>5
  <2>7. ASSUME NEW g \in File
        PROVE  inode[g].filesize <= inode'[g].filesize
    <3>1. inode'[g].filesize = inode[g].filesize
      BY <2>3, <2>4
    <3> QED BY <1>4, <3>1
  <2>8. failed'
    BY <2>1
  <2> QED BY <2>4, <2>6, <2>7, <2>8 DEF Wrote
<1> QED BY <1>6, <1>7

\* What l2_truncate and the release of an inode do to the places of the files:
\* they take those of f from the new size on and leave all others.
Cut(f, size) ==
  /\ inode'[f].filesize = size
  /\ \A g \in File \ {f} : inode'[g] = inode[g]
  /\ \A g \in File, k \in 0 .. LastFileBlk :
       g # f \/ k < NBlks(size) => FileBlk(g, k)' = FileBlk(g, k)
  /\ \A k \in 0 .. LastFileBlk :
       /\ FileBlk(f, k)' = FileBlk(f, k) \/ FileBlk(f, k)' = NoBlk
       /\ NBlks(size) <= k /\ k < NBlks(inode[f].filesize) => FileBlk(f, k)' = NoBlk
  /\ failed' = failed /\ (holed => holed')
  /\ ~holed' => NBlks(size) <= NBlks(inode[f].filesize)

\* l2_truncate keeps the inodes on disk in step, and cuts the file at its new
\* size.
LEMMA TruncateSteps ==
  ASSUME IInv, Synced, NEW f \in File, NEW length \in Nat, Truncate(f, length)
  PROVE  Synced' /\ Cut(f, length)
<1> DEFINE m    == CoreOf(f)
           size == inode[f].filesize
           last == NBlks(size) - 1
           more == (last * BlkSize - length) \div BlkSize
           cut  == IF length < size /\ NBlks(length) # NBlks(size)
                     THEN BfreeDown(m, last, last - more) ELSE m
           y    == [cut EXCEPT !.inode.filesize = length]
           to   == NBlks(length)
           from == NBlks(size)
<1>1. Apart(inode, f, m)
  BY CoreApart
<1>2. inode \in [File -> INodeType]
  BY DEF IInv, Types
<1>3. size \in Nat /\ to \in Nat /\ from \in Nat
  BY SizesNat, NBlksNat
<1>4. /\ Apart(inode, f, cut) /\ Trimmed(inode, f, m, cut, to)
      /\ \A k \in 0 .. LastFileBlk : to <= k /\ k < from => Maps(inode, f, cut, f, k) = NoBlk
  <2>1. CASE length < size /\ NBlks(length) # NBlks(size)
    <3>1. last - more = to
      <4> HIDE DEF size
      <4> QED BY <1>3, TruncateTo
    <3>2. cut = BfreeDown(m, last, to)
      BY <2>1, <3>1
    <3>3. last \in Int /\ last = from - 1
      BY <1>3
    <3> HIDE DEF m, last, to, cut, from
    <3>4. Apart(inode, f, BfreeDown(m, last, to))
      BY <1>1, <1>2, <1>3, <3>3, BfreeDownKeeps
    <3>5. /\ Trimmed(inode, f, m, BfreeDown(m, last, to), to)
          /\ \A k \in 0 .. LastFileBlk : k \in to .. last =>
               Maps(inode, f, BfreeDown(m, last, to), f, k) = NoBlk
      BY <1>1, <1>2, <1>3, <3>3, BfreeDownMaps
    <3>6. \A k \in 0 .. LastFileBlk : to <= k /\ k < from => k \in to .. last
      BY <1>3, <3>3
    <3> QED BY <3>2, <3>4, <3>5, <3>6
  <2>2. CASE ~(length < size /\ NBlks(length) # NBlks(size))
    <3>1. cut = m
      BY <2>2
    <3>2. ~(to < from)
      <4>1. CASE length < size
        BY <1>3, <2>2, <4>1
      <4>2. CASE ~(length < size)
        <5>1. size <= length
          BY <1>3, <4>2
        <5>2. from <= to
          BY <1>3, <5>1, NBlksUp
        <5> HIDE DEF from, to
        <5> QED BY <1>3, <5>2
      <4> QED BY <4>1, <4>2
    <3> HIDE DEF m, cut, to, from
    <3>3. \A k \in 0 .. LastFileBlk : ~(to <= k /\ k < from)
      BY <1>3, <3>2
    <3> QED BY <1>1, <3>1, <3>3, TrimmedSelf
  <2> QED BY <2>1, <2>2
<1>5. Apply(f, y) /\ WriteINode(f) /\ failed' = failed
      /\ holed' = (holed \/ NBlks(length) > NBlks(size))
  BY DEF Truncate
<1> HIDE DEF cut
<1>6. cut \in Memory
  BY <1>4 DEF Apart
<1>7. /\ y.free = cut.free /\ y.index = cut.index /\ y.inode \in INodeType
      /\ y.inode.direct = cut.inode.direct /\ y.inode.indirect = cut.inode.indirect
      /\ y.inode.filesize = length
  BY <1>6, SizedFields
<1> DEFINE i == y.inode
<1> HIDE DEF y
<1>8. /\ free' = cut.free /\ index' = cut.index /\ inode' = [inode EXCEPT ![f] = i]
      /\ dinode' = [dinode EXCEPT ![f] = inode'[f]]
  BY <1>5, <1>7 DEF Apply, WriteINode
<1>9. /\ i \in INodeType /\ i.direct = cut.inode.direct /\ i.indirect = cut.inode.indirect
      /\ i.filesize = length
  BY <1>7
<1> HIDE DEF i
<1>10. Synced' /\ inode'[f] = i /\ \A g \in File \ {f} : inode'[g] = inode[g]
  BY <1>5, <1>8, <1>9, CallSyncs
<1>11. ASSUME NEW g \in File, NEW k \in 0 .. LastFileBlk
       PROVE  /\ FileBlk(g, k) = Maps(inode, f, m, g, k)
              /\ FileBlk(g, k)' = Maps(inode, f, cut, g, k)
  BY <1>6, <1>8, <1>9, AfterCall
<1> HIDE DEF m
<1>12. \A g \in File, k \in 0 .. LastFileBlk :
         g # f \/ k < to => FileBlk(g, k)' = FileBlk(g, k)
  BY <1>4, <1>11 DEF Trimmed, Alike
<1>13. \A k \in 0 .. LastFileBlk :
         /\ FileBlk(f, k)' = FileBlk(f, k) \/ FileBlk(f, k)' = NoBlk
         /\ to <= k /\ k < from => FileBlk(f, k)' = NoBlk
  BY <1>4, <1>11 DEF Trimmed, Alike
<1>14. ~holed' => to <= from
  <2>1. ~holed' => ~(to > from)
    BY <1>5
  <2> HIDE DEF to, from
  <2> QED BY <1>3, <2>1
<1>15. holed => holed'
  BY <1>5
<1> QED BY <1>5, <1>9, <1>10, <1>12, <1>13, <1>14, <1>15 DEF Cut

\* The release of an inode cuts the file to nothing.
LEMMA UnlinkSteps ==
  ASSUME IInv, Synced, NEW f \in File, Unlink(f)
  PROVE  Synced' /\ Cut(f, 0)
<1> DEFINE from == NBlks(inode[f].filesize)
           m == BfreeDown(CoreOf(f), from, 0)
           y == [m EXCEPT !.inode = EmptyINode]
<1>1. Apart(inode, f, CoreOf(f))
  BY CoreApart
<1>2. inode \in [File -> INodeType]
  BY DEF IInv, Types
<1>3. from \in Nat /\ from \in Int
  BY SizesNat
<1> HIDE DEF from
<1>4. 0 \in Nat /\ NBlks(0) = 0
  BY NBlksUp
<1>5. Apart(inode, f, m)
  BY <1>1, <1>2, <1>3, <1>4, BfreeDownKeeps
<1>6. Trimmed(inode, f, CoreOf(f), m, 0)
  BY <1>1, <1>2, <1>3, <1>4, BfreeDownMaps
<1>7. Apply(f, y) /\ WriteINode(f) /\ failed' = failed /\ holed' = holed
  BY DEF Unlink, from
<1> HIDE DEF m
<1>8. m \in Memory
  BY <1>5 DEF Apart
<1>9. y.free = m.free /\ y.index = m.index /\ y.inode = EmptyINode
  BY <1>8, MemoryFields
<1> HIDE DEF y
<1>10. /\ free' = m.free /\ index' = m.index /\ inode' = [inode EXCEPT ![f] = EmptyINode]
       /\ dinode' = [dinode EXCEPT ![f] = inode'[f]]
  BY <1>7, <1>9 DEF Apply, WriteINode
<1>11. EmptyINode \in INodeType /\ EmptyINode.filesize = 0
  BY EmptyIs DEF EmptyINode
<1>12. Synced' /\ inode'[f] = EmptyINode /\ \A g \in File \ {f} : inode'[g] = inode[g]
  BY <1>7, <1>10, <1>11, CallSyncs
<1>13. ASSUME NEW g \in File, NEW k \in 0 .. LastFileBlk
       PROVE  /\ FileBlk(g, k) = Maps(inode, f, CoreOf(f), g, k)
              /\ g # f => FileBlk(g, k)' = Maps(inode, f, m, g, k)
              /\ g = f => FileBlk(g, k)' = NoBlk
  <2> DEFINE i == EmptyINode
  <2>1. /\ i \in INodeType /\ free' = m.free /\ index' = m.index
        /\ inode' = [inode EXCEPT ![f] = i]
    BY <1>10, <1>11
  <2>2. i = EmptyINode
    OBVIOUS
  <2> HIDE DEF i
  <2>3. /\ FileBlk(g, k) = Maps(inode, f, CoreOf(f), g, k)
        /\ g # f \/ (i.direct = m.inode.direct /\ i.indirect = m.inode.indirect) =>
             FileBlk(g, k)' = Maps(inode, f, m, g, k)
        /\ g = f /\ i = EmptyINode => FileBlk(g, k)' = NoBlk
    BY <1>8, <2>1, AfterCall
  <2> QED BY <2>2, <2>3
<1>14. \A g \in File \ {f}, k \in 0 .. LastFileBlk : FileBlk(g, k)' = FileBlk(g, k)
  BY <1>6, <1>13 DEF Trimmed, Alike
<1>15. \A k \in 0 .. LastFileBlk : FileBlk(f, k)' = NoBlk /\ ~(k < NBlks(0))
  BY <1>4, <1>13
<1>16. NBlks(0) <= NBlks(inode[f].filesize)
  BY <1>3, <1>4 DEF from
<1> QED BY <1>7, <1>11, <1>12, <1>14, <1>15, <1>16 DEF Cut

\* l2_write covers what it makes the file's size.
LEMMA WriteCovers ==
  ASSUME MInv, NEW f \in File, NEW off \in Nat, NEW len \in Nat, Wrote(f, off, off + len),
         ~holed', ~failed'
  PROVE  \A g \in File, k \in 0 .. LastFileBlk :
           FileBlk(g, k)' # NoBlk <=> k < NBlks(inode'[g].filesize)
<1> DEFINE end   == off + len
           size  == inode[f].filesize
           first == off \div BlkSize
           next  == IF end > size THEN end ELSE size
<1>1. /\ \A g \in File, k \in 0 .. LastFileBlk :
           FileBlk(g, k) # NoBlk <=> k < NBlks(inode[g].filesize)
  BY DEF Wrote, MInv, SizeCoversBlocks
<1>2. /\ inode'[f].filesize = next /\ (\A g \in File \ {f} : inode'[g] = inode[g])
      /\ \A g \in File \ {f}, k \in 0 .. LastFileBlk : FileBlk(g, k)' = FileBlk(g, k)
      /\ \A k \in 0 .. LastFileBlk : IF k \in first .. NBlks(end) - 1
                                       THEN FileBlk(f, k)' # NoBlk
                                       ELSE FileBlk(f, k)' = FileBlk(f, k)
      /\ first <= NBlks(size)
  BY DEF Wrote
<1>3. /\ size \in Nat /\ end \in Nat /\ NBlks(size) \in Nat /\ NBlks(end) \in Nat
      /\ first \in Nat
  BY SizesNat, NBlksNat, CountNat DEF MInv
<1> DEFINE p == NBlks(size)
           q == NBlks(end)
<1>4. NBlks(next) = IF q > p THEN q ELSE p
  <2>1. CASE end > size
    <3>1. p <= q /\ next = end
      BY <1>3, <2>1, NBlksUp
    <3> HIDE DEF p, end, next
    <3>2. NBlks(next) = q
      BY <3>1
    <3> HIDE DEF q
    <3> QED BY <1>3, <3>1, <3>2 DEF p, q
  <2>2. CASE ~(end > size)
    <3>1. end <= size /\ next = size
      BY <1>3, <2>2
    <3>2. q <= p
      BY <1>3, <3>1, NBlksUp
    <3> HIDE DEF q, size, next
    <3>3. NBlks(next) = p
      BY <3>1
    <3> HIDE DEF p
    <3> QED BY <1>3, <3>2, <3>3 DEF p, q
  <2> QED BY <2>1, <2>2
<1> HIDE DEF first, end, size, next
<1>5. ASSUME NEW k \in 0 .. LastFileBlk
      PROVE  FileBlk(f, k)' # NoBlk <=> k < NBlks(inode'[f].filesize)
  <2>1. FileBlk(f, k) # NoBlk <=> k < p
    BY <1>1 DEF size
  <2>2. IF k \in first .. q - 1 THEN FileBlk(f, k)' # NoBlk
                                ELSE FileBlk(f, k)' = FileBlk(f, k)
    BY <1>2
  <2>3. NBlks(inode'[f].filesize) = IF q > p THEN q ELSE p
    BY <1>2, <1>4
  <2>4. p \in Nat /\ q \in Nat /\ first \in Nat /\ first <= p
    BY <1>2, <1>3
  <2> DEFINE x == NBlks(inode'[f].filesize)
  <2> HIDE DEF p, q, x
  <2>5. x = IF q > p THEN q ELSE p
    BY <2>3 DEF x
  <2>6. CASE k \in first .. q - 1
    <3>1. k < x
      BY <2>4, <2>5, <2>6
    <3> QED BY <2>2, <2>6, <3>1 DEF x
  <2>7. CASE k \notin first .. q - 1
    <3>1. k < x <=> k < p
      BY <2>4, <2>5, <2>7
    <3> QED BY <2>1, <2>2, <2>7, <3>1 DEF x
  <2> QED BY <2>6, <2>7
<1>6. ASSUME NEW g \in File \ {f}, NEW k \in 0 .. LastFileBlk
      PROVE  FileBlk(g, k)' # NoBlk <=> k < NBlks(inode'[g].filesize)
  BY <1>1, <1>2
<1> QED BY <1>5, <1>6

\* l2_truncate and the release of an inode leave the blocks the new size calls
\* for.
LEMMA CutCovers ==
  ASSUME MInv, NEW f \in File, NEW size \in Nat, Cut(f, size), ~holed', ~failed'
  PROVE  \A g \in File, k \in 0 .. LastFileBlk :
           FileBlk(g, k)' # NoBlk <=> k < NBlks(inode'[g].filesize)
<1> DEFINE p == NBlks(inode[f].filesize)
           q == NBlks(size)
<1>1. \A g \in File, k \in 0 .. LastFileBlk :
        FileBlk(g, k) # NoBlk <=> k < NBlks(inode[g].filesize)
  BY DEF Cut, MInv, SizeCoversBlocks
<1>2. p \in Nat /\ q \in Nat /\ q <= p /\ inode'[f].filesize = size
  BY SizesNat, NBlksNat DEF MInv, Cut
<1>3. ASSUME NEW k \in 0 .. LastFileBlk
      PROVE  FileBlk(f, k)' # NoBlk <=> k < NBlks(inode'[f].filesize)
  <2>1. /\ FileBlk(f, k)' = FileBlk(f, k) \/ FileBlk(f, k)' = NoBlk
        /\ k < q => FileBlk(f, k)' = FileBlk(f, k)
        /\ q <= k /\ k < p => FileBlk(f, k)' = NoBlk
    BY DEF Cut
  <2>2. FileBlk(f, k) # NoBlk <=> k < p
    BY <1>1
  <2>3. NBlks(inode'[f].filesize) = q
    BY <1>2
  <2> HIDE DEF p, q
  <2>4. CASE k < q
    <3>1. k < p
      BY <1>2, <2>4
    <3> QED BY <2>1, <2>2, <2>3, <2>4, <3>1
  <2>5. CASE ~(k < q)
    <3>1. q <= k
      BY <1>2, <2>5
    <3> QED BY <2>1, <2>2, <2>3, <2>5, <3>1
  <2> QED BY <2>4, <2>5
<1>4. ASSUME NEW g \in File \ {f}, NEW k \in 0 .. LastFileBlk
      PROVE  FileBlk(g, k)' # NoBlk <=> k < NBlks(inode'[g].filesize)
  <2>1. FileBlk(g, k)' = FileBlk(g, k) /\ inode'[g] = inode[g]
    BY DEF Cut
  <2> QED BY <1>1, <2>1
<1> QED BY <1>3, <1>4

\* A step that moves neither blocks nor inodes keeps the invariant.
LEMMA StillCovers ==
  ASSUME MInv, IInv', free' = free, index' = index, inode' = inode, holed' = holed,
         taken' = taken, failed' = failed, \A f \in File : dinode'[f] = dinode[f] \/ dinode'[f] = inode[f]
  PROVE  MInv' /\ \A g, k : FileBlk(g, k)' = FileBlk(g, k)
<1>1. Types /\ Types' /\ Synced /\ SizeCoversBlocks
  BY DEF MInv, IInv
<1>2. /\ dinode \in [File -> INodeType] /\ dinode' \in [File -> INodeType]
      /\ inode \in [File -> INodeType]
  BY <1>1 DEF Types
<1>3. \A g, k : FileBlk(g, k)' = FileBlk(g, k)
  BY DEF FileBlk, CoreOf
<1>4. Synced'
  <2>1. \A f \in File : dinode'[f].filesize = inode'[f].filesize
    BY <1>1 DEF Synced
  <2>2. ASSUME ~failed
        PROVE  dinode' = inode
    <3>1. dinode = inode
      BY <1>1, <2>2 DEF Synced
    <3>2. \A f \in File : dinode'[f] = inode[f]
      BY <3>1
    <3> QED BY <1>2, <3>2
  <2> QED BY <2>1, <2>2 DEF Synced
<1>5. SizeCoversBlocks'
  BY <1>1, <1>3 DEF SizeCoversBlocks
<1>6. LastIsData'
  BY DEF MInv, LastIsData
<1> QED BY <1>3, <1>4, <1>5, <1>6 DEF MInv

\* As long as no write failed, an unmount overwrites no index block: the block
\* handed out last reads as itself, and an index block leads elsewhere.
LEMMA RemountWipes ==
  ASSUME MInv, Remount, wiped'
  PROVE  failed
<1> SUFFICES ASSUME ~failed PROVE FALSE
  OBVIOUS
<1>1. /\ IInv /\ Types /\ Synced /\ LastIsData /\ inode \in [File -> INodeType]
  BY DEF MInv, IInv, Types
<1>2. free = <<>> /\ \E f \in File : taken \in IndexBlks(dinode[f])
  BY DEF Remount
<1>3. PICK f \in File : taken \in IndexBlks(inode[f])
  BY <1>1, <1>2 DEF Synced
<1>4. PICK L : AllApart(L, inode, free, index)
  BY <1>1 DEF IInv
<1> DEFINE d == EntryCell(taken, 0)
<1>5. d \in CellsOf(inode[f])
  BY <1>3, GeometryAssumption DEF CellsOf, Entry
<1>6. PICK h \in 0 .. 3 : IsCell(L, f, d, h)
  <2> HIDE DEF d
  <2> QED BY <1>1, <1>4, <1>5, CellsOfFile
<1>7. HeldAt(L, taken, f, h + 1)
  BY <1>6, EntryIsCell
<1>8. taken # NoBlk
  BY <1>3 DEF IndexBlks, Root, EntriesOf
<1>9. InCell(inode[f], d) = taken
  BY <1>1, <1>2, <1>8, InEntry DEF LastIsData
<1>10. d \in Cell
  <2> HIDE DEF d
  <2> QED BY <1>6, IsCellType
<1>11. L[taken] = Tag(f, d, h)
  <2> HIDE DEF d
  <2> QED BY <1>1, <1>4, <1>6, <1>8, <1>9, <1>10, Labelled
<1>12. h = h + 1
  BY <1>7, <1>11, Tags DEF HeldAt
<1> QED BY <1>12

\* A remount changes no size, and nothing at all if no write failed.
LEMMA RemountSteps ==
  ASSUME MInv, Remount, ~wiped'
  PROVE  /\ MInv' /\ \A f \in File : inode'[f].filesize = inode[f].filesize
         /\ failed \/ \A g, k : FileBlk(g, k)' = FileBlk(g, k)
<1>1. /\ free' = free /\ index' = index /\ inode' = dinode /\ dinode' = dinode
      /\ holed' = holed /\ failed' = failed /\ taken' = taken
  BY DEF Remount
<1>2. IInv' /\ Synced /\ Types
  BY RemountKeeps DEF MInv, IInv
<1>3. \A f \in File : inode'[f].filesize = inode[f].filesize
  BY <1>1, <1>2 DEF Synced
<1>4. CASE failed
  <2>1. Synced'
    BY <1>1, <1>2 DEF Synced
  <2>2. SizeCoversBlocks' /\ LastIsData'
    BY <1>1, <1>4 DEF SizeCoversBlocks, LastIsData
  <2> QED BY <1>2, <1>3, <1>4, <2>1, <2>2 DEF MInv
<1>5. CASE ~failed
  <2>1. inode' = inode /\ \A f \in File : dinode'[f] = dinode[f]
    BY <1>1, <1>2, <1>5 DEF Synced
  <2> QED BY <1>1, <1>2, <1>3, <2>1, StillCovers
<1> QED BY <1>4, <1>5

\* One step, seen from the places of the files: the invariant is kept, a file
\* that gets shorter loses its end and nothing else, and no block inside a file
\* moves.
LEMMA Moves ==
  ASSUME MInv, [Next]_vars, ~wiped'
  PROVE  MInv' /\ (ShrinkStep \/ UNCHANGED vars) /\ (MapStep \/ UNCHANGED vars)
<1>1. IInv /\ Synced /\ SizeCoversBlocks /\ LastIsData /\ IInv'
  BY StepIInv DEF MInv
<1>2. \A g \in File : inode[g].filesize \in Nat /\ inode'[g].filesize \in Nat
  BY <1>1 DEF IInv, Types, INodeType
<1>3. ASSUME NEW f \in File, NEW size \in Nat, Cut(f, size), Synced', LastIsData'
      PROVE  MInv' /\ ShrinkStep /\ MapStep
  <2>1. SizeCoversBlocks'
    <3>1. CASE holed' \/ failed'
      BY <3>1 DEF SizeCoversBlocks
    <3>2. CASE ~(holed' \/ failed')
      BY <1>3, <3>2, CutCovers DEF SizeCoversBlocks
    <3> QED BY <3>1, <3>2
  <2>2. ShrinkStep
    <3> SUFFICES ASSUME NEW h \in File, inode'[h].filesize < inode[h].filesize, NEW g \in File,
                        NEW k \in 0 .. NBlks(inode[g].filesize) - 1
                 PROVE  FileBlk(g, k)' = IF g = h /\ k >= NBlks(inode'[h].filesize)
                                           THEN NoBlk ELSE FileBlk(g, k)
      BY DEF ShrinkStep
    <3>1. h = f
      <4> SUFFICES ASSUME h # f PROVE FALSE
        OBVIOUS
      <4>1. inode'[h].filesize = inode[h].filesize
        BY <1>3 DEF Cut
      <4> QED BY <1>2, <4>1
    <3>2. /\ inode'[f].filesize = size /\ NBlks(size) \in Nat
          /\ NBlks(inode[g].filesize) \in Nat /\ k \in Nat
      BY <1>1, <1>3, NBlksNat, SizesNat DEF Cut
    <3>3. CASE k \notin 0 .. LastFileBlk
      <4>1. FileBlk(g, k) = NoBlk
        BY <3>2, <3>3, PastLast DEF FileBlk
      <4>2. FileBlk(g, k)' = NoBlk
        <5> DEFINE c == [free |-> free', index |-> index', inode |-> inode'[g]]
        <5>1. FileBlk(g, k)' = Bmap(c, k)
          BY DEF FileBlk, CoreOf
        <5> HIDE DEF c
        <5> QED BY <3>2, <3>3, <5>1, PastLast
      <4> QED BY <4>1, <4>2
    <3>4. CASE k \in 0 .. LastFileBlk
      <4>1. CASE g # f \/ k < NBlks(size)
        <5>1. FileBlk(g, k)' = FileBlk(g, k)
          BY <1>3, <3>4, <4>1 DEF Cut
        <5>2. ~(g = h /\ k >= NBlks(inode'[h].filesize))
          BY <3>1, <3>2, <4>1
        <5> QED BY <5>1, <5>2
      <4>2. CASE g = f /\ ~(k < NBlks(size))
        <5>1. NBlks(size) <= k /\ k < NBlks(inode[f].filesize)
          BY <3>2, <4>2
        <5>2. FileBlk(f, k)' = NoBlk
          BY <1>3, <3>4, <5>1 DEF Cut
        <5>3. g = h /\ k >= NBlks(inode'[h].filesize)
          BY <3>1, <3>2, <4>2
        <5> QED BY <4>2, <5>2, <5>3
      <4> QED BY <4>1, <4>2
    <3> QED BY <3>3, <3>4
  <2>3. MapStep
    <3> SUFFICES ASSUME NEW g \in File, NEW k \in 0 .. LastFileBlk,
                        ~(k >= NBlks(inode'[g].filesize))
                 PROVE  FileBlk(g, k)' = FileBlk(g, k)
      BY DEF MapStep
    <3>1. g # f \/ k < NBlks(size)
      <4>1. CASE g = f
        <5>1. inode'[g].filesize = size /\ NBlks(size) \in Nat
          BY <1>3, <4>1, NBlksNat DEF Cut
        <5> QED BY <5>1
      <4> QED BY <4>1
    <3> QED BY <1>3, <3>1 DEF Cut
  <2> QED BY <1>1, <1>3, <2>1, <2>2, <2>3 DEF MInv
<1>4. ASSUME NEW f \in File, NEW off \in Nat, NEW len \in Nat, Write(f, off, len)
      PROVE  MInv' /\ ShrinkStep /\ MapStep
  <2>1. Synced' /\ Wrote(f, off, off + len) /\ LastIsData'
    BY <1>1, <1>4, WriteSteps, WriteKeeps
  <2>2. SizeCoversBlocks'
    <3>1. CASE holed' \/ failed'
      BY <3>1 DEF SizeCoversBlocks
    <3>2. CASE ~(holed' \/ failed')
      BY <2>1, <3>2, WriteCovers DEF SizeCoversBlocks
    <3> QED BY <3>1, <3>2
  <2>3. ShrinkStep
    <3>1. \A h \in File : ~(inode'[h].filesize < inode[h].filesize)
      BY <1>2, <2>1 DEF Wrote
    <3> QED BY <3>1 DEF ShrinkStep
  <2>4. MapStep
    BY <2>1 DEF Wrote, MapStep
  <2> QED BY <1>1, <2>1, <2>2, <2>3, <2>4 DEF MInv
<1>5. CASE \E f \in File, w \in Writes : Write(f, w[1], w[2])
  <2>1. PICK f \in File, w \in Writes : Write(f, w[1], w[2])
    BY <1>5
  <2>2. w[1] \in Nat /\ w[2] \in Nat
    BY GeometryAssumption
  <2> QED BY <1>4, <2>1, <2>2
<1>6. CASE \E f \in File, length \in Lengths : Truncate(f, length)
  <2>1. PICK f \in File, length \in Lengths : Truncate(f, length)
    BY <1>6
  <2>2. length \in Nat
    BY GeometryAssumption
  <2>3. Synced' /\ Cut(f, length) /\ LastIsData'
    BY <1>1, <2>1, <2>2, TruncateSteps, TruncateKeeps
  <2> QED BY <1>3, <2>2, <2>3
<1>7. CASE \E f \in File : Unlink(f)
  <2>1. PICK f \in File : Unlink(f)
    BY <1>7
  <2>2. Synced' /\ Cut(f, 0) /\ 0 \in Nat /\ LastIsData'
    BY <1>1, <2>1, UnlinkSteps, UnlinkKeeps
  <2> QED BY <1>3, <2>2
<1>8. ASSUME MInv', \A f \in File : inode'[f].filesize = inode[f].filesize,
             \/ failed /\ inode' = dinode
             \/ \A g, k : FileBlk(g, k)' = FileBlk(g, k)
      PROVE  ShrinkStep /\ MapStep
  <2>1. ShrinkStep
    <3>1. \A h \in File : ~(inode'[h].filesize < inode[h].filesize)
      BY <1>2, <1>8
    <3> QED BY <3>1 DEF ShrinkStep
  <2>2. MapStep
    BY <1>8 DEF MapStep
  <2> QED BY <2>1, <2>2
<1>9. CASE \E f \in File : ReadBack(f)
  <2>1. PICK f \in File : ReadBack(f)
    BY <1>9
  <2>2. /\ free' = free /\ index' = index /\ inode' = inode /\ holed' = holed
        /\ taken' = taken /\ failed' = failed /\ dinode' = [dinode EXCEPT ![f] = inode'[f]]
    BY <2>1 DEF ReadBack, WriteINode
  <2>3. \A g \in File : dinode'[g] = dinode[g] \/ dinode'[g] = inode[g]
    <3>1. dinode \in [File -> INodeType]
      BY <1>1 DEF IInv, Types
    <3> QED BY <2>2, <3>1
  <2>4. MInv' /\ \A g, k : FileBlk(g, k)' = FileBlk(g, k)
    BY <1>1, <2>2, <2>3, StillCovers
  <2>5. \A g \in File : inode'[g].filesize = inode[g].filesize
    BY <2>2
  <2> QED BY <1>8, <2>4, <2>5
<1>10. CASE Remount
  <2>1. /\ MInv' /\ \A f \in File : inode'[f].filesize = inode[f].filesize
        /\ failed \/ \A g, k : FileBlk(g, k)' = FileBlk(g, k)
    BY <1>10, RemountSteps
  <2>2. inode' = dinode
    BY <1>10 DEF Remount
  <2> QED BY <1>8, <2>1, <2>2
<1>11. CASE UNCHANGED vars
  <2>1. /\ free' = free /\ index' = index /\ inode' = inode /\ holed' = holed
        /\ taken' = taken /\ failed' = failed /\ \A g \in File : dinode'[g] = dinode[g]
    BY <1>11 DEF vars
  <2>2. MInv'
    BY <1>1, <2>1, StillCovers
  <2> QED BY <1>11, <2>2
<1> QED BY <1>5, <1>6, <1>7, <1>9, <1>10, <1>11 DEF Next

\* At first no file has a block or a size.
LEMMA InitMInv ==
  ASSUME Init
  PROVE  MInv
<1>1. IInv
  BY InitIInv
<1>2. inode = [f \in File |-> EmptyINode] /\ dinode = inode
  BY DEF Init
<1>3. ASSUME NEW f \in File, NEW k \in 0 .. LastFileBlk
      PROVE  FileBlk(f, k) = NoBlk /\ ~(k < NBlks(inode[f].filesize))
  <2>1. inode[f] = EmptyINode
    BY <1>2
  <2>2. CoreOf(f).inode = EmptyINode
    BY <2>1 DEF CoreOf
  <2>3. FileBlk(f, k) = NoBlk
    BY <2>2, BmapEmpty DEF FileBlk
  <2>4. NBlks(inode[f].filesize) = 0
    <3>1. EmptyINode.filesize = 0
      BY DEF EmptyINode
    <3> QED BY <2>1, <3>1, NBlksUp
  <2> QED BY <2>3, <2>4
<1>4. Synced
  BY <1>2 DEF Synced
<1>5. SizeCoversBlocks
  BY <1>3 DEF SizeCoversBlocks
<1>6. LastIsData
  BY DEF Init, LastIsData
<1> QED BY <1>1, <1>4, <1>5, <1>6 DEF MInv

\* The same of the specification, with what an unmount may overwrite: an index
\* block only after a write failed.
KInv == (wiped => failed) /\ (~wiped => MInv)

\* One step of the specification, the unmount that overwrites an index block
\* included.
LEMMA StepKInv ==
  ASSUME KInv, [Next]_vars
  PROVE  KInv' /\ (ShrinkStep \/ UNCHANGED vars) /\ (MapStep \/ UNCHANGED vars)
<1>1. CASE wiped
  <2>1. UNCHANGED vars
    BY <1>1 DEF Next
  <2> QED BY <1>1, <2>1 DEF KInv, vars
<1>2. CASE ~wiped /\ ~wiped'
  BY <1>2, Moves DEF KInv
<1>3. CASE ~wiped /\ wiped'
  <2>1. Next
    BY <1>3 DEF vars
  <2>2. Remount
    BY <1>3, <2>1 DEF Next, Write, Truncate, Unlink, ReadBack
  <2>3. MInv
    BY <1>3 DEF KInv
  <2>4. failed /\ failed' = failed /\ inode' = dinode
    BY <1>3, <2>2, <2>3, RemountWipes DEF Remount
  <2>5. \A f \in File : inode'[f].filesize = inode[f].filesize
    BY <2>3, <2>4 DEF MInv, Synced
  <2>6. ShrinkStep
    <3>1. ASSUME NEW f \in File
          PROVE  ~(inode'[f].filesize < inode[f].filesize)
      <4>1. inode[f].filesize \in Nat
        BY <2>3, SizesNat DEF MInv
      <4> QED BY <2>5, <4>1
    <3> QED BY <3>1 DEF ShrinkStep
  <2>7. MapStep
    BY <2>4 DEF MapStep
  <2> QED BY <1>3, <2>4, <2>6, <2>7 DEF KInv
<1> QED BY <1>1, <1>2, <1>3

\* The sizes on disk and in core agree, and so do the inodes until a write fails:
\* the invariant of the theorems about the places of blocks.
THEOREM Mapped == Spec => []KInv
<1>1. Init => KInv
  BY InitMInv DEF KInv, Init
<1>2. KInv /\ [Next]_vars => KInv'
  BY StepKInv
<1> QED BY <1>1, <1>2, PTL DEF Spec

\* The unmount of a disk that successful writes filled overwrites no index block:
\* balloc takes the block for the data last, and what bfree releases makes the
\* disk less than full.
THEOREM WipedIfFailed == Spec => []WipedOnlyIfFailed
<1>1. KInv => WipedOnlyIfFailed
  BY DEF KInv, WipedOnlyIfFailed
<1> QED BY <1>1, Mapped, PTL

\* As long as no file was given a hole and no write failed, a file has a block
\* at each place before its end and at no other: balloc and bfree follow the
\* size through any mix of l2_write, l2_truncate, l2_unlink and remounts.
THEOREM SizeCovers == Spec => []SizeCoversBlocks
<1>1. KInv => SizeCoversBlocks
  BY DEF KInv, MInv, SizeCoversBlocks
<1> QED BY <1>1, Mapped, PTL

\* A call that makes a file shorter takes the blocks past the new end and no
\* other block of any file: the index blocks bfree releases on its way, when
\* their entry 0 goes, lead to nothing that is still in the file.
THEOREM Shrinks == Spec => ShrinkExact
<1>1. KInv /\ [Next]_vars => [ShrinkStep]_vars
  BY StepKInv
<1>2. ShrinkExact <=> [][ShrinkStep]_vars
  BY PTL DEF ShrinkExact, ShrinkStep
<1> QED BY <1>1, <1>2, Mapped, PTL DEF Spec

\* A block inside a file stays at its place, whatever is done to it or to other
\* files, until the file is cut below it; a remount may forget one, or overwrite
\* the index block that leads to it, only if a write failed.
THEOREM KeepsMapping == Spec => MappingKept
<1>1. KInv /\ [Next]_vars => [MapStep]_vars
  BY StepKInv
<1>2. MappingKept <=> [][MapStep]_vars
  BY PTL DEF MappingKept, MapStep
<1> QED BY <1>1, <1>2, Mapped, PTL DEF Spec

-----------------------------------------------------------------------------
(* No block is lost.                                                         *)

\* Every block is free or in a cell of a file.
Owned(L, N, f, m) ==
  \A b \in Block : \/ \E i \in DOMAIN m.free : m.free[i] = b
                   \/ \E g \in File, d \in Cell, i \in 0 .. 3 :
                        IsCell(L, g, d, i) /\ Seen(N, f, m, g, d) = b

\* Every index block that a file has has its entry 0 in use, but for those in X.
Rooted(L, m, X) ==
  \A b \in Block \ X, g \in File, h \in 1 .. 3 :
    HeldAt(L, b, g, h) => m.index[b][0] # NoBlk

Sound(L, N, f, m, X) == Forest(L, N, f, m) /\ Owned(L, N, f, m) /\ Rooted(L, m, X)

\* Entry 0 is an entry.
LEMMA ZeroEntry == 0 \in Entry
BY GeometryAssumption DEF Entry

\* Filling an empty cell loses no block; an index block put there has no entry 0
\* yet, and an index block whose entry 0 is filled has one now.
LEMMA FillSound ==
  ASSUME NEW N \in [File -> INodeType], NEW f \in File, NEW m \in Memory, NEW L, NEW X,
         Sound(L, N, f, m, X), m.free # <<>>,
         NEW cell, NEW h \in 0 .. 3, IsCell(L, f, cell, h), Get(m, cell) = NoBlk,
         NEW use, h = 0 \/ use = IndexUse,
         NEW Y, h = 0 \/ Head(m.free) \in Y,
         \A p \in X : p \in Y \/ cell = EntryCell(p, 0)
  PROVE  LET b == Head(m.free)
         IN  Sound(With(L, b, Tag(f, cell, h)), N, f,
                   Stored(m, cell, b, b, NewEntries(b, use), Tail(m.free)), Y)
<1> DEFINE b == Head(m.free)
           rest == Tail(m.free)
           entries == NewEntries(b, use)
           z == Stored(m, cell, b, b, entries, rest)
           M == With(L, b, Tag(f, cell, h))
           New(g, d) == Seen(N, f, z, g, d)
           Old(g, d) == Seen(N, f, m, g, d)
<1>1. Forest(L, N, f, m) /\ Owned(L, N, f, m) /\ Rooted(L, m, X)
  BY DEF Sound
<1>2. /\ b \in Block /\ z \in Memory /\ Get(z, cell) = b /\ Forest(M, N, f, z)
      /\ IsCell(M, f, cell, h)
  <2>1. Get(m, cell) = NoBlk \/ (\E p, e : cell = EntryCell(p, e))
    OBVIOUS
  <2>2. /\ b \in Block /\ z \in Memory /\ Grows(m, z) /\ Get(z, cell) = b
        /\ Forest(With(L, b, Tag(f, cell, h)), N, f, z)
        /\ IsCell(With(L, b, Tag(f, cell, h)), f, cell, h)
    BY ZenonT(30), <1>1, <2>1, FillKeeps
  <2> QED BY <2>2
<1>3. /\ m.free \in Seq(Block) /\ rest \in Seq(Block) /\ b \in Id /\ cell \in Cell
      /\ DOMAIN m.free = 1 .. Len(m.free) /\ b = m.free[1]
  BY <1>2, MemoryFields, TailFree, IsCellType DEF Id
<1>4. entries \in [Entry -> Id]
  BY <1>2, NewEntriesType
<1>5. L[b] = Unheld
  <2>1. 1 \in DOMAIN m.free
    BY <1>3, TailFree
  <2> QED BY <1>1, <1>3, <2>1 DEF Forest
<1> HIDE DEF b, rest, entries
<1>6. /\ z.free = rest /\ z.index[b] = entries
      /\ \A d \in Cell : (\A e \in Entry : d # EntryCell(b, e)) =>
           Get(z, d) = IF d = cell THEN b ELSE Get(m, d)
      /\ \A g \in File, d \in Cell :
           (\A e \in Entry : d # EntryCell(b, e)) =>
              /\ d = cell /\ g = f => New(g, d) = b
              /\ d # cell => New(g, d) = Old(g, d)
              /\ d = cell /\ g # f /\ (\A p, e : d # EntryCell(p, e)) => New(g, d) = Old(g, d)
  BY <1>2, <1>3, <1>4, StoredFields
<1>7. M[b] = Tag(f, cell, h) /\ \A p \in Block \ {b} : M[p] = L[p]
  <2>1. L = [a \in Block |-> L[a]]
    BY <1>1 DEF Forest
  <2> QED BY <1>2, <2>1 DEF With
<1> HIDE DEF z, M, New, Old
<1>8. \A g, d, i : i \in 0 .. 3 /\ IsCell(L, g, d, i) => \A e \in Entry : d # EntryCell(b, e)
  <2> SUFFICES ASSUME NEW g, NEW i \in 0 .. 3, NEW e \in Entry, IsCell(L, g, EntryCell(b, e), i)
               PROVE  FALSE
    OBVIOUS
  <2>1. HeldAt(L, b, g, i + 1)
    BY EntryIsCell
  <2> QED BY <1>5, <2>1, Tags DEF HeldAt
<1>9. ASSUME NEW c \in Block
      PROVE  \/ \E i \in DOMAIN rest : rest[i] = c
             \/ \E g \in File, d \in Cell, i \in 0 .. 3 : IsCell(M, g, d, i) /\ New(g, d) = c
  <2>1. CASE \E i \in DOMAIN m.free : m.free[i] = c
    <3>1. PICK i \in DOMAIN m.free : m.free[i] = c
      BY <2>1
    <3>2. CASE i = 1
      <4>1. c = b
        BY <1>3, <3>1, <3>2
      <4>2. \A e \in Entry : cell # EntryCell(b, e)
        BY <1>8
      <4>3. New(f, cell) = b
        BY <1>3, <1>6, <4>2
      <4> QED BY <1>2, <1>3, <4>1, <4>3
    <3>3. CASE i # 1
      <4>1. i - 1 \in 1 .. Len(m.free) - 1 /\ i - 1 + 1 = i
        BY <1>3, <3>3
      <4>2. DOMAIN rest = 1 .. Len(m.free) - 1 /\ \A j \in DOMAIN rest : rest[j] = m.free[j + 1]
        BY <1>3 DEF rest
      <4> QED BY <3>1, <4>1, <4>2
    <3> QED BY <3>2, <3>3
  <2>2. CASE \E g \in File, d \in Cell, i \in 0 .. 3 : IsCell(L, g, d, i) /\ Old(g, d) = c
    <3>1. PICK g \in File, d \in Cell, i \in 0 .. 3 : IsCell(L, g, d, i) /\ Old(g, d) = c
      BY <2>2
    <3>2. \A e \in Entry : d # EntryCell(b, e)
      BY <1>8, <3>1
    <3>3. IsCell(M, g, d, i)
      BY <1>7, <3>1, <3>2, CellStays
    <3>4. New(g, d) = Old(g, d)
      <4>1. CASE d # cell
        BY <1>6, <3>2, <4>1
      <4>2. CASE d = cell
        <5>1. g # f
          <6> SUFFICES ASSUME g = f PROVE FALSE
            OBVIOUS
          <6>1. Old(g, d) = Get(m, cell)
            BY <4>2, SeenOwn DEF Old
          <6> QED BY <3>1, <6>1, GeometryAssumption
        <5>2. \A p, e : d # EntryCell(p, e)
          BY <3>1, <4>2, <5>1, CellUnique
        <5> QED BY <1>6, <3>2, <4>2, <5>1, <5>2
      <4> QED BY <4>1, <4>2
    <3> QED BY <3>1, <3>3, <3>4
  <2> QED BY <1>1, <2>1, <2>2 DEF Owned, Old
<1>10. ASSUME NEW c \in Block \ Y, NEW g \in File, NEW i \in 1 .. 3, HeldAt(M, c, g, i)
       PROVE  z.index[c][0] # NoBlk
  <2> DEFINE d == EntryCell(c, 0)
  <2>1. c # b
    <3> SUFFICES ASSUME c = b PROVE FALSE
      OBVIOUS
    <3>1. PICK x : M[c] = Tag(g, x, i)
      BY <1>10 DEF HeldAt
    <3>2. Tag(f, cell, h) = Tag(g, x, i)
      BY <1>7, <3>1
    <3>3. h = i
      BY <3>2, Tags
    <3> QED BY <3>3 DEF b
  <2>2. HeldAt(L, c, g, i)
    BY <1>7, <1>10, <2>1 DEF HeldAt
  <2>3. d \in Cell /\ \A e \in Entry : d # EntryCell(b, e)
    BY <2>1, ZeroEntry, CellsDiffer DEF Cell
  <2>4. Get(z, d) = z.index[c][0] /\ Get(m, d) = m.index[c][0]
    BY GetIs
  <2>5. d # cell => c \notin X
    OBVIOUS
  <2> HIDE DEF d
  <2>6. Get(z, d) = IF d = cell THEN b ELSE Get(m, d)
    BY <1>6, <2>3
  <2>7. CASE d = cell
    BY <1>2, <2>4, <2>6, <2>7, GeometryAssumption
  <2>8. CASE d # cell
    <3>1. m.index[c][0] # NoBlk
      BY <1>1, <2>2, <2>5, <2>8 DEF Rooted
    <3> QED BY <2>4, <2>6, <2>8, <3>1
  <2> QED BY <2>7, <2>8
<1>11. Owned(M, N, f, z)
  BY <1>6, <1>9 DEF Owned, New
<1>12. Rooted(M, z, Y)
  BY <1>10 DEF Rooted
<1>13. Sound(M, N, f, z, Y)
  BY <1>2, <1>11, <1>12 DEF Sound
<1> QED BY <1>13 DEF b, z, M, rest, entries

\* Releasing a cell loses no block, provided that the block that goes is a data
\* block or an index block without entries.
LEMMA ReleaseSound ==
  ASSUME NEW N \in [File -> INodeType], NEW f \in File, NEW m \in Memory, NEW L, NEW X,
         Sound(L, N, f, m, X), NEW cell, NEW h \in 0 .. 3, IsCell(L, f, cell, h),
         Get(m, cell) # NoBlk,
         h = 0 \/ \A e \in Entry : m.index[Get(m, cell)][e] = NoBlk,
         NEW Y, \A p \in X : p \in Y \/ p = Get(m, cell),
         \A p : cell = EntryCell(p, 0) => p \in Y
  PROVE  Release(m, cell) \in Memory /\ \E M : Sound(M, N, f, Release(m, cell), Y)
<1> DEFINE b == Get(m, cell)
           put == <<b>> \o m.free
           entries == Junk(b)
           z == Stored(m, cell, NoBlk, b, entries, put)
           M == With(L, b, Unheld)
           New(g, d) == Seen(N, f, z, g, d)
           Old(g, d) == Seen(N, f, m, g, d)
<1>1. Forest(L, N, f, m) /\ Owned(L, N, f, m) /\ Rooted(L, m, X)
  BY DEF Sound
<1>2. cell \in Cell /\ Release(m, cell) = z
  BY IsCellType, ReleaseIs
<1>3. b = Old(f, cell) /\ b # NoBlk
  BY SeenOwn
<1>4. b \in Block
  <2>1. With(N, f, m.inode)[f] \in INodeType
    BY MemoryFields DEF With
  <2>2. b \in Id
    BY <1>2, <1>3, <2>1, ValueType DEF Seen
  <2> QED BY <1>3, <2>2 DEF Id
<1>5. entries \in [Entry -> Id] /\ NoBlk \in Id
  BY <1>4 DEF Junk, Id
<1>6. m.free \in Seq(Block)
  BY MemoryFields
<1>7. /\ put \in Seq(Block) /\ DOMAIN put = 1 .. Len(m.free) + 1 /\ put[1] = b
      /\ DOMAIN m.free = 1 .. Len(m.free) /\ Len(m.free) \in Nat
      /\ \A i \in DOMAIN m.free : put[i + 1] = m.free[i]
  <2> HIDE DEF b
  <2> QED BY <1>4, <1>6
<1> HIDE DEF b, put, entries
<1>8. L[b] = Tag(f, cell, h) /\ Forest(M, N, f, z)
  <2>1. LET y == Stored(m, cell, NoBlk, b, entries, <<b>> \o m.free)
            Q == With(L, b, Unheld)
        IN  /\ b \in Block /\ L[b] = Tag(f, cell, h)
            /\ Forest(Q, N, f, y)
            /\ \A d \in Cell, i \in 0 .. 3 :
                 IsCell(L, f, d, i) /\ i >= h /\ d # cell =>
                   IsCell(Q, f, d, i) /\ Seen(N, f, y, f, d) = Seen(N, f, m, f, d)
    BY <1>1, <1>3, <1>5, ReleaseForest
  <2> QED BY <2>1 DEF put
<1>9. /\ z \in Memory /\ z.free = put /\ z.index[b] = entries
      /\ \A d \in Cell : (\A e \in Entry : d # EntryCell(b, e)) =>
           Get(z, d) = IF d = cell THEN NoBlk ELSE Get(m, d)
      /\ \A g \in File, d \in Cell :
           (\A e \in Entry : d # EntryCell(b, e)) =>
              /\ d = cell /\ g = f => New(g, d) = NoBlk
              /\ d # cell => New(g, d) = Old(g, d)
              /\ d = cell /\ g # f /\ (\A p, e : d # EntryCell(p, e)) => New(g, d) = Old(g, d)
  BY <1>2, <1>4, <1>5, <1>7, StoredFields
<1>10. M[b] = Unheld /\ \A p \in Block \ {b} : M[p] = L[p]
  <2>1. L = [a \in Block |-> L[a]]
    BY <1>1 DEF Forest
  <2> QED BY <1>4, <2>1 DEF With
<1> HIDE DEF z, M, New, Old
<1>11. ASSUME NEW c \in Block
       PROVE  \/ \E i \in DOMAIN put : put[i] = c
              \/ \E g \in File, d \in Cell, i \in 0 .. 3 : IsCell(M, g, d, i) /\ New(g, d) = c
  <2>1. CASE \E i \in DOMAIN m.free : m.free[i] = c
    <3>1. PICK i \in DOMAIN m.free : m.free[i] = c
      BY <2>1
    <3>2. i + 1 \in DOMAIN put
      BY <1>7
    <3> QED BY <1>7, <3>1, <3>2
  <2>2. CASE c = b
    <3>1. 1 \in DOMAIN put
      BY <1>7
    <3> QED BY <1>7, <2>2, <3>1
  <2>3. CASE c # b /\ \E g \in File, d \in Cell, i \in 0 .. 3 : IsCell(L, g, d, i) /\ Old(g, d) = c
    <3>1. PICK g \in File, d \in Cell, i \in 0 .. 3 : IsCell(L, g, d, i) /\ Old(g, d) = c
      BY <2>3
    <3>2. \A e \in Entry : d # EntryCell(b, e)
      <4> SUFFICES ASSUME NEW e \in Entry, d = EntryCell(b, e) PROVE FALSE
        OBVIOUS
      <4>1. HeldAt(L, b, g, i + 1) /\ i \in 0 .. 2
        BY <3>1, EntryIsCell
      <4>2. PICK x : L[b] = Tag(g, x, i + 1)
        BY <4>1 DEF HeldAt
      <4>3. Tag(f, cell, h) = Tag(g, x, i + 1)
        BY <1>8, <4>2
      <4>4. h = i + 1
        BY <4>3, Tags
      <4>5. m.index[b][e] = NoBlk
        BY <4>1, <4>4 DEF b
      <4>6. Old(g, d) = m.index[b][e]
        <5>1. ValueIn(m, With(N, f, m.inode)[g], EntryCell(b, e)) = m.index[b][e]
          BY ZenonT(30), <1>4, ValueIs
        <5> QED BY <5>1 DEF Old, Seen
      <4> QED BY <3>1, <4>5, <4>6, GeometryAssumption
    <3>3. IsCell(M, g, d, i)
      BY <1>10, <3>1, <3>2, CellStays
    <3>4. New(g, d) = Old(g, d)
      <4>1. CASE d # cell
        BY <1>9, <3>2, <4>1
      <4>2. CASE d = cell
        <5>1. g # f
          BY <1>3, <2>3, <3>1, <4>2
        <5>2. \A p, e : d # EntryCell(p, e)
          BY <3>1, <4>2, <5>1, CellUnique
        <5> QED BY <1>9, <3>2, <4>2, <5>1, <5>2
      <4> QED BY <4>1, <4>2
    <3> QED BY <3>1, <3>3, <3>4
  <2> QED BY <1>1, <2>1, <2>2, <2>3 DEF Owned, Old
<1>12. ASSUME NEW c \in Block \ Y, NEW g \in File, NEW i \in 1 .. 3, HeldAt(M, c, g, i)
       PROVE  z.index[c][0] # NoBlk
  <2> DEFINE d == EntryCell(c, 0)
  <2>1. c # b
    BY <1>10, <1>12, Tags DEF HeldAt
  <2>2. HeldAt(L, c, g, i)
    BY <1>10, <1>12, <2>1 DEF HeldAt
  <2>3. d \in Cell /\ \A e \in Entry : d # EntryCell(b, e)
    BY <2>1, ZeroEntry, CellsDiffer DEF Cell
  <2>4. Get(z, d) = z.index[c][0] /\ Get(m, d) = m.index[c][0]
    BY GetIs
  <2>5. d # cell /\ c \notin X
    BY <2>1 DEF b
  <2> HIDE DEF d
  <2>6. Get(z, d) = Get(m, d)
    BY <1>9, <2>3, <2>5
  <2>7. m.index[c][0] # NoBlk
    BY <1>1, <2>2, <2>5 DEF Rooted
  <2> QED BY <2>4, <2>6, <2>7
<1>13. Owned(M, N, f, z)
  BY <1>9, <1>11 DEF Owned, New
<1>14. Rooted(M, z, Y)
  BY <1>12 DEF Rooted
<1>15. Sound(M, N, f, z, Y)
  BY <1>8, <1>13, <1>14 DEF Sound
<1> QED BY <1>2, <1>9, <1>15

-----------------------------------------------------------------------------
(* Ways whose entries are zeros.                                             *)

\* A way that has a block at place q and goes on with zeros leads to a file block:
\* every index block on it has its entry 0 in use.
LEMMA ZeroWay ==
  ASSUME NEW N \in [File -> INodeType], NEW f \in File, NEW m \in Memory, NEW L, NEW X,
         Forest(L, N, f, m), Rooted(L, m, X), NEW k \in 0 .. LastFileBlk,
         NEW q \in 0 .. Len(Route(k).path), Live(m, k, q), Way(m, k)[q] # NoBlk,
         \A x \in q + 1 .. Len(Route(k).path) : Route(k).path[x] = 0,
         \A p \in X, h \in 1 .. Len(Route(k).path) - q : ~HeldAt(L, p, f, h)
  PROVE  Bmap(m, k) # NoBlk
<1> DEFINE path == Route(k).path
           last == Len(path)
           w == Way(m, k)
           S == {n \in 0 .. last - q : Live(m, k, q + n) /\ w[q + n] # NoBlk}
<1>1. last \in 0 .. 3 /\ q \in 0 .. last /\ last - q \in Nat
  BY RouteType
<1>2. 0 \in S
  BY <1>1
<1>3. ASSUME NEW n \in 0 .. last - q - 1, n \in S
      PROVE  n + 1 \in S
  <2> DEFINE x == q + n
             b == w[x]
  <2>1. /\ x \in 0 .. last /\ x + 1 \in 1 .. last /\ x + 1 = q + (n + 1) /\ (x + 1) - 1 = x
        /\ x \in 0 .. last - 1 /\ last - x \in 1 .. last - q /\ last - x \in 1 .. 3
        /\ last - x \in 0 .. 3
        /\ x + 1 \in q + 1 .. last /\ n + 1 \in 0 .. last - q /\ x \in Int
    <3> HIDE DEF last
    <3> QED BY <1>1
  <2>2. Live(m, k, x) /\ b # NoBlk
    BY <1>3
  <2>3. IsCell(L, f, CellOn(m, k, x), last - x) /\ Get(m, CellOn(m, k, x)) = b
    <3> HIDE DEF x
    <3> QED BY <2>1, <2>2, WayPlace
  <2> HIDE DEF x, b
  <2>4. b \in Block /\ HeldAt(L, b, f, last - x)
    <3> DEFINE h == last - x
               c == CellOn(m, k, x)
    <3>1. h \in 0 .. 3 /\ IsCell(L, f, c, h) /\ Get(m, c) = b
      BY <2>1, <2>3
    <3> HIDE DEF h, c
    <3>2. b \in Block /\ L[b] = Tag(f, c, h)
      BY <2>2, <3>1, HeldHere
    <3> QED BY <3>2 DEF HeldAt, h
  <2>5. b \notin X
    BY <2>1, <2>4
  <2>6. m.index[b][0] # NoBlk
    BY <2>1, <2>4, <2>5 DEF Rooted
  <2>7. w[x + 1] = m.index[b][0]
    <3>1. /\ CellOn(m, k, x + 1) = EntryCell(Way(m, k)[(x + 1) - 1], path[x + 1])
          /\ Way(m, k)[(x + 1) - 1] # NoBlk => w[x + 1] = Get(m, CellOn(m, k, x + 1))
      BY <2>1, WayStep
    <3>2. path[x + 1] = 0
      BY <2>1
    <3> HIDE DEF path
    <3>3. CellOn(m, k, x + 1) = EntryCell(b, 0) /\ w[x + 1] = Get(m, EntryCell(b, 0))
      BY <2>1, <2>2, <3>1, <3>2 DEF b
    <3> QED BY <3>3, GetIs
  <2>8. Live(m, k, x + 1)
    <3> SUFFICES ASSUME NEW i \in 0 .. (x + 1) - 1 PROVE w[i] # NoBlk
      BY DEF Live
    <3>1. i = x \/ i \in 0 .. x - 1
      BY <2>1
    <3> QED BY <2>2, <3>1 DEF Live, b
  <2>9. Live(m, k, q + (n + 1)) /\ w[q + (n + 1)] # NoBlk
    BY <2>1, <2>6, <2>7, <2>8
  <2> QED BY <2>1, <2>9
<1>4. \A n \in 0 .. last - q : n \in S
  <2> HIDE DEF S, last
  <2> QED BY <1>1, <1>2, <1>3, UpTo
<1>5. last - q \in S /\ q + (last - q) = last
  <2> DEFINE n == last - q
  <2>1. n \in 0 .. n /\ q + n = last
    <3> HIDE DEF last
    <3> QED BY <1>1
  <2> HIDE DEF S, last
  <2> QED BY <1>4, <2>1
<1>6. w[last] # NoBlk
  BY <1>5
<1> QED BY <1>6, BmapIs

\* A number from its quotient and remainder.
LEMMA Rebuilt ==
  ASSUME NEW c \in Nat \ {0}, NEW n \in Nat \ {0}, NEW q \in 0 .. n - 1, NEW r \in 0 .. c - 1,
         NEW x, x = c * q + r
  PROVE  x \in Nat /\ x < c * n /\ x \div c = q /\ x % c = r
<1>1. c * q \in Nat /\ c * n \in Nat /\ c * (n - 1) = c * n - c
  OBVIOUS
<1>2. c * q <= c * (n - 1)
  BY TimesAtMost
<1>3. x \in Nat /\ x < c * n
  <2> DEFINE u == c * q
             v == c * n
             w == c * (n - 1)
  <2>1. u \in Nat /\ v \in Nat /\ w = v - c /\ u <= w /\ x = u + r
    BY <1>1, <1>2
  <2> HIDE DEF u, v, w
  <2>2. x \in Nat /\ x < v
    BY <2>1
  <2> QED BY <2>2 DEF v
<1>4. x \div c = q
  BY QuotientIs
<1>5. x % c \in 0 .. c - 1 /\ x = c * (x \div c) + (x % c)
  <2>1. x \in Int
    BY <1>3
  <2> QED BY Zenon, <2>1, Divide
<1>6. x = c * q + (x % c)
  BY <1>4, <1>5
<1>7. x % c = r
  <2> DEFINE u == c * q
             v == x % c
  <2>1. u \in Nat /\ v \in Int /\ x = u + v /\ x = u + r
    BY <1>1, <1>5, <1>6
  <2> HIDE DEF u, v
  <2>2. v = r
    BY <2>1
  <2> QED BY <2>2 DEF v
<1> QED BY <1>3, <1>4, <1>7

\* A digit of a route, the others zero from there on.
Digit(d, e, g, i) == IF i = 1 THEN d ELSE IF i = 2 THEN e ELSE g

\* There is a file block for every route.
LEMMA RouteTo ==
  ASSUME NEW level \in 1 .. 3, NEW d \in Entry, NEW e \in Entry, NEW g \in Entry
  PROVE  \E j \in 0 .. LastFileBlk :
           /\ Len(Route(j).path) = level
           /\ \A i \in 1 .. level : Route(j).path[i] = Digit(d, e, g, i)
<1> DEFINE E == Entries
<1>1. E \in Nat \ {0} /\ NDirect \in Nat \ {0} /\ E * E \in Nat \ {0} /\ E * E * E \in Nat \ {0}
  BY GeometryAssumption
<1>2. d \in 0 .. E - 1 /\ e \in 0 .. E - 1 /\ g \in 0 .. E - 1
  BY DEF Entry
<1>3. CASE level = 1
  <2> DEFINE j == NDirect + d
  <2>1. j - NDirect = d /\ j \in 0 .. LastFileBlk /\ ~(j - NDirect < 0) /\ j - NDirect - E < 0
    BY <1>1, <1>2 DEF LastFileBlk
  <2> HIDE DEF j
  <2>2. Route(j) = [start |-> RootCell(1), path |-> <<d>>]
    BY <2>1 DEF Route
  <2>3. Route(j).path = <<d>>
    BY <2>2
  <2>4. \A i \in 1 .. level : Route(j).path[i] = Digit(d, e, g, i)
    BY <1>3, <2>3 DEF Digit
  <2> QED BY <1>3, <2>1, <2>3, <2>4
<1>4. CASE level = 2
  <2> DEFINE x == E * d + e
             j == NDirect + E + x
  <2>1. x \in Nat /\ x < E * E /\ x \div E = d /\ x % E = e
    <3> HIDE DEF E
    <3> QED BY <1>1, <1>2, Rebuilt DEF x
  <2> HIDE DEF x
  <2>2. /\ j - NDirect - E = x /\ j \in 0 .. LastFileBlk /\ ~(j - NDirect < 0)
        /\ ~(j - NDirect - E < 0) /\ j - NDirect - E - E * E < 0
    BY <1>1, <2>1 DEF LastFileBlk
  <2> HIDE DEF j
  <2>3. Route(j) = [start |-> RootCell(2), path |-> <<x \div E, x % E>>]
    BY <2>2 DEF Route
  <2>4. Route(j).path = <<d, e>>
    BY <2>1, <2>3
  <2>5. \A i \in 1 .. level : Route(j).path[i] = Digit(d, e, g, i)
    BY <1>4, <2>4 DEF Digit
  <2> QED BY <1>4, <2>2, <2>4, <2>5
<1>5. CASE level = 3
  <2> DEFINE y == E * d + e
             x == E * y + g
             j == NDirect + E + E * E + x
  <2>1. y \in Nat /\ y < E * E /\ y \div E = d /\ y % E = e
    <3> HIDE DEF E
    <3> QED BY <1>1, <1>2, Rebuilt DEF y
  <2>2. x \in Nat /\ x < E * E * E /\ x \div E = y /\ x % E = g /\ x \div (E * E) = d
    <3> DEFINE n == E * E
    <3> HIDE DEF E, y, n
    <3>1. n \in Nat \ {0} /\ y \in 0 .. n - 1
      BY <1>1, <2>1 DEF n
    <3>2. x \in Nat /\ x < E * n /\ x \div E = y /\ x % E = g
      BY <1>1, <1>2, <3>1, Rebuilt
    <3>3. E * n = E * E * E
      BY <1>1 DEF n
    <3>4. (x \div E) \div E = x \div (E * E)
      BY <1>1, <3>2, DivideTwice
    <3> QED BY <2>1, <3>2, <3>3, <3>4
  <2> HIDE DEF x, y
  <2>3. /\ j - NDirect - E - E * E = x /\ j \in 0 .. LastFileBlk /\ ~(j - NDirect < 0)
        /\ ~(j - NDirect - E < 0) /\ ~(j - NDirect - E - E * E < 0)
    BY <1>1, <2>2 DEF LastFileBlk
  <2> HIDE DEF j
  <2>4. Route(j) = [start |-> RootCell(3),
                    path  |-> <<x \div (E * E), (x \div E) % E, x % E>>]
    BY <2>3 DEF Route
  <2>5. Route(j).path = <<d, e, g>>
    BY <2>1, <2>2, <2>4
  <2>6. \A i \in 1 .. level : Route(j).path[i] = Digit(d, e, g, i)
    BY <1>5, <2>5 DEF Digit
  <2> QED BY <1>5, <2>3, <2>5, <2>6
<1> QED BY <1>3, <1>4, <1>5

\* Ways with the same route up to a place are the same up to there.
LEMMA WayShared ==
  ASSUME NEW m, NEW k \in 0 .. LastFileBlk, NEW j \in 0 .. LastFileBlk,
         NEW q \in 0 .. Len(Route(k).path), SameRoute(k, j, q)
  PROVE  /\ \A x \in 0 .. q : Way(m, j)[x] = Way(m, k)[x]
         /\ \A x \in 0 .. q : Live(m, j, x) <=> Live(m, k, x)
<1> DEFINE last == Len(Route(k).path)
           v == Way(m, j)
           w == Way(m, k)
           S == {x \in 0 .. q : v[x] = w[x]}
<1>1. /\ last \in 0 .. 3 /\ q \in 0 .. last /\ q \in Nat /\ Route(j).start = Route(k).start
      /\ last = Len(Route(j).path)
      /\ \A i \in 1 .. q : Route(k).path[i] = Route(j).path[i]
  BY RouteType DEF SameRoute
<1>2. /\ w[0] = Get(m, Route(k).start)
      /\ \A x \in 1 .. last :
           /\ CellOn(m, k, x) = EntryCell(w[x - 1], Route(k).path[x])
           /\ w[x - 1] # NoBlk => w[x] = Get(m, CellOn(m, k, x))
           /\ w[x - 1] = NoBlk => w[x] = NoBlk
  BY WayStep
<1>3. /\ v[0] = Get(m, Route(j).start)
      /\ \A x \in 1 .. last :
           /\ CellOn(m, j, x) = EntryCell(v[x - 1], Route(j).path[x])
           /\ v[x - 1] # NoBlk => v[x] = Get(m, CellOn(m, j, x))
           /\ v[x - 1] = NoBlk => v[x] = NoBlk
  <2> HIDE DEF last
  <2>1. last = Len(Route(j).path)
    BY <1>1
  <2> QED BY <2>1, WayStep
<1> HIDE DEF last, v, w
<1>4. 0 \in S
  BY <1>1, <1>2, <1>3
<1>5. ASSUME NEW n \in 0 .. q - 1, n \in S
      PROVE  n + 1 \in S
  <2> DEFINE x == n + 1
  <2>1. x \in 1 .. last /\ x \in 1 .. q /\ x - 1 = n /\ x \in 0 .. q
    BY <1>1
  <2>2. v[n] = w[n]
    BY <1>5
  <2> HIDE DEF x
  <2>3. v[x] = w[x]
    <3>1. Route(k).path[x] = Route(j).path[x]
      BY <1>1, <2>1
    <3> QED BY <1>2, <1>3, <2>1, <2>2, <3>1
  <2>4. x \in S
    BY <2>1, <2>3
  <2> QED BY <2>4 DEF x
<1>6. \A x \in 0 .. q : x \in S
  <2> HIDE DEF S
  <2> QED BY <1>1, <1>4, <1>5, UpTo
<1>7. \A x \in 0 .. q : v[x] = w[x]
  BY <1>6
<1>8. ASSUME NEW x \in 0 .. q PROVE Live(m, j, x) <=> Live(m, k, x)
  <2>1. \A i \in 0 .. x - 1 : i \in 0 .. q
    BY <1>1
  <2> QED BY <1>7, <2>1 DEF Live, v, w
<1> QED BY <1>7, <1>8 DEF v, w

\* There is a file block whose route leaves that of k after place q for entry e
\* and goes on with zeros.
LEMMA Branch ==
  ASSUME NEW k \in 0 .. LastFileBlk, NEW q \in 0 .. Len(Route(k).path) - 1, NEW e \in Entry
  PROVE  \E j \in 0 .. LastFileBlk :
           /\ SameRoute(k, j, q) /\ Route(j).path[q + 1] = e
           /\ \A x \in q + 2 .. Len(Route(k).path) : Route(j).path[x] = 0
<1> DEFINE path == Route(k).path
           last == Len(path)
           y(i) == IF i <= q /\ i <= last THEN path[i] ELSE IF i = q + 1 THEN e ELSE 0
           d1 == y(1)
           d2 == y(2)
           d3 == y(3)
<1>1. path \in Seq(Entry) /\ last \in 0 .. 3 /\ (last # 0 => Route(k).start = RootCell(last))
  BY RouteType
<1>2. last \in 1 .. 3 /\ q \in 0 .. last - 1
  <2>1. q \in 0 .. last - 1
    OBVIOUS
  <2> HIDE DEF last
  <2> QED BY <1>1, <2>1
<1>3. \A i \in 1 .. last : path[i] \in Entry
  BY <1>1
<1> HIDE DEF path, last
<1>4. d1 \in Entry /\ d2 \in Entry /\ d3 \in Entry
  BY <1>2, <1>3, ZeroEntry
<1>5. \A i \in 1 .. last : y(i) = Digit(d1, d2, d3, i)
  BY <1>2 DEF Digit
<1> HIDE DEF d1, d2, d3
<1>6. PICK j \in 0 .. LastFileBlk :
        /\ Len(Route(j).path) = last
        /\ \A i \in 1 .. last : Route(j).path[i] = Digit(d1, d2, d3, i)
  BY ZenonT(30), <1>2, <1>4, RouteTo
<1>7. Route(j).start = Route(k).start
  <2>1. Len(Route(j).path) # 0 => Route(j).start = RootCell(Len(Route(j).path))
    BY RouteType
  <2> QED BY <1>1, <1>2, <1>6, <2>1
<1>8. \A i \in 1 .. last : Route(j).path[i] = y(i)
  BY <1>5, <1>6
<1>9. \A i \in 1 .. q : path[i] = Route(j).path[i]
  BY <1>2, <1>8
<1>10. q + 1 \in 1 .. last /\ ~(q + 1 <= q)
  BY <1>2
<1>11. Route(j).path[q + 1] = e
  BY <1>8, <1>10
<1>12. ASSUME NEW x \in q + 2 .. last PROVE Route(j).path[x] = 0
  <2>1. x \in 1 .. last /\ ~(x <= q) /\ x # q + 1
    BY <1>2
  <2> QED BY <1>8, <2>1
<1>13. SameRoute(k, j, q)
  BY <1>6, <1>7, <1>9 DEF SameRoute, path, last
<1> QED BY <1>11, <1>12, <1>13 DEF path, last

\* When file block k is the first that is missing, its way ends at a place from
\* which it would go on with zeros only.
LEMMA FirstMissing ==
  ASSUME NEW m, NEW k \in 0 .. LastFileBlk, NEW q \in 0 .. Len(Route(k).path),
         Way(m, k)[q] = NoBlk, \A j \in 0 .. LastFileBlk : j < k => Bmap(m, j) # NoBlk
  PROVE  \A x \in q + 1 .. Len(Route(k).path) : Route(k).path[x] = 0
<1> DEFINE last == Len(Route(k).path)
<1>1. last \in 0 .. 3 /\ q \in 0 .. last
  BY RouteType
<1> HIDE DEF last
<1>2. CASE q = last
  <2>1. q + 1 .. last = {}
    BY <1>1, <1>2
  <2> QED BY <2>1 DEF last
<1>3. CASE q # last
  <2>1. q \in 0 .. last - 1
    BY <1>1, <1>3
  <2>2. PICK j \in 0 .. LastFileBlk :
          /\ SameRoute(k, j, q) /\ Route(j).path[q + 1] = 0
          /\ \A x \in q + 2 .. last : Route(j).path[x] = 0
    BY <2>1, ZeroEntry, Branch DEF last
  <2>3. \A x \in q + 1 .. last : Route(j).path[x] = 0
    <3>1. \A x \in q + 1 .. last : x = q + 1 \/ x \in q + 2 .. last
      BY <1>1
    <3> QED BY <2>2, <3>1
  <2>4. Len(Route(j).path) = last /\ SameRoute(j, k, q)
    BY <2>2 DEF SameRoute, last
  <2>5. j <= k
    <3>1. q \in 0 .. Len(Route(j).path) /\ \A i \in q + 1 .. Len(Route(j).path) : Route(j).path[i] = 0
      BY <1>1, <2>3, <2>4
    <3> QED BY <2>4, <3>1, RouteLeast
  <2>6. CASE j = k
    BY <2>3, <2>6 DEF last
  <2>7. CASE j # k
    <3>1. j < k
      BY <2>5, <2>7
    <3>2. Bmap(m, j) # NoBlk
      BY <3>1
    <3>3. Way(m, j)[q] # NoBlk
      BY <1>1, <2>4, <3>2, MappedLive
    <3>4. Way(m, j)[q] = Way(m, k)[q]
      BY <1>1, <2>2, WayShared
    <3> QED BY <3>3, <3>4
  <2> QED BY <2>6, <2>7
<1> QED BY <1>2, <1>3

-----------------------------------------------------------------------------
(* balloc loses no block.                                                    *)

\* Place x and those after it have digit 0 on the route to file block k.
ZerosFrom(k, x) == \A i \in x .. Len(Route(k).path) : Route(k).path[i] = 0

\* The descent for file block k of f at place n: it has given up, or no block is
\* lost.  Until it fills a cell it is where bmap would be; from then on it goes
\* through new index blocks, whose entry 0 is the next cell.
OnSound(N, f, m0, k, n, a) ==
  \E m, cell :
    \/ a = Stuck(m, cell)
    \/ /\ a = Going(m, cell) /\ m \in Memory /\ PassesAt(m, k, cell, n)
       /\ \E L, X : /\ Sound(L, N, f, m, X) /\ \A p \in X : cell = EntryCell(p, 0)
                    /\ \/ m = m0 /\ X = {}
                       \/ Get(m, cell) = NoBlk /\ ZerosFrom(k, n + 1)

\* One step of the descent loses no block.
LEMMA DescendSound ==
  ASSUME NEW N \in [File -> INodeType], NEW f \in File, NEW m0, NEW k \in 0 .. LastFileBlk,
         \A j \in 0 .. LastFileBlk : j < k => Bmap(m0, j) # NoBlk,
         NEW n \in 0 .. Len(Route(k).path) - 1, NEW a, OnSound(N, f, m0, k, n, a)
  PROVE  OnSound(N, f, m0, k, n + 1, Descend(a, Route(k).path[n + 1]))
<1> DEFINE last == Len(Route(k).path)
           h == last - n
           e == Route(k).path[n + 1]
<1>1. /\ last \in 0 .. 3 /\ n \in 0 .. last /\ h \in 1 .. 3 /\ h \in 0 .. 3 /\ n + 1 \in n + 1 .. last
      /\ \A i \in n + 2 .. last : i \in n + 1 .. last
  <2>1. last \in 0 .. 3 /\ n \in 0 .. last - 1
    BY RouteType
  <2> HIDE DEF last
  <2> QED BY <2>1
<1>2. PICK m, cell :
        \/ a = Stuck(m, cell)
        \/ /\ a = Going(m, cell) /\ m \in Memory /\ PassesAt(m, k, cell, n)
           /\ \E L, X : /\ Sound(L, N, f, m, X) /\ \A p \in X : cell = EntryCell(p, 0)
                        /\ \/ m = m0 /\ X = {}
                           \/ Get(m, cell) = NoBlk /\ ZerosFrom(k, n + 1)
  BY DEF OnSound
<1> DEFINE q == n + 1
<1> HIDE DEF q
<1>3. CASE a = Stuck(m, cell)
  <2>1. Descend(a, e) = Stuck(m, cell)
    BY <1>3, DescendIs
  <2> HIDE DEF e
  <2>2. OnSound(N, f, m0, k, q, Stuck(m, cell))
    BY DEF OnSound
  <2> QED BY <2>1, <2>2 DEF e, q
<1>4. CASE a = Going(m, cell) /\ a # Stuck(m, cell)
  <2>1. /\ m \in Memory /\ PassesAt(m, k, cell, n)
        /\ \E L, X : /\ Sound(L, N, f, m, X) /\ \A p \in X : cell = EntryCell(p, 0)
                     /\ \/ m = m0 /\ X = {}
                        \/ Get(m, cell) = NoBlk /\ ZerosFrom(k, n + 1)
    BY <1>2, <1>4
  <2>2. PICK L, X : /\ Sound(L, N, f, m, X) /\ \A p \in X : cell = EntryCell(p, 0)
                    /\ \/ m = m0 /\ X = {}
                       \/ Get(m, cell) = NoBlk /\ ZerosFrom(k, n + 1)
    BY <2>1
  <2>3. Live(m, k, n) /\ CellOn(m, k, n) = cell
    BY <2>1 DEF PassesAt
  <2>4. IsCell(L, f, cell, h) /\ Get(m, cell) = Way(m, k)[n]
    BY <1>1, <2>1, <2>2, <2>3, WayPlace DEF Sound
  <2>5. CASE Get(m, cell) # NoBlk
    <3> DEFINE d == EntryCell(Get(m, cell), e)
    <3>1. Descend(a, e) = Going(m, d)
      BY <1>4, <2>5, DescendIs
    <3>2. PassesAt(m, k, d, q)
      BY <2>1, <2>5, PassOn DEF q
    <3>3. m = m0 /\ Sound(L, N, f, m, {})
      BY <2>2, <2>5
    <3> HIDE DEF d, e
    <3>4. OnSound(N, f, m0, k, q, Going(m, d))
      <4>1. \E M, X2 : /\ Sound(M, N, f, m, X2) /\ \A p \in X2 : d = EntryCell(p, 0)
                       /\ \/ m = m0 /\ X2 = {}
                          \/ Get(m, d) = NoBlk /\ ZerosFrom(k, q + 1)
        <5>1. \A p \in {} : d = EntryCell(p, 0)
          OBVIOUS
        <5> QED BY <3>3, <5>1
      <4> QED BY <2>1, <3>2, <4>1 DEF OnSound
    <3> QED BY <3>1, <3>4 DEF e, q
  <2>6. CASE Get(m, cell) = NoBlk /\ m.free = <<>>
    <3>1. Descend(a, e) = Stuck(m, cell)
      BY <1>4, <2>6, DescendIs
    <3> HIDE DEF e
    <3>2. OnSound(N, f, m0, k, q, Stuck(m, cell))
      BY DEF OnSound
    <3> QED BY <3>1, <3>2 DEF e, q
  <2>7. CASE Get(m, cell) = NoBlk /\ m.free # <<>>
    <3> DEFINE z == Filled(m, cell, IndexUse)
               b == Head(m.free)
               d == EntryCell(b, e)
               M == With(L, b, Tag(f, cell, h))
    <3>1. ZerosFrom(k, n + 1)
      <4>1. CASE m = m0
        <5>1. Way(m0, k)[n] = NoBlk
          BY <2>4, <2>7, <4>1
        <5> QED BY <1>1, <5>1, FirstMissing DEF ZerosFrom
      <4> QED BY <2>2, <4>1
    <3>2. e = 0 /\ ZerosFrom(k, n + 2)
      BY <1>1, <3>1 DEF ZerosFrom
    <3>3. z \in Memory /\ Get(z, cell) # NoBlk /\ PassesAt(z, k, cell, n)
      BY <2>1, <2>2, <2>7, IndexMaps DEF Sound
    <3>4. b \in Block /\ Get(z, cell) = b
      <4>1. /\ Get(m, cell) = NoBlk \/ (\E p, x : cell = EntryCell(p, x))
            /\ h = 0 \/ IndexUse = IndexUse
        BY <2>7
      <4>2. Forest(L, N, f, m)
        BY <2>2 DEF Sound
      <4> HIDE DEF h
      <4>3. LET y == Stored(m, cell, b, b, NewEntries(b, IndexUse), Tail(m.free))
            IN  b \in Block /\ Get(y, cell) = b
        BY <1>1, <2>1, <2>4, <2>7, <4>1, <4>2, FillKeeps
      <4> QED BY <4>3 DEF Filled
    <3>5. Sound(M, N, f, z, {b})
      <4> DEFINE Y == {b}
      <4>1. Head(m.free) \in Y /\ \A p \in X : p \in Y \/ cell = EntryCell(p, 0)
        BY <2>2
      <4>2. (h = 0 \/ IndexUse = IndexUse) /\ (h = 0 \/ Head(m.free) \in Y)
        BY <4>1
      <4> HIDE DEF h, Y
      <4>3. LET c == Head(m.free)
            IN  Sound(With(L, c, Tag(f, cell, h)), N, f,
                      Stored(m, cell, c, c, NewEntries(c, IndexUse), Tail(m.free)), Y)
        BY <1>1, <2>1, <2>2, <2>4, <2>7, <4>1, <4>2, FillSound
      <4> QED BY <4>3 DEF Filled, Y
    <3>6. Descend(a, e) = Going(z, d)
      BY <1>4, <2>7, <3>4, DescendIs DEF Filled
    <3>7. PassesAt(z, k, d, q)
      <4>1. PassesAt(z, k, EntryCell(Get(z, cell), e), q)
        <5> HIDE DEF z
        <5> QED BY <3>3, PassOn DEF q
      <4> QED BY <3>4, <4>1
    <3>8. Get(z, d) = NoBlk
      <4>1. z.index[b][e] = NewEntries(b, IndexUse)[e]
        <5>1. cell \in Cell
          BY <2>4, IsCellType
        <5>2. NewEntries(b, IndexUse) \in [Entry -> Id]
          BY <3>4, NewEntriesType
        <5>3. Tail(m.free) \in Seq(Block) /\ b \in Id
          BY <2>1, <2>7, <3>4, MemoryFields, TailFree DEF Id
        <5> DEFINE entries == NewEntries(b, IndexUse)
                   rest == Tail(m.free)
        <5>4. z = Stored(m, cell, b, b, entries, rest)
          BY DEF Filled
        <5>5. entries \in [Entry -> Id] /\ rest \in Seq(Block)
          BY <5>2, <5>3
        <5> HIDE DEF b, entries, rest, z
        <5>6. b \in Block /\ b \in Id
          BY <3>4, <5>3
        <5>7. Stored(m, cell, b, b, entries, rest).index[b] = entries
          BY <2>1, <5>1, <5>5, <5>6, StoredFields
        <5>8. z.index[b] = entries
          BY <5>4, <5>7
        <5> QED BY <5>8 DEF entries
      <4>2. e \in Entry
        BY <3>2, ZeroEntry
      <4> HIDE DEF e
      <4>3. NewEntries(b, IndexUse)[e] = NoBlk
        BY <4>2 DEF NewEntries, BlankIndex
      <4> QED BY <4>1, <4>3, GetIs
    <3> HIDE DEF z, M
    <3>9. /\ \A p \in {b} : d = EntryCell(p, 0)
          /\ ZerosFrom(k, q + 1)
      <4>1. q + 1 = n + 2
        BY <1>1 DEF q
      <4> QED BY <3>2, <4>1
    <3> HIDE DEF d
    <3>10. OnSound(N, f, m0, k, q, Going(z, d))
      <4>1. \E Q, X2 : /\ Sound(Q, N, f, z, X2) /\ \A p \in X2 : d = EntryCell(p, 0)
                       /\ \/ z = m0 /\ X2 = {}
                          \/ Get(z, d) = NoBlk /\ ZerosFrom(k, q + 1)
        BY <3>5, <3>8, <3>9
      <4> QED BY <3>3, <3>7, <4>1 DEF OnSound
    <3> QED BY <3>6, <3>10 DEF q
  <2> QED BY <2>5, <2>6, <2>7
<1> QED BY <1>2, <1>3, <1>4

\* balloc's descent loses no block.
LEMMA DescentSound ==
  ASSUME NEW N \in [File -> INodeType], NEW f \in File, NEW m \in Memory, NEW L,
         Sound(L, N, f, m, {}), NEW k \in 0 .. LastFileBlk,
         \A j \in 0 .. LastFileBlk : j < k => Bmap(m, j) # NoBlk
  PROVE  OnSound(N, f, m, k, Len(Route(k).path), Descent(m, k))
<1> DEFINE path == Route(k).path
           last == Len(path)
<1>1. last \in 0 .. 3
  BY RouteType
<1>2. PICK a : IsDescent(a, m, k, last) /\ Descent(m, k) = a[last]
  BY <1>1, DescentIs
<1> DEFINE S == {n \in 0 .. last : OnSound(N, f, m, k, n, a[n])}
<1>3. 0 \in S
  <2> DEFINE start == Route(k).start
  <2>1. a[0] = Going(m, start)
    BY <1>1, <1>2 DEF IsDescent
  <2>2. PassesAt(m, k, start, 0)
    BY DEF PassesAt, Live, CellOn
  <2> HIDE DEF start
  <2>3. OnSound(N, f, m, k, 0, Going(m, start))
    <3>1. \A p \in {} : start = EntryCell(p, 0)
      OBVIOUS
    <3> QED BY <2>2, <3>1 DEF OnSound
  <2>4. 0 \in 0 .. last
    BY <1>1
  <2> QED BY <2>1, <2>3, <2>4
<1>4. ASSUME NEW n \in 0 .. last - 1, n \in S
      PROVE  n + 1 \in S
  <2>1. a[n + 1] = Descend(a[n], path[n + 1])
    BY <1>1, <1>2 DEF IsDescent
  <2>2. OnSound(N, f, m, k, n, a[n])
    BY <1>4
  <2>3. OnSound(N, f, m, k, n + 1, Descend(a[n], path[n + 1]))
    BY <2>2, DescendSound
  <2>4. n + 1 \in 0 .. last
    BY <1>1
  <2> QED BY <2>1, <2>3, <2>4
<1>5. \A n \in 0 .. last : n \in S
  <2> HIDE DEF S
  <2>1. last \in Nat
    BY <1>1
  <2> QED BY <1>3, <1>4, <2>1, UpTo
<1>6. last \in S
  <2>1. last \in 0 .. last
    BY <1>1
  <2> HIDE DEF S, last
  <2> QED BY <1>5, <2>1
<1> QED BY <1>2, <1>6

\* When it succeeds, balloc of the first file block that is missing loses no block.
LEMMA BallocSound ==
  ASSUME NEW N \in [File -> INodeType], NEW f \in File, NEW m \in Memory, NEW L,
         Sound(L, N, f, m, {}), NEW k \in 0 .. LastFileBlk,
         \A j \in 0 .. LastFileBlk : j < k => Bmap(m, j) # NoBlk, Balloc(m, k).ok
  PROVE  \E M : Sound(M, N, f, Balloc(m, k).m, {})
<1> DEFINE last == Len(Route(k).path)
           a == Descent(m, k)
           z == IF a.ok THEN Fill(a.m, a.cell, DataUse) ELSE a
<1>1. CASE Bmap(m, k) # NoBlk
  <2>1. Balloc(m, k) = [m |-> m, ok |-> TRUE]
    BY <1>1 DEF Balloc
  <2>2. Balloc(m, k).m = m
    BY <2>1
  <2> QED BY <2>2
<1>2. CASE Bmap(m, k) = NoBlk
  <2>1. Balloc(m, k).m = z.m /\ Balloc(m, k).ok = z.ok
    <3>1. Balloc(m, k) = [m |-> z.m, ok |-> z.ok]
      BY <1>2 DEF Balloc, DataUse
    <3>2. [m |-> z.m, ok |-> z.ok].m = z.m /\ [m |-> z.m, ok |-> z.ok].ok = z.ok
      OBVIOUS
    <3> HIDE DEF z
    <3> QED BY Zenon, <3>1, <3>2
  <2>2. OnSound(N, f, m, k, last, a)
    BY DescentSound
  <2> HIDE DEF a, last
  <2>3. PICK n, cell :
          \/ a = Stuck(n, cell)
          \/ /\ a = Going(n, cell) /\ n \in Memory /\ PassesAt(n, k, cell, last)
             /\ \E Q, X : /\ Sound(Q, N, f, n, X) /\ \A p \in X : cell = EntryCell(p, 0)
                          /\ \/ n = m /\ X = {}
                             \/ Get(n, cell) = NoBlk /\ ZerosFrom(k, last + 1)
    BY <2>2 DEF OnSound
  <2>4. a # Stuck(n, cell)
    <3> SUFFICES ASSUME a = Stuck(n, cell) PROVE FALSE
      OBVIOUS
    <3>1. ~a.ok
      BY GoingFields
    <3>2. z = a
      BY <3>1
    <3> QED BY <2>1, <3>1, <3>2
  <2>5. PICK Q, X : /\ Sound(Q, N, f, n, X) /\ \A p \in X : cell = EntryCell(p, 0)
                    /\ \/ n = m /\ X = {}
                       \/ Get(n, cell) = NoBlk /\ ZerosFrom(k, last + 1)
    BY <2>3, <2>4
  <2>6. a = Going(n, cell) /\ n \in Memory /\ PassesAt(n, k, cell, last)
    BY <2>3, <2>4
  <2>7. a.ok /\ a.m = n /\ a.cell = cell
    BY <2>6, GoingFields
  <2>8. z = Fill(n, cell, DataUse)
    BY <2>7
  <2>9. n.free # <<>>
    <3> SUFFICES ASSUME n.free = <<>> PROVE FALSE
      OBVIOUS
    <3>1. z = Stuck(n, cell)
      BY <2>8, FillIs
    <3> HIDE DEF z
    <3> QED BY <2>1, <3>1, GoingFields
  <2>10. last \in 0 .. Len(Route(k).path) /\ Len(Route(k).path) - last = 0
    BY RouteType DEF last
  <2>11. IsCell(Q, f, cell, 0) /\ Get(n, cell) = Way(n, k)[last]
    <3>1. Live(n, k, last) /\ CellOn(n, k, last) = cell /\ Forest(Q, N, f, n)
      BY <2>5, <2>6 DEF PassesAt, Sound
    <3> QED BY <2>6, <2>10, <3>1, WayPlace
  <2>12. Get(n, cell) = NoBlk
    <3>1. CASE n = m
      <4>1. Bmap(m, k) = Way(m, k)[last]
        BY BmapIs DEF last
      <4> QED BY <1>2, <2>11, <3>1, <4>1
    <3> QED BY <2>5, <3>1
  <2> DEFINE y == Filled(n, cell, DataUse)
             h == 0
             Y == {}
             use == DataUse
  <2>13. \E M : Sound(M, N, f, y, {})
    <3>1. /\ h \in 0 .. 3 /\ (h = 0 \/ use = IndexUse) /\ (h = 0 \/ Head(n.free) \in Y)
          /\ \A p \in X : p \in Y \/ cell = EntryCell(p, 0)
      BY <2>5
    <3>2. IsCell(Q, f, cell, h)
      BY <2>11
    <3> HIDE DEF h, Y, use, y
    <3>3. LET c == Head(n.free)
          IN  Sound(With(Q, c, Tag(f, cell, h)), N, f,
                    Stored(n, cell, c, c, NewEntries(c, use), Tail(n.free)), Y)
      BY <2>5, <2>6, <2>9, <2>12, <3>1, <3>2, FillSound
    <3>4. \E M : Sound(M, N, f, y, Y)
      BY <3>3 DEF Filled, y, use
    <3> QED BY <3>4 DEF Y
  <2>14. Balloc(m, k).m = y
    <3>1. z = Going(y, cell)
      BY <2>8, <2>9, FillIs DEF Filled
    <3> HIDE DEF z, y
    <3> QED BY <2>1, <3>1, GoingFields
  <2> QED BY <2>13, <2>14
<1> QED BY <1>1, <1>2

\* A write that has not given up has a block in each of its places, and in those
\* before, and has lost none.
GrownTo(N, f, z, ok, top) ==
  ok => /\ z \in Memory /\ \E M : Sound(M, N, f, z, {})
        /\ \A j \in 0 .. LastFileBlk : j < top => Bmap(z, j) # NoBlk

\* The next place of a write.
LEMMA GrowStep ==
  ASSUME NEW N \in [File -> INodeType], NEW f \in File, NEW n, NEW ok, ok,
         NEW k \in 0 .. LastFileBlk, GrownTo(N, f, n, ok, k)
  PROVE  GrownTo(N, f, Balloc(n, k).m, Balloc(n, k).ok, k + 1)
<1> DEFINE r == Balloc(n, k).ok
           z == Balloc(n, k).m
<1> SUFFICES ASSUME r PROVE GrownTo(N, f, z, r, k + 1)
  BY DEF GrownTo
<1>1. /\ n \in Memory
      /\ \A j \in 0 .. LastFileBlk : j < k => Bmap(n, j) # NoBlk
  BY DEF GrownTo
<1>2. PICK L : Sound(L, N, f, n, {})
  BY DEF GrownTo
<1>3. \E M : Sound(M, N, f, z, {})
  BY <1>1, <1>2, BallocSound
<1>4. Apart(N, f, n)
  BY <1>1, <1>2 DEF Apart, Sound
<1>5. Apart(N, f, z)
  BY <1>4, BallocKeeps
<1>6. z \in Memory
  BY <1>5 DEF Apart
<1>7. /\ \A g \in File, j \in 0 .. LastFileBlk :
           g # f \/ j # k \/ Maps(N, f, n, g, j) # NoBlk => Alike(N, f, n, z, g, j)
      /\ r => Maps(N, f, z, f, k) # NoBlk
  BY <1>4, BallocMaps
<1> HIDE DEF r, z
<1>8. View(N, f, n, f) = n /\ View(N, f, z, f) = z
  BY <1>1, <1>6, ViewOwn
<1>9. ASSUME NEW j \in 0 .. LastFileBlk, j < k + 1 PROVE Bmap(z, j) # NoBlk
  <2>1. CASE j = k
    BY <1>7, <1>8, <2>1 DEF Maps
  <2>2. CASE j # k
    <3>1. j < k
      BY <1>9, <2>2
    <3>2. Bmap(n, j) # NoBlk
      BY <1>1, <3>1
    <3>3. Alike(N, f, n, z, f, j)
      BY <1>7, <2>2
    <3> QED BY <1>8, <3>2, <3>3 DEF Alike, Maps
  <2> QED BY <2>1, <2>2
<1> QED BY <1>3, <1>6, <1>9 DEF GrownTo

\* A write that starts where there is no hole before and finds the blocks it needs
\* loses none.
LEMMA WriteDataSound ==
  ASSUME NEW N \in [File -> INodeType], NEW f \in File, NEW m \in Memory, NEW L,
         Sound(L, N, f, m, {}),
         NEW off \in Nat, NEW len \in Nat, NBlks(off + len) - 1 <= LastFileBlk,
         \A j \in 0 .. LastFileBlk : j < off \div BlkSize => Bmap(m, j) # NoBlk
  PROVE  LET a == WriteData(m, off, len)
         IN  GrownTo(N, f, a.m, a.ok, NBlks(off + len))
<1> DEFINE count == Count(off, len)
           first == off \div BlkSize
           q     == NBlks(off + len)
<1>1. count \in Nat /\ first \in Nat
  BY CountNat
<1>2. PICK a : IsWriting(a, m, first, count) /\ WriteData(m, off, len) = a[count]
  BY <1>1, WriteDataIs
<1>3. first + count = q /\ q - 1 <= LastFileBlk /\ LastFileBlk \in Int /\ q \in Nat
  <2>1. q \in Nat
    BY NBlksNat
  <2>2. first + count = q
    <3>1. count = q - first
      BY DEF Count
    <3> HIDE DEF first, count, q
    <3> QED BY <1>1, <2>1, <3>1
  <2>3. LastFileBlk \in Int
    BY GeometryAssumption DEF LastFileBlk
  <2> QED BY <2>1, <2>2, <2>3
<1>4. GrownTo(N, f, m, TRUE, first)
  BY DEF GrownTo
<1> HIDE DEF first, count, q
<1> DEFINE S == {i \in 0 .. count : GrownTo(N, f, a[i].m, a[i].ok, first + i)}
<1>5. 0 \in S
  <2>1. a[0] = FirstWrite(m)
    BY <1>1, <1>2 DEF IsWriting
  <2>2. a[0].m = m /\ a[0].ok = TRUE
    BY <2>1 DEF FirstWrite
  <2>3. first + 0 = first /\ 0 \in 0 .. count
    BY <1>1
  <2> QED BY <1>4, <2>2, <2>3
<1>6. ASSUME NEW i \in 0 .. count - 1, i \in S
      PROVE  i + 1 \in S
  <2>1. a[i + 1] = NextWrite(a[i], first, i + 1)
    BY <1>1, <1>2 DEF IsWriting
  <2> DEFINE n == a[i].m
             k == first + (i + 1) - 1
  <2>2. /\ k \in 0 .. LastFileBlk /\ k \in Nat /\ i + 1 \in 0 .. count
        /\ k = first + i /\ k + 1 = first + (i + 1)
    BY <1>1, <1>3
  <2>3. GrownTo(N, f, n, a[i].ok, first + i)
    BY <1>6
  <2> HIDE DEF n, k
  <2>4. CASE a[i].ok
    <3>1. a[i + 1] = Balloc(n, k)
      BY <2>1, <2>4 DEF NextWrite, n, k
    <3>2. GrownTo(N, f, n, a[i].ok, k)
      BY <2>2, <2>3
    <3>3. GrownTo(N, f, Balloc(n, k).m, Balloc(n, k).ok, k + 1)
      BY <2>2, <2>4, <3>2, GrowStep
    <3> QED BY <2>2, <3>1, <3>3
  <2>5. CASE ~a[i].ok
    <3>1. a[i + 1] = a[i]
      BY <2>1, <2>5 DEF NextWrite
    <3>2. GrownTo(N, f, n, a[i].ok, first + (i + 1))
      BY <2>5 DEF GrownTo
    <3> QED BY <2>2, <3>1, <3>2 DEF n
  <2> QED BY <2>4, <2>5
<1>7. \A i \in 0 .. count : i \in S
  <2> HIDE DEF S
  <2> QED BY <1>1, <1>5, <1>6, UpTo
<1>8. GrownTo(N, f, a[count].m, a[count].ok, first + count)
  <2>1. count \in 0 .. count
    BY <1>1
  <2> QED BY <1>7, <2>1
<1> QED BY <1>2, <1>3, <1>8 DEF first, q

-----------------------------------------------------------------------------
(* bfree loses no block.                                                     *)

\* An index block on the way to the last file block is empty once that block is
\* gone: an entry of it would lead to a file block that is not before the last.
LEMMA EntriesGone ==
  ASSUME NEW N \in [File -> INodeType], NEW f \in File, NEW n \in Memory, NEW L, NEW X,
         Forest(L, N, f, n), Rooted(L, n, X), NEW k \in 0 .. LastFileBlk,
         NEW p \in 0 .. Len(Route(k).path) - 1, Live(n, k, p), Way(n, k)[p] # NoBlk,
         ZerosFrom(k, p + 1),
         \A b \in X, h \in 1 .. Len(Route(k).path) - (p + 1) : ~HeldAt(L, b, f, h),
         \A j \in 0 .. LastFileBlk : k <= j => Bmap(n, j) = NoBlk,
         NEW e \in Entry
  PROVE  n.index[Way(n, k)[p]][e] = NoBlk
<1> DEFINE last == Len(Route(k).path)
           b == Way(n, k)[p]
<1>1. last \in 0 .. 3 /\ p \in 0 .. last - 1
  BY RouteType
<1>2. last \in 1 .. 3 /\ p \in 0 .. last /\ p + 1 \in 0 .. last /\ p + 1 \in 1 .. last
      /\ (p + 1) - 1 = p /\ (p + 1) + 1 = p + 2 /\ p \in Int /\ p \in 0 .. p
  <2> HIDE DEF last
  <2> QED BY <1>1
<1> HIDE DEF last
<1> SUFFICES ASSUME n.index[b][e] # NoBlk PROVE FALSE
  OBVIOUS
<1>3. PICK j \in 0 .. LastFileBlk :
        /\ SameRoute(k, j, p) /\ Route(j).path[p + 1] = e
        /\ \A x \in p + 2 .. last : Route(j).path[x] = 0
  BY Branch DEF last
<1>4. k <= j
  BY <1>2, <1>3, RouteLeast DEF ZerosFrom, last
<1>5. Len(Route(j).path) = last
  BY <1>3 DEF SameRoute, last
<1>6. Way(n, j)[p] = b /\ Live(n, j, p)
  BY <1>2, <1>3, WayShared DEF last
<1>7. Live(n, j, p + 1)
  <2> SUFFICES ASSUME NEW i \in 0 .. (p + 1) - 1 PROVE Way(n, j)[i] # NoBlk
    BY DEF Live
  <2>1. i = p \/ i \in 0 .. p - 1
    BY <1>2
  <2> QED BY <1>6, <2>1 DEF Live
<1> HIDE DEF b
<1>8. Way(n, j)[p + 1] # NoBlk
  <2>1. /\ CellOn(n, j, p + 1) = EntryCell(Way(n, j)[(p + 1) - 1], Route(j).path[p + 1])
        /\ Way(n, j)[(p + 1) - 1] # NoBlk => Way(n, j)[p + 1] = Get(n, CellOn(n, j, p + 1))
    BY <1>2, <1>5, WayStep
  <2>2. Way(n, j)[p + 1] = Get(n, EntryCell(b, e))
    BY <1>2, <1>3, <1>6, <2>1 DEF b
  <2> QED BY <2>2, GetIs
<1> DEFINE q == p + 1
<1>9. /\ q \in 0 .. Len(Route(j).path) /\ Live(n, j, q) /\ Way(n, j)[q] # NoBlk
      /\ \A x \in q + 1 .. Len(Route(j).path) : Route(j).path[x] = 0
      /\ \A c \in X, h \in 1 .. Len(Route(j).path) - q : ~HeldAt(L, c, f, h)
  BY <1>2, <1>3, <1>5, <1>7, <1>8 DEF last
<1> HIDE DEF q
<1>10. Bmap(n, j) # NoBlk
  BY <1>9, ZeroWay
<1> QED BY <1>4, <1>10

\* The block whose entry 0 bfree has just released, if it has, after i steps.
Bare(m, k, i) ==
  LET last == Len(Route(k).path)
  IN  {b \in {Way(m, k)[last - i]} : i # 0 /\ i <= last /\ ZerosFrom(k, last - i + 1)}

\* After i steps of bfree no block is lost.
FreedSound(N, f, m, k, n, i) == \E L : Sound(L, N, f, n, Bare(m, k, i))

\* One step of bfree of the last file block loses no block.
LEMMA FreedSoundStep ==
  ASSUME NEW N \in [File -> INodeType], NEW f \in File, NEW m \in Memory,
         NEW k \in 0 .. LastFileBlk, Bmap(m, k) # NoBlk,
         \A j \in 0 .. LastFileBlk : k < j => Bmap(m, j) = NoBlk,
         NEW n, NEW i \in 0 .. Len(Route(k).path), Freed(N, f, m, k, n, i),
         FreedSound(N, f, m, k, n, i)
  PROVE  FreedSound(N, f, m, k, NextFreed(m, k, n, i + 1), i + 1)
<1> DEFINE last == Len(Route(k).path)
           p == last + 1 - (i + 1)
           cell == CellOn(m, k, p)
           z == NextFreed(m, k, n, i + 1)
           zero == \A j \in last + 2 - (i + 1) .. last : Route(k).path[j] = 0
           X == Bare(m, k, i)
           Y == Bare(m, k, i + 1)
<1>1. last \in 0 .. 3
  BY RouteType
<1>2. /\ p = last - i /\ p \in 0 .. last /\ last - (i + 1) = p - 1 /\ i + 1 # 0
      /\ last + 2 - (i + 1) = p + 1 /\ p \in Nat /\ i <= last /\ i \in 0 .. 3
      /\ last - p = i /\ (i # 0 => p \in 0 .. last - 1 /\ last - (p + 1) = i - 1)
      /\ (p # 0 => i + 1 <= last /\ p \in 1 .. last) /\ (p - 1) + 1 = p
      /\ (i + 1 <= last => p # 0)
  <2> HIDE DEF last
  <2>1. i \in 0 .. last
    BY DEF last
  <2> QED BY <1>1, <2>1
<1>3. z = IF zero THEN Release(n, cell) ELSE n
  BY DEF NextFreed
<1> HIDE DEF p
<1>4. zero <=> ZerosFrom(k, p + 1)
  <2>1. zero <=> \A j \in p + 1 .. last : Route(k).path[j] = 0
    BY <1>2
  <2> QED BY <2>1 DEF ZerosFrom
<1>5. /\ X = {b \in {Way(m, k)[p]} : i # 0 /\ ZerosFrom(k, p + 1)}
      /\ Y = {b \in {Way(m, k)[p - 1]} : p # 0 /\ ZerosFrom(k, p)}
  <2> HIDE DEF last, z, zero, cell
  <2>1. X = {b \in {Way(m, k)[last - i]} : i # 0 /\ i <= last /\ ZerosFrom(k, last - i + 1)}
    BY DEF Bare, last
  <2>2. Y = {b \in {Way(m, k)[last - (i + 1)]} :
               i + 1 # 0 /\ i + 1 <= last /\ ZerosFrom(k, last - (i + 1) + 1)}
    BY DEF Bare, last
  <2> HIDE DEF X, Y
  <2>3. last - i = p /\ last - i + 1 = p + 1 /\ last - (i + 1) = p - 1 /\ last - (i + 1) + 1 = p
    BY <1>2
  <2>4. i <= last /\ i + 1 # 0 /\ (i + 1 <= last <=> p # 0)
    BY <1>2
  <2> QED BY <2>1, <2>2, <2>3, <2>4
<1>6. n \in Memory /\ Trimmed(N, f, m, n, k) /\ (i # 0 => Maps(N, f, n, f, k) = NoBlk)
  BY DEF Freed, Apart
<1>7. \A q \in 0 .. p : Way(n, k)[q] = Way(m, k)[q]
  <2>1. \A q \in 0 .. last - i : Way(n, k)[q] = Way(m, k)[q]
    BY DEF Freed
  <2> QED BY <1>2, <2>1
<1>8. PICK L : Sound(L, N, f, n, X)
  BY DEF FreedSound
<1> HIDE DEF X, Y
<1>9. CASE ~zero
  <2>1. z = n
    BY <1>3, <1>9
  <2>2. ~ZerosFrom(k, p + 1) /\ ~ZerosFrom(k, p)
    <3>1. \A x \in p + 1 .. last : x \in p .. last
      BY <1>1, <1>2
    <3> QED BY <1>4, <1>9, <3>1 DEF ZerosFrom
  <2>3. X = {} /\ Y = {}
    BY <1>5, <2>2
  <2> HIDE DEF z
  <2>4. Sound(L, N, f, z, Y)
    BY <1>8, <2>1, <2>3
  <2> QED BY <2>4 DEF FreedSound, z, Y
<1>10. CASE zero
  <2>1. Live(m, k, p) /\ Way(m, k)[p] # NoBlk
    BY <1>2, MappedLive
  <2>2. \A q \in 0 .. p - 1 : Way(n, k)[q] = Way(m, k)[q]
    <3>1. \A q \in 0 .. p - 1 : q \in 0 .. p
      BY <1>2
    <3> QED BY <1>7, <3>1
  <2>3. Live(n, k, p) /\ CellOn(n, k, p) = cell
    <3>1. p \in 0 .. Len(Route(k).path) /\ Live(m, k, p)
      BY <1>2, <2>1
    <3>2. Live(n, k, p) /\ CellOn(n, k, p) = CellOn(m, k, p)
      BY <2>2, <3>1, CellAfter
    <3> QED BY <3>2
  <2>4. \A c : cell = EntryCell(c, 0) => c \in Y
    <3> SUFFICES ASSUME NEW c, cell = EntryCell(c, 0) PROVE c \in Y
      OBVIOUS
    <3>1. p # 0
      <4> SUFFICES ASSUME p = 0 PROVE FALSE
        OBVIOUS
      <4>1. cell = Route(k).start
        BY DEF CellOn
      <4>2. \/ Route(k).start = DirectCell(k)
            \/ Route(k).start = RootCell(Len(Route(k).path))
        BY RouteType
      <4> QED BY <4>1, <4>2, CellsDiffer
    <3>2. cell = EntryCell(Way(m, k)[p - 1], Route(k).path[p])
      BY <3>1 DEF CellOn
    <3>3. c = Way(m, k)[p - 1] /\ Route(k).path[p] = 0
      <4>1. EntryCell(Way(m, k)[p - 1], Route(k).path[p]) = EntryCell(c, 0)
        BY <3>2
      <4> QED BY <4>1, CellsDiffer
    <3>4. ZerosFrom(k, p)
      <4>1. \A x \in p .. last : x = p \/ x \in p + 1 .. last
        BY <1>1, <1>2
      <4> QED BY <1>4, <1>10, <3>3, <4>1 DEF ZerosFrom
    <3> QED BY <1>5, <3>1, <3>3, <3>4
  <2> HIDE DEF cell
  <2>5. IsCell(L, f, cell, i) /\ Get(n, cell) = Way(m, k)[p] /\ Get(n, cell) # NoBlk
    <3>1. Forest(L, N, f, n) /\ p \in 0 .. Len(Route(k).path)
      BY <1>2, <1>8 DEF Sound
    <3>2. IsCell(L, f, CellOn(n, k, p), last - p) /\ Get(n, CellOn(n, k, p)) = Way(n, k)[p]
      BY <1>6, <2>3, <3>1, WayPlace
    <3>3. Way(n, k)[p] = Way(m, k)[p]
      BY <1>2, <1>7
    <3> QED BY <1>2, <2>1, <2>3, <3>2, <3>3
  <2> DEFINE b == Get(n, cell)
  <2>6. L[b] = Tag(f, cell, i)
    <3>1. Forest(L, N, f, n) /\ i \in 0 .. 3 /\ Get(n, cell) # NoBlk
      BY <1>2, <1>8, <2>5 DEF Sound
    <3>2. Get(n, cell) \in Block /\ L[Get(n, cell)] = Tag(f, cell, i)
      BY <1>6, <2>5, <3>1, HeldHere
    <3> QED BY <3>2
  <2>7. i = 0 \/ \A e \in Entry : n.index[b][e] = NoBlk
    <3> SUFFICES ASSUME i # 0, NEW e \in Entry PROVE n.index[b][e] = NoBlk
      OBVIOUS
    <3>1. \A c \in X, h \in 1 .. Len(Route(k).path) - (p + 1) : ~HeldAt(L, c, f, h)
      <4> SUFFICES ASSUME NEW c \in X, NEW h \in 1 .. last - (p + 1), HeldAt(L, c, f, h)
                   PROVE  FALSE
        OBVIOUS
      <4>1. c = b
        BY <1>5, <2>5
      <4>2. PICK x : L[b] = Tag(f, x, h)
        BY <4>1 DEF HeldAt
      <4>3. Tag(f, cell, i) = Tag(f, x, h)
        BY <2>6, <4>2
      <4>4. h = i
        BY <4>3, Tags
      <4>5. h \in 1 .. i - 1
        BY <1>2
      <4> QED BY <1>2, <4>4, <4>5
    <3>2. \A j \in 0 .. LastFileBlk : k <= j => Bmap(n, j) = NoBlk
      <4> SUFFICES ASSUME NEW j \in 0 .. LastFileBlk, k <= j PROVE Bmap(n, j) = NoBlk
        OBVIOUS
      <4>1. View(N, f, n, f) = n /\ View(N, f, m, f) = m
        BY <1>6, ViewOwn
      <4>2. CASE j = k
        BY <1>6, <4>1, <4>2 DEF Maps
      <4>3. CASE j # k
        <5>1. k < j
          BY <4>3
        <5>2. Bmap(m, j) = NoBlk
          BY <5>1
        <5>3. Alike(N, f, m, n, f, j) \/ Maps(N, f, n, f, j) = NoBlk
          BY <1>6 DEF Trimmed
        <5> QED BY <4>1, <5>2, <5>3 DEF Alike, Maps
      <4> QED BY <4>2, <4>3
    <3>3. /\ Forest(L, N, f, n) /\ Rooted(L, n, X) /\ p \in 0 .. Len(Route(k).path) - 1
          /\ ZerosFrom(k, p + 1) /\ Way(n, k)[p] = b /\ Way(n, k)[p] # NoBlk
      <4>1. Way(n, k)[p] = Way(m, k)[p]
        BY <1>2, <1>7
      <4> QED BY <1>2, <1>4, <1>8, <1>10, <2>5, <4>1 DEF Sound
    <3> HIDE DEF b
    <3>4. n.index[Way(n, k)[p]][e] = NoBlk
      BY <1>6, <2>3, <3>1, <3>2, <3>3, EntriesGone
    <3> QED BY <3>3, <3>4
  <2>8. \A c \in X : c \in Y \/ c = Get(n, cell)
    BY <1>5, <2>5
  <2>9. z = Release(n, cell)
    BY <1>3, <1>10 DEF cell
  <2> HIDE DEF z
  <2>10. \E M : Sound(M, N, f, Release(n, cell), Y)
    <3>1. i \in 0 .. 3 /\ Get(n, cell) # NoBlk
          /\ (i = 0 \/ \A e \in Entry : n.index[Get(n, cell)][e] = NoBlk)
      BY <1>2, <2>5, <2>7
    <3> HIDE DEF b
    <3> QED BY <1>6, <1>8, <2>4, <2>5, <2>8, <3>1, ReleaseSound
  <2> QED BY <2>9, <2>10 DEF FreedSound, z, Y
<1> QED BY <1>9, <1>10

\* bfree of the last file block loses no block.
LEMMA BfreeSound ==
  ASSUME NEW N \in [File -> INodeType], NEW f \in File, NEW m \in Memory, NEW L,
         Sound(L, N, f, m, {}), NEW k \in Nat,
         \A j \in 0 .. LastFileBlk : k < j => Bmap(m, j) = NoBlk
  PROVE  \E M : Sound(M, N, f, Bfree(m, k), {})
<1> DEFINE last == Len(Route(k).path)
<1>1. Apart(N, f, m)
  BY DEF Apart, Sound
<1>2. CASE Bmap(m, k) = NoBlk
  <2>1. Bfree(m, k) = m
    BY <1>2 DEF Bfree
  <2> QED BY <2>1
<1>3. CASE Bmap(m, k) # NoBlk
  <2>1. k \in 0 .. LastFileBlk
    <3>1. ~(k > LastFileBlk)
      BY <1>3 DEF Bmap
    <3>2. LastFileBlk \in Int
      BY GeometryAssumption DEF LastFileBlk
    <3> QED BY <3>1, <3>2
  <2>2. last \in 0 .. 3
    BY <2>1, RouteType
  <2>3. PICK n : IsFreeing(n, m, k, last + 1) /\ Bfree(m, k) = n[last + 1]
    BY <1>3, <2>2, BfreeIs
  <2> DEFINE S == {i \in 0 .. last + 1 : Freed(N, f, m, k, n[i], i)
                                         /\ FreedSound(N, f, m, k, n[i], i)}
  <2>4. 0 \in S
    <3>1. n[0] = m
      BY <2>2, <2>3 DEF IsFreeing
    <3>2. Freed(N, f, m, k, m, 0)
      BY <1>1, TrimmedSelf DEF Freed
    <3>3. 0 \in 0 .. last + 1
      BY <2>2
    <3>4. FreedSound(N, f, m, k, m, 0)
      <4>1. Bare(m, k, 0) = {}
        BY DEF Bare
      <4> QED BY <4>1 DEF FreedSound
    <3> QED BY <3>1, <3>2, <3>3, <3>4
  <2>5. ASSUME NEW i \in 0 .. (last + 1) - 1, i \in S
        PROVE  i + 1 \in S
    <3>1. i \in 0 .. last /\ i + 1 \in 0 .. last + 1 /\ i + 1 # 0 /\ (i + 1) - 1 = i
      <4> HIDE DEF last
      <4> QED BY <2>2
    <3>2. n[i + 1] = NextFreed(m, k, n[i], i + 1)
      <4> HIDE DEF last
      <4> QED BY <2>3, <3>1 DEF IsFreeing
    <3>3. Freed(N, f, m, k, n[i], i) /\ FreedSound(N, f, m, k, n[i], i)
      BY <2>5
    <3>4. Freed(N, f, m, k, n[i + 1], i + 1)
      BY <1>3, <2>1, <3>1, <3>2, <3>3, FreedStep
    <3>5. FreedSound(N, f, m, k, n[i + 1], i + 1)
      BY <1>3, <2>1, <3>1, <3>2, <3>3, FreedSoundStep
    <3> QED BY <3>1, <3>4, <3>5
  <2>6. \A i \in 0 .. last + 1 : i \in S
    <3>1. last + 1 \in Nat
      BY <2>2
    <3> DEFINE top == last + 1
    <3> HIDE DEF S, top
    <3>2. \A i \in 0 .. top : i \in S
      BY <2>4, <2>5, <3>1, UpTo DEF top
    <3> QED BY <3>2 DEF top
  <2>7. FreedSound(N, f, m, k, Bfree(m, k), last + 1)
    <3>1. last + 1 \in 0 .. last + 1
      BY <2>2
    <3> QED BY <2>3, <2>6, <3>1
  <2>8. Bare(m, k, last + 1) = {}
    <3>1. ~(last + 1 <= last)
      BY <2>2
    <3> QED BY <3>1 DEF Bare
  <2> QED BY <2>7, <2>8 DEF FreedSound
<1> QED BY <1>2, <1>3

\* Releasing the end of a file loses no block.
LEMMA BfreeDownSound ==
  ASSUME NEW N \in [File -> INodeType], NEW f \in File, NEW m \in Memory, NEW L,
         Sound(L, N, f, m, {}), NEW from \in Int, NEW to \in Nat,
         \A j \in 0 .. LastFileBlk : from < j => Bmap(m, j) = NoBlk
  PROVE  /\ Apart(N, f, BfreeDown(m, from, to))
         /\ \E M : Sound(M, N, f, BfreeDown(m, from, to), {})
<1>1. Apart(N, f, m)
  BY DEF Apart, Sound
<1>2. CASE from < to
  <2>1. BfreeDown(m, from, to) = m
    BY <1>2 DEF BfreeDown
  <2> QED BY <1>1, <2>1
<1>3. CASE ~(from < to)
  <2> DEFINE top == from - to + 1
  <2>1. PICK n : IsTrim(n, m, from, top) /\ BfreeDown(m, from, to) = n[top]
    BY <1>3, BfreeDownIs
  <2>2. top \in Nat /\ from + 1 - top = to
    BY <1>3
  <2> HIDE DEF top
  <2> DEFINE S == {i \in 0 .. top :
                     /\ Apart(N, f, n[i]) /\ \E M : Sound(M, N, f, n[i], {})
                     /\ \A j \in 0 .. LastFileBlk : from - i < j => Bmap(n[i], j) = NoBlk}
  <2>3. 0 \in S
    <3>1. n[0] = m
      BY <2>1, <2>2 DEF IsTrim
    <3>2. 0 \in 0 .. top /\ from - 0 = from
      BY <2>2
    <3> QED BY <1>1, <3>1, <3>2
  <2>4. ASSUME NEW i \in 0 .. top - 1, i \in S
        PROVE  i + 1 \in S
    <3> DEFINE k == from + 1 - (i + 1)
    <3>1. n[i + 1] = Bfree(n[i], k)
      BY <2>1, <2>2 DEF IsTrim
    <3>2. k \in Nat /\ k = from - i /\ k - 1 = from - (i + 1) /\ i + 1 \in 0 .. top
      BY <2>2
    <3>3. /\ Apart(N, f, n[i]) /\ \E M : Sound(M, N, f, n[i], {})
          /\ \A j \in 0 .. LastFileBlk : k < j => Bmap(n[i], j) = NoBlk
      BY <2>4, <3>2
    <3> HIDE DEF k
    <3>4. Apart(N, f, n[i + 1])
      BY <3>1, <3>2, <3>3, BfreeKeeps
    <3>5. /\ Trimmed(N, f, n[i], n[i + 1], k)
          /\ k <= LastFileBlk => Maps(N, f, n[i + 1], f, k) = NoBlk
      BY <3>1, <3>2, <3>3, BfreeMaps
    <3>6. n[i] \in Memory /\ n[i + 1] \in Memory
      BY <3>3, <3>4 DEF Apart
    <3>7. \E M : Sound(M, N, f, n[i + 1], {})
      BY <3>1, <3>2, <3>3, <3>6, BfreeSound
    <3>8. View(N, f, n[i], f) = n[i] /\ View(N, f, n[i + 1], f) = n[i + 1]
      BY <3>6, ViewOwn
    <3>9. ASSUME NEW j \in 0 .. LastFileBlk, k - 1 < j
          PROVE  Bmap(n[i + 1], j) = NoBlk
      <4>1. CASE j = k
        <5>1. k <= LastFileBlk
          BY <4>1
        <5> QED BY <3>5, <3>8, <4>1, <5>1 DEF Maps
      <4>2. CASE j # k
        <5>1. k < j
          BY <3>2, <3>9, <4>2
        <5>2. Bmap(n[i], j) = NoBlk
          BY <3>3, <5>1
        <5>3. Alike(N, f, n[i], n[i + 1], f, j) \/ Maps(N, f, n[i + 1], f, j) = NoBlk
          BY <3>5 DEF Trimmed
        <5> QED BY <3>8, <5>2, <5>3 DEF Alike, Maps
      <4> QED BY <4>1, <4>2
    <3>10. \A j \in 0 .. LastFileBlk : from - (i + 1) < j => Bmap(n[i + 1], j) = NoBlk
      BY <3>2, <3>9
    <3> QED BY <3>2, <3>4, <3>7, <3>10
  <2>5. \A i \in 0 .. top : i \in S
    <3> HIDE DEF S
    <3> QED BY <2>2, <2>3, <2>4, UpTo
  <2>6. Apart(N, f, n[top]) /\ \E M : Sound(M, N, f, n[top], {})
    <3>1. top \in 0 .. top
      BY <2>2
    <3> QED BY <2>5, <3>1
  <2> QED BY <2>1, <2>6
<1> QED BY <1>2, <1>3

\* A file without blocks has an empty inode.
LEMMA NothingLeft ==
  ASSUME NEW N \in [File -> INodeType], NEW f \in File, NEW m \in Memory, NEW L,
         Sound(L, N, f, m, {}), \A j \in 0 .. LastFileBlk : Bmap(m, j) = NoBlk
  PROVE  /\ \A k \in 0 .. NDirect - 1 : m.inode.direct[k] = NoBlk
         /\ \A level \in 1 .. 3 : m.inode.indirect[level] = NoBlk
<1>1. ASSUME NEW k \in 0 .. NDirect - 1 PROVE m.inode.direct[k] = NoBlk
  <2>1. k \in 0 .. LastFileBlk
    <3>1. /\ NDirect \in Nat /\ Entries \in Nat /\ Entries * Entries \in Nat
          /\ Entries * Entries * Entries \in Nat
      BY GeometryAssumption
    <3> DEFINE E2 == Entries * Entries
               E3 == Entries * Entries * Entries
    <3>2. LastFileBlk = NDirect + Entries + E2 + E3 - 1
      BY DEF LastFileBlk
    <3> HIDE DEF E2, E3
    <3>3. E2 \in Nat /\ E3 \in Nat
      BY <3>1 DEF E2, E3
    <3> QED BY <3>1, <3>2, <3>3
  <2>2. k - NDirect < 0
    BY GeometryAssumption
  <2>3. Route(k) = [start |-> DirectCell(k), path |-> <<>>]
    BY <2>2 DEF Route
  <2>4. Route(k).start = DirectCell(k) /\ Len(Route(k).path) = 0
    BY <2>3
  <2>5. Bmap(m, k) = Get(m, DirectCell(k))
    BY <2>1, <2>4, BmapIs, WayStep
  <2> QED BY <2>1, <2>5, GetIs
<1>2. ASSUME NEW level \in 1 .. 3 PROVE m.inode.indirect[level] = NoBlk
  <2>1. PICK j \in 0 .. LastFileBlk :
          /\ Len(Route(j).path) = level
          /\ \A i \in 1 .. level : Route(j).path[i] = Digit(0, 0, 0, i)
    BY ZeroEntry, RouteTo
  <2>2. Route(j).start = RootCell(level)
    BY <2>1, RouteType
  <2>3. Way(m, j)[0] = m.inode.indirect[level]
    BY <2>1, <2>2, WayStep, GetIs
  <2> SUFFICES ASSUME m.inode.indirect[level] # NoBlk PROVE FALSE
    OBVIOUS
  <2> DEFINE q == 0
  <2>4. /\ q \in 0 .. Len(Route(j).path) /\ Way(m, j)[q] # NoBlk /\ Live(m, j, q)
        /\ \A x \in q + 1 .. Len(Route(j).path) : Route(j).path[x] = 0
        /\ \A p \in {}, h \in 1 .. Len(Route(j).path) - q : ~HeldAt(L, p, f, h)
    <3>1. \A i \in 1 .. level : Route(j).path[i] = 0
      BY <2>1 DEF Digit
    <3>2. q + 1 = 1 /\ q \in 0 .. level /\ \A i : i \notin 0 .. q - 1
      OBVIOUS
    <3> QED BY <2>1, <2>3, <3>1, <3>2 DEF Live
  <2> HIDE DEF q
  <2>5. Forest(L, N, f, m) /\ Rooted(L, m, {})
    BY DEF Sound
  <2>6. Bmap(m, j) # NoBlk
    BY <2>4, <2>5, ZeroWay
  <2> QED BY <2>6
<1> QED BY <1>1, <1>2

-----------------------------------------------------------------------------
(* No call loses a block.                                                    *)

\* Two inodes with the same cells, read for two files: what is seen is the same.
LEMMA SeenSame ==
  ASSUME NEW N \in [File -> INodeType], NEW N2 \in [File -> INodeType],
         NEW f \in File, NEW g \in File, NEW m \in Memory, NEW z \in Memory,
         z.index = m.index, NEW e \in File, NEW d \in Cell,
         Under(With(N2, g, z.inode)[e], With(N, f, m.inode)[e]),
         Under(With(N, f, m.inode)[e], With(N2, g, z.inode)[e])
  PROVE  Seen(N2, g, z, e, d) = Seen(N, f, m, e, d)
<1> DEFINE i == With(N, f, m.inode)[e]
           j == With(N2, g, z.inode)[e]
           new == Seen(N2, g, z, e, d)
           old == Seen(N, f, m, e, d)
<1>1. new = ValueIn(z, j, d) /\ old = ValueIn(m, i, d) /\ Under(j, i) /\ Under(i, j)
  BY DEF Seen
<1> HIDE DEF i, j, new, old
<1>2. CASE \E k \in 0 .. NDirect - 1 : d = DirectCell(k)
  <2>1. PICK k \in 0 .. NDirect - 1 : d = DirectCell(k)
    BY <1>2
  <2>2. new = j.direct[k] /\ old = i.direct[k]
    BY <1>1, <2>1, ValueIs
  <2> QED BY <1>1, <2>2 DEF Under, new, old
<1>3. CASE \E k \in 1 .. 3 : d = RootCell(k)
  <2>1. PICK k \in 1 .. 3 : d = RootCell(k)
    BY <1>3
  <2>2. new = j.indirect[k] /\ old = i.indirect[k]
    BY <1>1, <2>1, ValueIs
  <2> QED BY <1>1, <2>2 DEF Under, new, old
<1>4. CASE \E p \in Block, k \in Entry : d = EntryCell(p, k)
  <2>1. PICK p \in Block, k \in Entry : d = EntryCell(p, k)
    BY <1>4
  <2>2. ValueIn(z, j, EntryCell(p, k)) = z.index[p][k]
    BY ValueIs
  <2>3. ValueIn(m, i, EntryCell(p, k)) = m.index[p][k]
    BY ValueIs
  <2> QED BY <1>1, <2>1, <2>2, <2>3 DEF new, old
<1> QED BY <1>2, <1>3, <1>4, CellKinds

\* No block is lost, whichever file is looked at.
AllSound(L, N, fr, ix) == \A f \in File : Sound(L, N, f, MemoryOf(fr, ix, N[f]), {})

\* From one file's point of view to every file's, when its inode changes to i, with
\* the same cells.
LEMMA SoundTurned ==
  ASSUME NEW N \in [File -> INodeType], NEW f \in File, NEW z \in Memory, NEW L,
         Sound(L, N, f, z, {}),
         NEW i \in INodeType, Under(i, z.inode), Under(z.inode, i)
  PROVE  AllSound(L, With(N, f, i), z.free, z.index)
<1> DEFINE N2 == With(N, f, i)
<1>1. Forest(L, N, f, z) /\ Owned(L, N, f, z) /\ Rooted(L, z, {})
  BY DEF Sound
<1>2. z.free \in Seq(Block) /\ z.index \in IndexType
  BY MemoryFields
<1>3. N2 \in [File -> INodeType] /\ N2[f] = i /\ \A e \in File \ {f} : N2[e] = N[e]
  BY DEF With
<1> HIDE DEF N2
<1>4. ASSUME NEW g \in File
      PROVE  Sound(L, N2, g, MemoryOf(z.free, z.index, N2[g]), {})
  <2> DEFINE y == MemoryOf(z.free, z.index, N2[g])
  <2>1. N2[g] \in INodeType
    BY <1>3
  <2>2. y \in Memory /\ y.free = z.free /\ y.index = z.index /\ y.inode = N2[g]
    BY <1>2, <2>1, MemoryOfFields
  <2> HIDE DEF y
  <2>3. ASSUME NEW e \in File
        PROVE  /\ Under(With(N2, g, y.inode)[e], With(N, f, z.inode)[e])
               /\ Under(With(N, f, z.inode)[e], With(N2, g, y.inode)[e])
    <3>1. With(N2, g, y.inode)[e] = N2[e]
      BY <1>3, <2>2 DEF With
    <3>2. With(N, f, z.inode)[e] = IF e = f THEN z.inode ELSE N[e]
      BY DEF With
    <3>3. CASE e = f
      <4>1. With(N, f, z.inode)[e] = z.inode /\ N2[e] = i
        BY <1>3, <3>2, <3>3
      <4> QED BY <3>1, <4>1
    <3>4. CASE e # f
      <4>1. With(N, f, z.inode)[e] = N[e] /\ N2[e] = N[e]
        BY <1>3, <3>2, <3>4
      <4> QED BY <3>1, <4>1, UnderSelf
    <3> QED BY <3>3, <3>4
  <2>4. Forest(L, N2, g, y)
    BY <1>1, <1>3, <2>2, <2>3, Lessened
  <2>5. ASSUME NEW e \in File, NEW d \in Cell
        PROVE  Seen(N2, g, y, e, d) = Seen(N, f, z, e, d)
    <3>1. /\ Under(With(N2, g, y.inode)[e], With(N, f, z.inode)[e])
          /\ Under(With(N, f, z.inode)[e], With(N2, g, y.inode)[e])
      BY <2>3
    <3> QED BY <1>3, <2>2, <3>1, SeenSame
  <2>6. Owned(L, N2, g, y)
    BY <1>1, <2>2, <2>5 DEF Owned
  <2>7. Rooted(L, y, {})
    BY <1>1, <2>2 DEF Rooted
  <2>8. Sound(L, N2, g, y, {})
    BY <2>4, <2>6, <2>7 DEF Sound
  <2> QED BY <2>8 DEF y
<1> QED BY <1>4 DEF AllSound, N2

\* As long as no file was given a hole and no write failed, no block is lost.
Kept ==
  ~holed /\ ~failed =>
    /\ \E L : AllSound(L, inode, free, index)
    /\ File # {} \/ ToSet(free) = Block

\* What NoLeak rests on.
NInv == MInv /\ Kept

\* The invariant, seen by a call on f.
LEMMA CoreSound ==
  ASSUME NInv, ~holed, ~failed, NEW f \in File
  PROVE  /\ IInv /\ Synced /\ inode \in [File -> INodeType] /\ CoreOf(f) \in Memory
         /\ \E L : Sound(L, inode, f, CoreOf(f), {})
         /\ \A k \in 0 .. LastFileBlk :
              Bmap(CoreOf(f), k) # NoBlk <=> k < NBlks(inode[f].filesize)
<1>1. IInv /\ Synced /\ SizeCoversBlocks
  BY DEF NInv, MInv
<1>2. inode \in [File -> INodeType] /\ CoreOf(f) \in Memory
  BY <1>1, CoreApart DEF IInv, Types, Apart
<1>3. PICK L : AllSound(L, inode, free, index)
  BY DEF NInv, Kept
<1>4. CoreOf(f) = MemoryOf(free, index, inode[f])
  BY DEF CoreOf, MemoryOf
<1>5. Sound(L, inode, f, CoreOf(f), {})
  BY <1>3, <1>4 DEF AllSound
<1>6. \A k \in 0 .. LastFileBlk : FileBlk(f, k) # NoBlk <=> k < NBlks(inode[f].filesize)
  BY <1>1 DEF SizeCoversBlocks
<1> QED BY <1>1, <1>2, <1>5, <1>6 DEF FileBlk

\* A call on f that leaves z, with i for the inode.
LEMMA CallSound ==
  ASSUME IInv, NEW f \in File, NEW z \in Memory, NEW L, Sound(L, inode, f, z, {}),
         NEW i \in INodeType, Under(i, z.inode), Under(z.inode, i),
         free' = z.free, index' = z.index, inode' = [inode EXCEPT ![f] = i]
  PROVE  AllSound(L, inode', free', index')
<1>1. inode \in [File -> INodeType]
  BY DEF IInv, Types
<1>2. AllSound(L, With(inode, f, i), z.free, z.index)
  BY <1>1, SoundTurned
<1>3. inode' = With(inode, f, i)
  BY DEF With
<1> QED BY <1>2, <1>3

\* l2_write loses no block.
LEMMA WriteSound ==
  ASSUME NInv, NEW f \in File, NEW off \in Nat, NEW len \in Nat, Write(f, off, len),
         ~holed', ~failed'
  PROVE  \E L : AllSound(L, inode', free', index')
<1> DEFINE a    == WriteData(CoreOf(f), off, len)
           end  == off + len
           size == inode[f].filesize
           y    == IF end > a.m.inode.filesize
                     THEN [a.m EXCEPT !.inode.filesize = end] ELSE a.m
           first == off \div BlkSize
<1>1. a.ok
  <2> SUFFICES ASSUME ~a.ok PROVE FALSE
    OBVIOUS
  <2>1. failed' = TRUE
    BY DEF Write
  <2> QED BY <2>1
<1>2. /\ Apply(f, y) /\ failed' = failed /\ NBlks(end) - 1 <= LastFileBlk
      /\ holed' = (holed \/ off \div BlkSize > NBlks(inode[f].filesize))
  BY <1>1 DEF Write
<1>3. ~holed /\ ~failed /\ ~(first > NBlks(size))
  BY <1>2
<1>4. /\ IInv /\ Synced /\ inode \in [File -> INodeType] /\ CoreOf(f) \in Memory
      /\ \E L : Sound(L, inode, f, CoreOf(f), {})
      /\ \A k \in 0 .. LastFileBlk :
           Bmap(CoreOf(f), k) # NoBlk <=> k < NBlks(inode[f].filesize)
  BY <1>3, CoreSound
<1>5. first \in Nat /\ NBlks(size) \in Nat /\ end \in Nat
  BY <1>4, SizesNat, CountNat
<1>6. \A j \in 0 .. LastFileBlk : j < first => Bmap(CoreOf(f), j) # NoBlk
  <2> HIDE DEF first
  <2>1. \A j \in 0 .. LastFileBlk : j < first => j < NBlks(size)
    <3> HIDE DEF size
    <3> QED BY <1>3, <1>5
  <2> QED BY <1>4, <2>1
<1>7. GrownTo(inode, f, a.m, a.ok, NBlks(end))
  BY <1>2, <1>4, <1>6, WriteDataSound
<1> HIDE DEF a
<1>8. a.m \in Memory /\ \E L : Sound(L, inode, f, a.m, {})
  BY <1>1, <1>7 DEF GrownTo
<1> DEFINE m == a.m
<1>9. m \in Memory /\ \E L : Sound(L, inode, f, m, {})
  BY <1>8
<1>10. y = IF end > m.inode.filesize THEN [m EXCEPT !.inode.filesize = end] ELSE m
  OBVIOUS
<1> HIDE DEF m, y, end
<1>11. /\ y.free = m.free /\ y.index = m.index /\ y.inode \in INodeType
       /\ Under(y.inode, m.inode) /\ Under(m.inode, y.inode)
  <2>1. LET x == [m EXCEPT !.inode.filesize = end]
        IN  /\ x.free = m.free /\ x.index = m.index /\ x.inode \in INodeType
            /\ Under(x.inode, m.inode) /\ Under(m.inode, x.inode)
    BY <1>5, <1>9, SizedFields
  <2>2. m.inode \in INodeType
    BY <1>9, MemoryFields
  <2>3. CASE end > m.inode.filesize
    BY <1>10, <2>1, <2>3
  <2>4. CASE ~(end > m.inode.filesize)
    <3>1. y = m
      BY <1>10, <2>4
    <3> QED BY <2>2, <3>1, UnderSelf
  <2> QED BY <2>3, <2>4
<1> DEFINE i == y.inode
<1>12. free' = m.free /\ index' = m.index /\ inode' = [inode EXCEPT ![f] = i]
  BY <1>2, <1>11 DEF Apply
<1>13. i \in INodeType /\ Under(i, m.inode) /\ Under(m.inode, i)
  BY <1>11
<1> HIDE DEF i
<1> QED BY <1>4, <1>9, <1>12, <1>13, CallSound

\* l2_truncate loses no block.
LEMMA TruncateSound ==
  ASSUME NInv, NEW f \in File, NEW length \in Nat, Truncate(f, length), ~holed', ~failed'
  PROVE  \E L : AllSound(L, inode', free', index')
<1> DEFINE m    == CoreOf(f)
           size == inode[f].filesize
           last == NBlks(size) - 1
           more == (last * BlkSize - length) \div BlkSize
           cut  == IF length < size /\ NBlks(length) # NBlks(size)
                     THEN BfreeDown(m, last, last - more) ELSE m
           y    == [cut EXCEPT !.inode.filesize = length]
           to   == NBlks(length)
<1>1. Apply(f, y) /\ failed' = failed /\ holed' = (holed \/ NBlks(length) > NBlks(size))
  BY DEF Truncate
<1>2. ~holed /\ ~failed
  BY <1>1
<1>3. /\ IInv /\ Synced /\ inode \in [File -> INodeType] /\ m \in Memory
      /\ \E L : Sound(L, inode, f, m, {})
      /\ \A k \in 0 .. LastFileBlk : Bmap(m, k) # NoBlk <=> k < NBlks(size)
  BY <1>2, CoreSound
<1>4. size \in Nat /\ to \in Nat /\ NBlks(size) \in Nat /\ last \in Int
  BY <1>3, SizesNat, NBlksNat
<1>5. cut \in Memory /\ \E L : Sound(L, inode, f, cut, {})
  <2>1. CASE length < size /\ NBlks(length) # NBlks(size)
    <3>1. last - more = to
      <4> HIDE DEF size
      <4> QED BY <1>4, TruncateTo
    <3>2. cut = BfreeDown(m, last, to)
      BY <2>1, <3>1
    <3>3. \A j \in 0 .. LastFileBlk : last < j => Bmap(m, j) = NoBlk
      <4>1. \A j \in 0 .. LastFileBlk : last < j => ~(j < NBlks(size))
        <5> DEFINE p == NBlks(size)
        <5>1. p \in Nat /\ last = p - 1
          BY <1>4
        <5> HIDE DEF p, last
        <5>2. \A j \in 0 .. LastFileBlk : last < j => ~(j < p)
          BY <5>1
        <5> QED BY <5>2 DEF p
      <4> HIDE DEF last, m, size
      <4> QED BY <1>3, <4>1
    <3> HIDE DEF m, last, to, cut, size
    <3>4. /\ Apart(inode, f, BfreeDown(m, last, to))
          /\ \E M : Sound(M, inode, f, BfreeDown(m, last, to), {})
      BY <1>3, <1>4, <3>3, BfreeDownSound
    <3> QED BY <3>2, <3>4 DEF Apart
  <2>2. CASE ~(length < size /\ NBlks(length) # NBlks(size))
    <3>1. cut = m
      BY <2>2
    <3> HIDE DEF cut, m
    <3> QED BY <1>3, <3>1
  <2> QED BY <2>1, <2>2
<1> HIDE DEF cut
<1>6. /\ y.free = cut.free /\ y.index = cut.index /\ y.inode \in INodeType
      /\ Under(y.inode, cut.inode) /\ Under(cut.inode, y.inode)
  BY <1>5, SizedFields
<1> HIDE DEF y
<1> DEFINE i == y.inode
<1>7. free' = cut.free /\ index' = cut.index /\ inode' = [inode EXCEPT ![f] = i]
  BY <1>1, <1>6 DEF Apply
<1>8. i \in INodeType /\ Under(i, cut.inode) /\ Under(cut.inode, i)
  BY <1>6
<1> HIDE DEF i
<1> QED BY <1>3, <1>5, <1>7, <1>8, CallSound

\* The release of an inode gives all its blocks back.
LEMMA UnlinkSound ==
  ASSUME NInv, NEW f \in File, Unlink(f), ~holed', ~failed'
  PROVE  \E L : AllSound(L, inode', free', index')
<1> DEFINE c == CoreOf(f)
           from == NBlks(inode[f].filesize)
           m == BfreeDown(c, from, 0)
           y == [m EXCEPT !.inode = EmptyINode]
           i == EmptyINode
<1>1. Apply(f, y) /\ failed' = failed /\ holed' = holed
  BY DEF Unlink
<1>2. ~holed /\ ~failed
  BY <1>1
<1>3. /\ IInv /\ Synced /\ inode \in [File -> INodeType] /\ c \in Memory
      /\ \E L : Sound(L, inode, f, c, {})
      /\ \A k \in 0 .. LastFileBlk : Bmap(c, k) # NoBlk <=> k < from
  BY <1>2, CoreSound
<1>4. from \in Nat /\ from \in Int /\ 0 \in Nat
  BY <1>3, SizesNat
<1> HIDE DEF from, c
<1>5. \A j \in 0 .. LastFileBlk : from < j => Bmap(c, j) = NoBlk
  <2>1. \A j \in 0 .. LastFileBlk : from < j => ~(j < from)
    BY <1>4
  <2> QED BY <1>3, <2>1
<1>6. Apart(inode, f, m) /\ \E L : Sound(L, inode, f, m, {})
  BY <1>3, <1>4, <1>5, BfreeDownSound
<1>7. m \in Memory
  BY <1>6 DEF Apart
<1>8. \A j \in 0 .. LastFileBlk : Bmap(m, j) = NoBlk
  <2>1. Apart(inode, f, c)
    BY <1>3 DEF Apart, Sound
  <2> DEFINE to == 0
  <2>2. to \in Nat /\ m = BfreeDown(c, from, to)
    BY <1>4
  <2> HIDE DEF m, to
  <2>3. /\ Trimmed(inode, f, c, m, to)
        /\ \A j \in 0 .. LastFileBlk : j \in to .. from => Maps(inode, f, m, f, j) = NoBlk
    BY <1>3, <1>4, <2>1, <2>2, BfreeDownMaps
  <2>4. View(inode, f, c, f) = c /\ View(inode, f, m, f) = m
    BY <1>3, <1>7, ViewOwn
  <2> SUFFICES ASSUME NEW j \in 0 .. LastFileBlk PROVE Bmap(m, j) = NoBlk
    OBVIOUS
  <2>5. CASE from < j
    <3>1. Alike(inode, f, c, m, f, j) \/ Maps(inode, f, m, f, j) = NoBlk
      BY <2>3 DEF Trimmed
    <3> QED BY <1>5, <2>4, <2>5, <3>1 DEF Alike, Maps
  <2>6. CASE ~(from < j)
    <3>1. j \in to .. from
      BY <1>4, <2>6 DEF to
    <3> QED BY <2>3, <2>4, <3>1 DEF Maps
  <2> QED BY <2>5, <2>6
<1> HIDE DEF m
<1>9. PICK L : Sound(L, inode, f, m, {})
  BY <1>6
<1>10. /\ \A k \in 0 .. NDirect - 1 : m.inode.direct[k] = NoBlk
       /\ \A level \in 1 .. 3 : m.inode.indirect[level] = NoBlk
  BY <1>3, <1>7, <1>8, <1>9, NothingLeft
<1>11. y.free = m.free /\ y.index = m.index /\ y.inode = i
  BY <1>7, MemoryFields
<1> HIDE DEF y
<1>12. i \in INodeType /\ Under(i, m.inode) /\ Under(m.inode, i)
  BY <1>10, EmptyIs DEF Under
<1> HIDE DEF i
<1>13. free' = m.free /\ index' = m.index /\ inode' = [inode EXCEPT ![f] = i]
  BY <1>1, <1>11 DEF Apply
<1> QED BY <1>3, <1>7, <1>9, <1>12, <1>13, CallSound

\* At first every block is free.
LEMMA InitNInv ==
  ASSUME Init
  PROVE  NInv
<1>1. MInv /\ IInv /\ Types
  BY InitMInv DEF MInv, IInv
<1>2. ToSet(free) = Block
  BY GeometryAssumption DEF Init
<1>3. PICK L : AllApart(L, inode, free, index)
  BY <1>1 DEF IInv
<1>4. ASSUME NEW f \in File
      PROVE  Sound(L, inode, f, MemoryOf(free, index, inode[f]), {})
  <2> DEFINE m == MemoryOf(free, index, inode[f])
  <2>1. Forest(L, inode, f, m)
    BY <1>3 DEF AllApart
  <2>2. m.free = free
    BY DEF MemoryOf
  <2> HIDE DEF m
  <2>3. \A b \in Block : \E i \in DOMAIN m.free : m.free[i] = b
    BY <1>2, <2>2 DEF ToSet
  <2>4. Owned(L, inode, f, m)
    BY <2>3 DEF Owned
  <2>5. ASSUME NEW b \in Block, NEW g \in File, NEW h \in 1 .. 3, HeldAt(L, b, g, h)
        PROVE  FALSE
    <3>1. PICK i \in DOMAIN m.free : m.free[i] = b
      BY <2>3
    <3>2. L[b] = Unheld
      BY <2>1, <3>1 DEF Forest
    <3> QED BY <2>5, <3>2, Tags DEF HeldAt
  <2>6. Rooted(L, m, {})
    BY <2>5 DEF Rooted
  <2>7. Sound(L, inode, f, m, {})
    BY <2>1, <2>4, <2>6 DEF Sound
  <2> QED BY <2>7 DEF m
<1>5. AllSound(L, inode, free, index)
  BY <1>4 DEF AllSound
<1> QED BY <1>1, <1>2, <1>5 DEF NInv, Kept

\* No call loses a block.
LEMMA StepNInv ==
  ASSUME NInv, [Next]_vars, ~wiped'
  PROVE  NInv'
<1>1. MInv /\ MInv' /\ IInv /\ Synced
  BY Moves DEF NInv, MInv
<1>2. CASE holed' \/ failed'
  <2>1. Kept'
    BY <1>2 DEF Kept
  <2> QED BY <1>1, <2>1 DEF NInv
<1>3. ASSUME ~holed', ~failed', NEW f \in File, \E L : AllSound(L, inode', free', index')
      PROVE  NInv'
  <2>1. Kept'
    BY <1>3 DEF Kept
  <2> QED BY <1>1, <2>1 DEF NInv
<1>4. ASSUME ~holed', ~failed', free' = free, index' = index, inode' = inode,
             holed' = holed, failed' = failed
      PROVE  NInv'
  <2>1. /\ \E L : AllSound(L, inode, free, index)
        /\ File # {} \/ ToSet(free) = Block
    BY <1>4 DEF NInv, Kept
  <2>2. Kept'
    BY <1>4, <2>1 DEF Kept
  <2> QED BY <1>1, <2>2 DEF NInv
<1>5. CASE \E f \in File, w \in Writes : Write(f, w[1], w[2])
  <2>1. PICK f \in File, w \in Writes : Write(f, w[1], w[2])
    BY <1>5
  <2>2. w[1] \in Nat /\ w[2] \in Nat
    BY GeometryAssumption
  <2> QED BY <1>2, <1>3, <2>1, <2>2, WriteSound
<1>6. CASE \E f \in File, length \in Lengths : Truncate(f, length)
  <2>1. PICK f \in File, length \in Lengths : Truncate(f, length)
    BY <1>6
  <2>2. length \in Nat
    BY GeometryAssumption
  <2> QED BY <1>2, <1>3, <2>1, <2>2, TruncateSound
<1>7. CASE \E f \in File : Unlink(f)
  BY <1>2, <1>3, <1>7, UnlinkSound
<1>8. CASE \E f \in File : ReadBack(f)
  <2>1. /\ free' = free /\ index' = index /\ inode' = inode
        /\ holed' = holed /\ failed' = failed
    BY <1>8 DEF ReadBack
  <2> QED BY <1>2, <1>4, <2>1
<1>9. CASE Remount
  <2>1. /\ free' = free /\ index' = index /\ inode' = dinode
        /\ holed' = holed /\ failed' = failed
    BY <1>9 DEF Remount
  <2>2. failed' \/ inode' = inode
    BY <1>1, <2>1 DEF Synced
  <2> QED BY <1>2, <1>4, <2>1, <2>2
<1>10. CASE UNCHANGED vars
  <2>1. /\ free' = free /\ index' = index /\ inode' = inode
        /\ holed' = holed /\ failed' = failed
    BY <1>10 DEF vars
  <2> QED BY <1>2, <1>4, <2>1
<1> QED BY <1>5, <1>6, <1>7, <1>8, <1>9, <1>10 DEF Next

\* An index block of a file is in a cell of that file, at that height.
LEMMA HolderOf ==
  ASSUME IInv, NEW L, AllSound(L, inode, free, index), NEW g \in File, NEW p \in Block,
         NEW h \in 1 .. 3, HeldAt(L, p, g, h)
  PROVE  \E d \in Cell : IsCell(L, g, d, h) /\ InCell(inode[g], d) = p
<1> DEFINE m == MemoryOf(free, index, inode[g])
<1>1. Forest(L, inode, g, m) /\ Owned(L, inode, g, m)
  BY DEF AllSound, Sound
<1>2. free \in Seq(Block) /\ index \in IndexType /\ inode \in [File -> INodeType]
  BY DEF IInv, Types
<1>3. m \in Memory /\ m.free = free /\ m.inode = inode[g]
  BY <1>2, MemoryOfFields
<1>4. \A d : Get(m, d) = InCell(inode[g], d)
  BY DEF MemoryOf, InCell
<1> HIDE DEF m
<1>5. PICK x : L[p] = Tag(g, x, h)
  BY DEF HeldAt
<1>6. ~\E i \in DOMAIN m.free : m.free[i] = p
  BY <1>1, <1>5, Tags DEF Forest
<1>7. PICK e \in File, d \in Cell, i \in 0 .. 3 :
        IsCell(L, e, d, i) /\ Seen(inode, g, m, e, d) = p
  BY <1>1, <1>6 DEF Owned
<1>8. p # NoBlk
  BY GeometryAssumption
<1>9. Tag(g, x, h) = Tag(e, d, i)
  BY <1>1, <1>5, <1>7, <1>8 DEF Forest
<1>10. g = e /\ h = i
  BY <1>9, Tags
<1>11. Seen(inode, g, m, g, d) = Get(m, d)
  BY <1>2, <1>3, SeenOwn
<1> QED BY <1>4, <1>7, <1>10, <1>11

\* Every index block of a file is found from its inode, and so every cell.
LEMMA CellReached ==
  ASSUME IInv, NEW L, AllSound(L, inode, free, index), NEW f \in File, NEW d \in Cell,
         NEW h \in 0 .. 3, IsCell(L, f, d, h)
  PROVE  d \in CellsOf(inode[f])
<1> DEFINE i == inode[f]
           h3 == Root(i, 3)
           h2 == Root(i, 2) \union EntriesOf(h3)
           h1 == Root(i, 1) \union EntriesOf(h2)
<1>1. i.direct \in [0 .. NDirect - 1 -> Id]
  <2>1. inode[f] \in INodeType
    BY DEF IInv, Types
  <2> QED BY <2>1 DEF INodeType
<1>2. ASSUME NEW j \in 1 .. 3, NEW p \in Block, HeldAt(L, p, f, j)
      PROVE  \/ p \in Root(i, j)
             \/ j \in 1 .. 2 /\ \E b \in Block : HeldAt(L, b, f, j + 1) /\ p \in EntriesOf({b})
  <2>1. PICK c \in Cell : IsCell(L, f, c, j) /\ InCell(i, c) = p
    BY <1>2, HolderOf
  <2>2. p # NoBlk
    BY GeometryAssumption
  <2>3. CASE c = RootCell(j)
    <3>1. InCell(i, RootCell(j)) = i.indirect[j]
      BY InCellIs
    <3> QED BY <2>1, <2>2, <2>3, <3>1 DEF Root
  <2>4. CASE c # RootCell(j)
    <3>1. /\ j \in 0 .. 2
          /\ \E b \in Block, e \in Entry : c = EntryCell(b, e) /\ HeldAt(L, b, f, j + 1)
      BY <2>1, <2>4 DEF IsCell
    <3>2. PICK b \in Block, e \in Entry : c = EntryCell(b, e) /\ HeldAt(L, b, f, j + 1)
      BY <3>1
    <3>3. index[b][e] = p
      BY <2>1, <3>2, InEntry
    <3>4. p \in EntriesOf({b})
      BY <2>2, <3>3 DEF EntriesOf
    <3>5. j \in 1 .. 2
      BY <3>1
    <3> QED BY <3>2, <3>4, <3>5
  <2> QED BY <2>3, <2>4
<1>3. \A b, blks : b \in blks => EntriesOf({b}) \subseteq EntriesOf(blks)
  BY DEF EntriesOf
<1>4. \A p \in Block : HeldAt(L, p, f, 3) => p \in h3
  <2>1. 3 \in 1 .. 3 /\ 3 \notin 1 .. 2
    OBVIOUS
  <2> QED BY <1>2, <2>1
<1>5. \A p \in Block : HeldAt(L, p, f, 2) => p \in h2
  <2> HIDE DEF h3
  <2> SUFFICES ASSUME NEW p \in Block, HeldAt(L, p, f, 2)
               PROVE  p \in Root(i, 2) \/ p \in EntriesOf(h3)
    OBVIOUS
  <2>1. 2 \in 1 .. 3 /\ 2 + 1 = 3
    OBVIOUS
  <2>2. p \in Root(i, 2) \/ \E b \in Block : HeldAt(L, b, f, 3) /\ p \in EntriesOf({b})
    BY <1>2, <2>1
  <2> QED BY <1>3, <1>4, <2>2
<1>6. \A p \in Block : HeldAt(L, p, f, 1) => p \in h1
  <2> HIDE DEF h2
  <2> SUFFICES ASSUME NEW p \in Block, HeldAt(L, p, f, 1)
               PROVE  p \in Root(i, 1) \/ p \in EntriesOf(h2)
    OBVIOUS
  <2>1. 1 \in 1 .. 3 /\ 1 + 1 = 2
    OBVIOUS
  <2>2. p \in Root(i, 1) \/ \E b \in Block : HeldAt(L, b, f, 2) /\ p \in EntriesOf({b})
    BY <1>2, <2>1
  <2> QED BY <1>3, <1>5, <2>2
<1>7. ASSUME NEW p \in Block, NEW j \in 1 .. 3, HeldAt(L, p, f, j)
      PROVE  p \in IndexBlks(i)
  <2>1. IndexBlks(i) = h1 \union h2 \union h3
    BY DEF IndexBlks
  <2> HIDE DEF h1, h2, h3
  <2>2. j = 1 \/ j = 2 \/ j = 3
    OBVIOUS
  <2> QED BY <1>4, <1>5, <1>6, <1>7, <2>1, <2>2
<1>8. CASE h = 0 /\ \E k \in 0 .. NDirect - 1 : d = DirectCell(k)
  <2>1. PICK k \in 0 .. NDirect - 1 : d = DirectCell(k)
    BY <1>8
  <2>2. k \in DOMAIN i.direct
    BY <1>1
  <2> QED BY <2>1, <2>2 DEF CellsOf
<1>9. CASE h \in 1 .. 3 /\ d = RootCell(h)
  BY <1>9 DEF CellsOf
<1>10. CASE /\ h \in 0 .. 2
            /\ \E p \in Block, e \in Entry : d = EntryCell(p, e) /\ HeldAt(L, p, f, h + 1)
  <2>1. PICK p \in Block, e \in Entry : d = EntryCell(p, e) /\ HeldAt(L, p, f, h + 1)
    BY <1>10
  <2>2. h + 1 \in 1 .. 3
    BY <1>10
  <2>3. p \in IndexBlks(i)
    BY <1>7, <2>1, <2>2
  <2> QED BY <2>1, <2>3 DEF CellsOf
<1> QED BY <1>8, <1>9, <1>10 DEF IsCell

\* The invariant gives NoLeak.
LEMMA NInvNoLeak ==
  ASSUME NInv
  PROVE  NoLeak
<1> SUFFICES ASSUME ~holed, ~failed
             PROVE  Held(inode) \union ToSet(free) = Block
  BY DEF NoLeak
<1>1. IInv /\ Types /\ inode \in [File -> INodeType] /\ free \in Seq(Block) /\ index \in IndexType
  BY DEF NInv, MInv, IInv, Types
<1>2. File # {} \/ ToSet(free) = Block
  BY DEF NInv, Kept
<1>3. PICK L : AllSound(L, inode, free, index)
  BY DEF NInv, Kept
<1>4. AllApart(L, inode, free, index)
  BY <1>3 DEF AllSound, AllApart, Sound
<1>5. ASSUME NEW b \in Held(inode)
      PROVE  b \in Block
  <2>1. PICK x \in Holding(inode) : b = InCell(inode[x[1]], x[2])
    BY DEF Held
  <2>2. PICK f, d : /\ f \in File /\ d \in CellsOf(inode[f]) /\ x = <<f, d>>
                    /\ InCell(inode[f], d) # NoBlk
    <3>1. /\ x \in UNION {{f} \X CellsOf(inode[f]) : f \in File}
          /\ InCell(inode[x[1]], x[2]) # NoBlk
      BY DEF Holding
    <3>2. PICK f \in File : x \in {f} \X CellsOf(inode[f])
      BY <3>1
    <3>3. PICK d \in CellsOf(inode[f]) : x = <<f, d>>
      BY <3>2
    <3> QED BY <3>1, <3>3
  <2>3. PICK h \in 0 .. 3 : IsCell(L, f, d, h)
    BY <1>1, <1>4, <2>2, CellsOfFile
  <2>4. d \in Cell
    BY <2>3, IsCellType
  <2>5. InCell(inode[f], d) \in Block
    BY <1>1, <1>4, <2>2, <2>3, <2>4, Labelled
  <2> QED BY <2>1, <2>2, <2>5
<1>6. ToSet(free) \subseteq Block
  BY <1>1 DEF ToSet
<1>7. ASSUME NEW b \in Block, NEW f \in File
      PROVE  b \in Held(inode) \/ b \in ToSet(free)
  <2> DEFINE m == MemoryOf(free, index, inode[f])
  <2>1. Owned(L, inode, f, m)
    BY <1>3 DEF AllSound, Sound
  <2>2. m.free = free /\ m.inode = inode[f] /\ \A i, d : ValueIn(m, i, d) = InCell(i, d)
    BY DEF MemoryOf, ValueIn, InCell
  <2> HIDE DEF m
  <2>3. CASE \E i \in DOMAIN m.free : m.free[i] = b
    BY <2>2, <2>3 DEF ToSet
  <2>4. CASE \E g \in File, d \in Cell, i \in 0 .. 3 :
               IsCell(L, g, d, i) /\ Seen(inode, f, m, g, d) = b
    <3>1. PICK g \in File, d \in Cell, i \in 0 .. 3 :
            IsCell(L, g, d, i) /\ Seen(inode, f, m, g, d) = b
      BY <2>4
    <3>2. With(inode, f, m.inode) = inode
      BY <1>1, <2>2 DEF With
    <3>3. InCell(inode[g], d) = b
      BY <2>2, <3>1, <3>2 DEF Seen
    <3>4. d \in CellsOf(inode[g])
      BY <1>1, <1>3, <3>1, CellReached
    <3>5. b # NoBlk
      BY GeometryAssumption
    <3> DEFINE x == <<g, d>>
    <3>6. x[1] = g /\ x[2] = d /\ x \in UNION {{e} \X CellsOf(inode[e]) : e \in File}
      BY <3>4
    <3> HIDE DEF x
    <3>7. x \in Holding(inode)
      BY <3>3, <3>5, <3>6 DEF Holding
    <3>8. b \in Held(inode)
      BY <3>3, <3>6, <3>7 DEF Held
    <3> QED BY <3>8
  <2> QED BY <2>1, <2>3, <2>4 DEF Owned
<1>8. Block \subseteq Held(inode) \union ToSet(free)
  BY <1>2, <1>7
<1> QED BY <1>5, <1>6, <1>8

\* As long as no file was given a hole and no write failed, every block is free or
\* in a cell that its file's inode leads to, and every index block has its entry
\* 0 in use: the invariant of NoneLost.
THEOREM Accounted == Spec => [](~wiped => NInv)
<1>1. Init => (~wiped => NInv)
  BY InitNInv
<1>2. (~wiped => NInv) /\ [Next]_vars => (~wiped => NInv)'
  <2> SUFFICES ASSUME ~wiped => NInv, [Next]_vars, ~wiped' PROVE NInv'
    OBVIOUS
  <2>1. ~wiped
    BY DEF Next, vars
  <2> QED BY <2>1, StepNInv
<1> QED BY <1>1, <1>2, PTL DEF Spec

\* As long as no file was given a hole and no write failed, no block is lost:
\* bfree gives every index block back once it is empty, although it looks at
\* entry 0 only, whatever the number of levels and whatever mix of l2_write,
\* l2_truncate, l2_unlink and remounts came before.
THEOREM NoneLost == Spec => []NoLeak
<1>1. KInv /\ (~wiped => NInv) => NoLeak
  <2>1. CASE wiped
    BY <2>1 DEF KInv, NoLeak
  <2>2. CASE ~wiped
    BY <2>2, NInvNoLeak
  <2> QED BY <2>1, <2>2
<1> QED BY <1>1, Accounted, Mapped, PTL
=============================================================================
