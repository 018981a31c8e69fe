--------------------------- MODULE DBlkAllocProofs ---------------------------
(***************************************************************************)
(* Proofs about DBlkAlloc and DBlkCrash for every NDBlks, CacheSize and    *)
(* Contents: the superblock and the chain of list blocks always describe   *)
(* the free blocks exactly, an allocation returns a free block, and the    *)
(* order in which the free blocks will be allocated is the stack of        *)
(* FreeStack.  A crash before any allocation since the last sync brings    *)
(* back a list that is exact but for the blocks freed since, which are     *)
(* lost for good.                                                          *)
(*                                                                         *)
(* The lemmas about the free list are about a view v of it and a view w    *)
(* after a step, whatever superblock and blocks they are views of.         *)
(***************************************************************************)
EXTENDS DBlkCrash, WellFoundedInduction, FiniteSetTheorems, TLAPS

-----------------------------------------------------------------------------
(* Induction, stated with sets, so that a proof can take the set of the      *)
(* numbers for which a formula holds.                                        *)

\* A set of numbers has a smallest one.
LEMMA WellOrdered ==
  ASSUME NEW S \in SUBSET Nat, S # {}
  PROVE  \E n \in S : \A m \in S : n <= m
<1> DEFINE R == OpToRel(<, Nat)
<1>1. IsWellFoundedOn(R, Nat)
  BY NatLessThanWellFounded
<1>2. \A m, n \in Nat : <<m, n>> \in R <=> m < n
  BY DEF OpToRel
<1> HIDE DEF R
<1>3. PICK n \in S : \A m \in S : ~(<<m, n>> \in R)
  BY <1>1, WFMin
<1>4. \A m \in S : ~(m < n)
  BY <1>2, <1>3
<1> QED BY <1>4

\* Induction from 0 to N.
LEMMA UpTo ==
  ASSUME NEW N \in Nat, NEW S,
         0 \in S,
         \A n \in 0 .. N - 1 : n \in S => n + 1 \in S
  PROVE  \A n \in 0 .. N : n \in S
<1> DEFINE Out == {n \in 0 .. N : n \notin S}
<1> SUFFICES ASSUME Out # {} PROVE FALSE
  OBVIOUS
<1>1. PICK n \in Out : \A m \in Out : n <= m
  <2>1. Out \in SUBSET Nat
    OBVIOUS
  <2> QED BY <2>1, WellOrdered
<1>2. n \in 1 .. N /\ n - 1 \in 0 .. N - 1
  BY <1>1
<1>3. n - 1 \in S
  BY <1>1, <1>2
<1>4. n \in S
  BY <1>2, <1>3
<1> QED BY <1>1, <1>4

-----------------------------------------------------------------------------
IInv == TypeOK /\ ChainInv

IsView(v) ==
  /\ v.free \subseteq Blk
  /\ v.count \in 0 .. NDBlks
  /\ v.head \in Blk
  /\ v.next \in Slots
  /\ v.cache \in [Slots -> Int]
  /\ v.lists \in [Blk -> [Slots -> Int]]

-----------------------------------------------------------------------------
(* Counting blocks.                                                        *)

LEMMA BlkFinite == IsFiniteSet(Blk) /\ Cardinality(Blk) = NDBlks
<1>1. NDBlks \in Nat
  BY SizesAssumption
<1>2. IsFiniteSet(0 .. NDBlks - 1)
  BY <1>1, FS_Interval
<1>3. Cardinality(0 .. NDBlks - 1) = NDBlks
  BY <1>1, FS_Interval
<1> QED BY <1>2, <1>3 DEF Blk

LEMMA FreeFinite ==
  ASSUME NEW F \in SUBSET Blk
  PROVE  /\ IsFiniteSet(F)
         /\ Cardinality(F) \in 0 .. NDBlks
         /\ Cardinality(F) = 0 <=> F = {}
<1>2. IsFiniteSet(F) /\ Cardinality(F) <= NDBlks
  BY BlkFinite, FS_Subset
<1>3. Cardinality(F) \in Nat
  BY <1>2, FS_CardinalityType
<1> QED BY <1>2, <1>3, FS_EmptySet, SizesAssumption

\* An injection into the blocks bounds a chain's length.
LEMMA ChainLength ==
  ASSUME NEW n \in Nat, NEW c \in [1 .. n -> Blk],
         \A i, j \in 1 .. n : c[i] = c[j] => i = j
  PROVE  n <= NDBlks
<1>1. c \in Injection(1 .. n, Blk)
  BY DEF Injection, IsInjective
<1>2. Cardinality(1 .. n) <= Cardinality(Blk)
  BY <1>1, BlkFinite, FS_Injection
<1>3. Cardinality(1 .. n) = n
  BY FS_Interval
<1> QED BY <1>2, <1>3, BlkFinite

\* Taking a block out of, or putting it into, the free blocks changes their
\* number by one.
LEMMA FreeLess ==
  ASSUME NEW F \in SUBSET Blk, NEW b \in F
  PROVE  Cardinality(F \ {b}) = Cardinality(F) - 1
BY FreeFinite, FS_RemoveElement

LEMMA FreeMore ==
  ASSUME NEW F \in SUBSET Blk, NEW b \in Blk \ F
  PROVE  /\ Cardinality(F \union {b}) = Cardinality(F) + 1
         /\ Cardinality(F \union {b}) \in 0 .. NDBlks
<1>1. F \union {b} \in SUBSET Blk
  OBVIOUS
<1>2. Cardinality(F \union {b}) \in 0 .. NDBlks
  BY <1>1, FreeFinite
<1>3. Cardinality(F \union {b}) = Cardinality(F) + 1
  BY FreeFinite, FS_AddElement
<1> QED BY <1>2, <1>3

-----------------------------------------------------------------------------
(* The list blocks of a chain are free, distinct blocks.                   *)

LEMMA ChainCells ==
  ASSUME NEW v, IsView(v),
         NEW n \in 1 .. NDBlks, NEW c \in [1 .. n -> Blk], NEW base \in Slots,
         IsChain(v, n, c, base)
  PROVE  /\ \A i \in 2 .. n : <<i, 0>> \in Cells(v, n, base)
         /\ \A i \in 2 .. n : CellBlk(v, n, c, <<i, 0>>) = c[i]
         /\ <<1, base>> \in Cells(v, n, base)
         /\ CellBlk(v, n, c, <<1, base>>) = c[1]
<1> USE SizesAssumption DEF Slots
<1>0. v.next \in Slots
  BY DEF IsView
<1>1. \A i \in 2 .. n : /\ <<i, 0>> \in Cells(v, n, base)
                        /\ CellBlk(v, n, c, <<i, 0>>) = c[i]
  BY <1>0 DEF Cells, CellBlk, BottomOf, TopOf
<1>2. base <= v.next \/ n # 1
  BY DEF IsChain, Linked
<1>3. /\ <<1, base>> \in Cells(v, n, base)
      /\ CellBlk(v, n, c, <<1, base>>) = c[1]
  <2>1. <<1, base>> \in Cells(v, n, base)
    BY <1>0, <1>2 DEF Cells, BottomOf, TopOf
  <2>2. ListOf(v, n, c, 1)[base] = c[1]
    BY DEF IsChain, Linked
  <2> QED BY <2>1, <2>2 DEF CellBlk
<1> QED BY <1>1, <1>3

LEMMA ChainFree ==
  ASSUME NEW v, IsView(v),
         NEW n \in 1 .. NDBlks, NEW c \in [1 .. n -> Blk], NEW base \in Slots,
         IsChain(v, n, c, base)
  PROVE  \A i \in 1 .. n : c[i] \in v.free
<1>1. /\ \A i \in 2 .. n : <<i, 0>> \in Cells(v, n, base)
      /\ \A i \in 2 .. n : CellBlk(v, n, c, <<i, 0>>) = c[i]
  BY ChainCells
<1>2. /\ <<1, base>> \in Cells(v, n, base)
      /\ CellBlk(v, n, c, <<1, base>>) = c[1]
  BY ChainCells
<1>3. \A p \in Cells(v, n, base) : CellBlk(v, n, c, p) \in v.free
  BY DEF IsChain, CellsExact
<1>4. ASSUME NEW i \in 1 .. n PROVE c[i] \in v.free
  <2>1. i = 1 \/ i \in 2 .. n
    OBVIOUS
  <2> QED BY <1>1, <1>2, <1>3, <2>1
<1> QED BY <1>4

LEMMA ChainInjective ==
  ASSUME NEW v, IsView(v),
         NEW n \in 1 .. NDBlks, NEW c \in [1 .. n -> Blk], NEW base \in Slots,
         IsChain(v, n, c, base)
  PROVE  \A i, j \in 1 .. n : c[i] = c[j] => i = j
<1>1. \A i \in 2 .. n : <<i, 0>> \in Cells(v, n, base) /\ CellBlk(v, n, c, <<i, 0>>) = c[i]
  BY ChainCells
<1>2. /\ <<1, base>> \in Cells(v, n, base)
      /\ CellBlk(v, n, c, <<1, base>>) = c[1]
  BY ChainCells
<1>5. ASSUME NEW i \in 1 .. n, NEW j \in 1 .. n, c[i] = c[j] PROVE i = j
  <2>1. ASSUME NEW k \in 1 .. n
        PROVE  \E s \in Slots : /\ <<k, s>> \in Cells(v, n, base)
                                /\ CellBlk(v, n, c, <<k, s>>) = c[k]
    <3>1. k = 1 \/ k \in 2 .. n
      OBVIOUS
    <3>2. 0 \in Slots
      BY SizesAssumption DEF Slots
    <3> QED BY <1>1, <1>2, <3>1, <3>2
  <2>2. PICK s \in Slots : /\ <<i, s>> \in Cells(v, n, base)
                           /\ CellBlk(v, n, c, <<i, s>>) = c[i]
    BY <2>1
  <2>3. PICK t \in Slots : /\ <<j, t>> \in Cells(v, n, base)
                           /\ CellBlk(v, n, c, <<j, t>>) = c[j]
    BY <2>1
  <2>4. <<i, s>> = <<j, t>>
    BY <2>2, <2>3, <1>5 DEF IsChain, CellsExact
  <2> QED BY <2>4
<1> QED BY <1>5

\* A step that empties one cell of a chain, or fills one, keeps it exact when
\* it takes the block of that cell out of, or into, the free blocks.
LEMMA DropCell ==
  ASSUME NEW v, NEW w, NEW n, NEW c, NEW m, NEW d, NEW base,
         NEW top \in Cells(v, n, base),
         CellsExact(v, n, c, base),
         w.free = v.free \ {CellBlk(v, n, c, top)},
         Cells(w, m, base) = Cells(v, n, base) \ {top},
         \A p \in Cells(v, n, base) \ {top} : CellBlk(w, m, d, p) = CellBlk(v, n, c, p)
  PROVE  CellsExact(w, m, d, base)
BY DEF CellsExact

LEMMA AddCell ==
  ASSUME NEW v, NEW w, NEW n, NEW c, NEW m, NEW d, NEW base, NEW top, NEW b,
         top \notin Cells(v, n, base), b \notin v.free,
         CellsExact(v, n, c, base),
         w.free = v.free \union {b},
         Cells(w, m, base) = Cells(v, n, base) \union {top},
         CellBlk(w, m, d, top) = b,
         \A p \in Cells(v, n, base) : CellBlk(w, m, d, p) = CellBlk(v, n, c, p)
  PROVE  CellsExact(w, m, d, base)
BY DEF CellsExact

LEMMA Witness ==
  ASSUME NEW v, Exact(v), v.free # {}
  PROVE  \E n \in 1 .. NDBlks : \E c \in [1 .. n -> Blk], base \in Slots :
           IsChain(v, n, c, base)
BY DEF Exact

-----------------------------------------------------------------------------
(* Products with the number of slots.                                      *)

LEMMA Multiple ==
  ASSUME NEW C \in Nat \ {0}, NEW k \in Nat
  PROVE  (k * C) % C = 0 /\ k * C \in Nat /\ k <= k * C
OBVIOUS

LEMMA NextMultiple ==
  ASSUME NEW C \in Nat, NEW j \in Nat, NEW k \in Nat, j < k
  PROVE  j * C + C <= k * C
OBVIOUS

LEMMA Quotient ==
  ASSUME NEW C \in Nat \ {0}, NEW b \in Nat
  PROVE  \E q \in Nat, r \in 0 .. C - 1 : b = q * C + r
<1> DEFINE q == b \div C
           r == b % C
<1>1. q \in Nat /\ r \in 0 .. C - 1 /\ b = q * C + r
  OBVIOUS
<1> QED BY <1>1

LEMMA QuotientUnique ==
  ASSUME NEW C \in Nat \ {0}, NEW q \in Nat, NEW k \in Nat,
         NEW r \in 0 .. C - 1, NEW s \in 0 .. C - 1, q * C + r = k * C + s
  PROVE  q = k /\ r = s
<1>1. ~(q < k)
  BY NextMultiple
<1>2. ~(k < q)
  BY NextMultiple
<1> QED BY <1>1, <1>2

-----------------------------------------------------------------------------
(* The cells of a chain in their order, from the oldest one on, and the    *)
(* order of the allocations, which is the reverse.                         *)

CellNo(base, p) == (p[1] - 1) * CacheSize + p[2] - base

TopNo(v, n, base) == CellNo(base, <<n, v.next>>)

\* The numbers of the cells of a chain are those up to that of the top, and no
\* two cells have the same.
LEMMA CellNumbers ==
  ASSUME NEW v, v.next \in Slots, NEW n \in Nat \ {0}, NEW base \in Slots,
         n = 1 => base <= v.next
  PROVE  /\ TopNo(v, n, base) \in Nat
         /\ \A p \in Cells(v, n, base) : CellNo(base, p) \in 0 .. TopNo(v, n, base)
         /\ \A p, q \in Cells(v, n, base) : CellNo(base, p) = CellNo(base, q) => p = q
         /\ \A k \in 0 .. TopNo(v, n, base) : \E p \in Cells(v, n, base) : CellNo(base, p) = k
<1> USE SizesAssumption
<1> DEFINE C == CacheSize
<1>0. C \in Nat \ {0}
  OBVIOUS
<1>1. PICK x \in Nat : x = (n - 1) * C
  BY <1>0, Multiple
<1>2. /\ TopNo(v, n, base) = x + v.next - base
      /\ TopNo(v, n, base) \in Nat
  <2>1. n # 1 => C <= x
    <3>1. n # 1 => 0 * C + C <= (n - 1) * C
      <4> SUFFICES ASSUME n # 1 PROVE 0 * C + C <= (n - 1) * C
        OBVIOUS
      <4>1. n - 1 \in Nat /\ 0 < n - 1
        OBVIOUS
      <4> HIDE DEF C
      <4> QED BY <1>0, <4>1, NextMultiple
    <3>2. 0 * C = 0
      OBVIOUS
    <3> QED BY <1>1, <3>1, <3>2
  <2>2. TopNo(v, n, base) = x + v.next - base
    BY <1>1 DEF TopNo, CellNo
  <2>3. x + v.next - base \in Nat
    BY <1>1, <2>1 DEF Slots
  <2> QED BY <2>2, <2>3
<1>3. ASSUME NEW p \in Cells(v, n, base)
      PROVE  \E i \in 1 .. n, s \in Slots :
               /\ p = <<i, s>>
               /\ i = 1 => base <= s
               /\ i = n => s <= v.next
  BY DEF Cells, BottomOf, TopOf
<1>4. ASSUME NEW p \in Cells(v, n, base)
      PROVE  CellNo(base, p) \in 0 .. TopNo(v, n, base)
  <2>1. PICK i \in 1 .. n, s \in Slots :
               /\ p = <<i, s>>
               /\ i = 1 => base <= s
               /\ i = n => s <= v.next
    BY <1>3
  <2>2. PICK y \in Nat : y = (i - 1) * C
    BY <1>0, Multiple
  <2>3. CellNo(base, p) = y + s - base
    BY <2>1, <2>2 DEF CellNo
  <2>4. i # 1 => C <= y
    <3>1. i # 1 => 0 * C + C <= (i - 1) * C
      <4> SUFFICES ASSUME i # 1 PROVE 0 * C + C <= (i - 1) * C
        OBVIOUS
      <4>1. i - 1 \in Nat /\ 0 < i - 1
        OBVIOUS
      <4> HIDE DEF C
      <4> QED BY <1>0, <4>1, NextMultiple
    <3>2. 0 * C = 0
      OBVIOUS
    <3> QED BY <2>2, <3>1, <3>2
  <2>5. i # n => y + C <= x
    <3>1. i # n => (i - 1) * C + C <= (n - 1) * C
      <4> SUFFICES ASSUME i # n PROVE (i - 1) * C + C <= (n - 1) * C
        OBVIOUS
      <4>1. i - 1 \in Nat /\ n - 1 \in Nat /\ i - 1 < n - 1
        OBVIOUS
      <4> HIDE DEF C
      <4> QED BY <1>0, <4>1, NextMultiple
    <3> QED BY <1>1, <2>2, <3>1
  <2>6. i = n => y = x
    BY <1>1, <2>2
  <2>7. y + s - base \in 0 .. x + v.next - base
    BY <2>1, <2>2, <2>4, <2>5, <2>6 DEF Slots
  <2> QED BY <1>2, <2>3, <2>7
<1>5. ASSUME NEW p \in Cells(v, n, base), NEW q \in Cells(v, n, base),
             CellNo(base, p) = CellNo(base, q)
      PROVE  p = q
  <2>1. PICK i \in 1 .. n, s \in Slots : p = <<i, s>>
    BY <1>3
  <2>2. PICK j \in 1 .. n, t \in Slots : q = <<j, t>>
    BY <1>3
  <2>3. PICK y \in Nat : y = (i - 1) * C
    BY <1>0, Multiple
  <2>4. PICK z \in Nat : z = (j - 1) * C
    BY <1>0, Multiple
  <2>5. y + s = z + t
    <3>1. y + s - base = z + t - base
      BY <1>5, <2>1, <2>2, <2>3, <2>4 DEF CellNo
    <3> QED BY <3>1 DEF Slots
  <2>6. /\ i - 1 \in Nat /\ j - 1 \in Nat
        /\ s \in 0 .. C - 1 /\ t \in 0 .. C - 1
        /\ (i - 1) * C + s = (j - 1) * C + t
    BY <2>3, <2>4, <2>5 DEF Slots
  <2>7. i - 1 = j - 1 /\ s = t
    <3> HIDE DEF C
    <3> QED BY <1>0, <2>6, QuotientUnique
  <2> QED BY <2>1, <2>2, <2>7
<1>6. ASSUME NEW k \in 0 .. TopNo(v, n, base)
      PROVE  \E p \in Cells(v, n, base) : CellNo(base, p) = k
  <2>1. k + base \in Nat /\ k + base <= x + v.next
    BY <1>2 DEF Slots
  <2>2. PICK q \in Nat, r \in 0 .. C - 1 : k + base = q * C + r
    BY <1>0, <2>1, Quotient
  <2>3. PICK y \in Nat : y = q * C
    BY <1>0, Multiple
  <2>4. q <= n - 1
    <3>1. SUFFICES ASSUME n - 1 < q PROVE FALSE
      OBVIOUS
    <3>2. (n - 1) * C + C <= q * C
      <4>1. n - 1 \in Nat
        OBVIOUS
      <4> HIDE DEF C
      <4> QED BY <1>0, <3>1, <4>1, NextMultiple
    <3>3. x + C <= y
      BY <1>1, <2>3, <3>2
    <3>4. y <= x + v.next /\ v.next < C
      BY <2>1, <2>2, <2>3 DEF Slots
    <3> QED BY <3>3, <3>4 DEF Slots
  <2>5. q = n - 1 => r <= v.next
    <3>1. q = n - 1 => y = x
      BY <1>1, <2>3
    <3> QED BY <2>1, <2>2, <2>3, <3>1 DEF Slots
  <2>6. q = 0 => base <= r
    <3>1. q = 0 => y = 0
      BY <2>3
    <3> QED BY <2>2, <2>3, <3>1 DEF Slots
  <2> DEFINE p == <<q + 1, r>>
  <2>7. p \in Cells(v, n, base)
    BY <2>4, <2>5, <2>6 DEF Cells, BottomOf, TopOf, Slots
  <2>8. CellNo(base, p) = k
    <3>1. CellNo(base, p) = y + r - base
      BY <2>3 DEF CellNo
    <3>2. y + r - base = k
      BY <2>2, <2>3 DEF Slots
    <3> QED BY <3>1, <3>2
  <2> QED BY <2>7, <2>8
<1> QED BY <1>2, <1>4, <1>5, <1>6

\* There are as many cells as free blocks.
LEMMA CellCount ==
  ASSUME NEW v, IsView(v), v.count = Cardinality(v.free),
         NEW n \in 1 .. NDBlks, NEW c \in [1 .. n -> Blk], NEW base \in Slots,
         IsChain(v, n, c, base)
  PROVE  v.count = TopNo(v, n, base) + 1
<1> DEFINE M       == TopNo(v, n, base)
           cell(k) == CHOOSE p \in Cells(v, n, base) : CellNo(base, p) = k - 1
           g       == [k \in 1 .. M + 1 |-> CellBlk(v, n, c, cell(k))]
<1>1. /\ M \in Nat
      /\ \A p \in Cells(v, n, base) : CellNo(base, p) \in 0 .. M
      /\ \A k \in 0 .. M : \E p \in Cells(v, n, base) : CellNo(base, p) = k
  <2>1. v.next \in Slots
    BY DEF IsView
  <2>2. n = 1 => base <= v.next
    BY DEF IsChain, Linked
  <2>3. n \in Nat \ {0}
    OBVIOUS
  <2> QED BY <2>1, <2>2, <2>3, CellNumbers
<1>2. ASSUME NEW k \in 1 .. M + 1
      PROVE  cell(k) \in Cells(v, n, base) /\ CellNo(base, cell(k)) = k - 1
  <2>1. k - 1 \in 0 .. M
    BY <1>1
  <2>2. \E p \in Cells(v, n, base) : CellNo(base, p) = k - 1
    BY <1>1, <2>1
  <2> QED BY <2>2
<1> HIDE DEF cell, M
<1>3. ASSUME NEW k \in 1 .. M + 1 PROVE g[k] \in v.free
  BY <1>2 DEF IsChain, CellsExact
<1>4. ASSUME NEW k \in 1 .. M + 1, NEW l \in 1 .. M + 1, g[k] = g[l]
      PROVE  k = l
  <2>1. CellBlk(v, n, c, cell(k)) = CellBlk(v, n, c, cell(l))
    BY <1>4
  <2>2. cell(k) = cell(l)
    BY <1>2, <2>1 DEF IsChain, CellsExact
  <2>3. k - 1 = l - 1
    BY <1>2, <2>2
  <2> QED BY <1>1, <2>3
<1>5. ASSUME NEW b \in v.free PROVE \E k \in 1 .. M + 1 : g[k] = b
  <2>1. PICK p \in Cells(v, n, base) : CellBlk(v, n, c, p) = b
    BY DEF IsChain, CellsExact
  <2>2. PICK k \in 1 .. M + 1 : k - 1 = CellNo(base, p)
    <3>1. CellNo(base, p) + 1 \in 1 .. M + 1 /\ (CellNo(base, p) + 1) - 1 = CellNo(base, p)
      BY <1>1
    <3> QED BY <3>1
  <2>3. cell(k) = p
    <3>1. v.next \in Slots /\ n \in Nat \ {0}
      BY DEF IsView
    <3>2. n = 1 => base <= v.next
      BY DEF IsChain, Linked
    <3>3. \A p1, p2 \in Cells(v, n, base) : CellNo(base, p1) = CellNo(base, p2) => p1 = p2
      BY <3>1, <3>2, CellNumbers
    <3> QED BY <1>2, <2>2, <3>3
  <2> QED BY <2>1, <2>3
<1>6. g \in Bijection(1 .. M + 1, v.free)
  <2>1. g \in [1 .. M + 1 -> v.free]
    BY <1>3
  <2> HIDE DEF g
  <2> QED BY <1>4, <1>5, <2>1 DEF Bijection, Injection, Surjection, IsInjective
<1>7. Cardinality(v.free) = M + 1
  <2>1. ExistsBijection(1 .. M + 1, v.free) /\ M + 1 \in Nat
    BY <1>1, <1>6 DEF ExistsBijection
  <2> QED BY <2>1, FS_CountingElements
<1> QED BY <1>7 DEF M

IsPlaces(at, v, n) ==
  at = [k \in 0 .. n |-> IF k = 0 THEN <<v.head, v.next>> ELSE Below(v)[at[k - 1]]]

\* The function that defines OrderOf exists.
LEMMA OrderIs ==
  ASSUME NEW v, v.count \in Nat
  PROVE  \E at : /\ IsPlaces(at, v, v.count)
                 /\ OrderOf(v) = [k \in 1 .. v.count |-> BlkAt(v)[at[k - 1]]]
<1> DEFINE N == v.count
           S == {n \in 0 .. N : \E at : IsPlaces(at, v, n)}
<1>1. 0 \in S
  <2> DEFINE a == [k \in 0 .. 0 |-> <<v.head, v.next>>]
  <2>1. IsPlaces(a, v, 0)
    BY DEF IsPlaces
  <2> HIDE DEF a
  <2> QED BY <2>1
<1>2. ASSUME NEW n \in 0 .. N - 1, n \in S
      PROVE  n + 1 \in S
  <2>1. PICK a : IsPlaces(a, v, n)
    BY <1>2
  <2> DEFINE z == [k \in 0 .. n + 1 |-> IF k <= n THEN a[k] ELSE Below(v)[a[n]]]
  <2>2. ASSUME NEW k \in 0 .. n + 1
        PROVE  z[k] = IF k = 0 THEN <<v.head, v.next>> ELSE Below(v)[z[k - 1]]
    <3>1. CASE k = 0
      BY <2>1, <3>1 DEF IsPlaces
    <3>2. CASE k \in 1 .. n
      <4>1. z[k] = a[k] /\ z[k - 1] = a[k - 1]
        BY <3>2
      <4>2. a[k] = Below(v)[a[k - 1]]
        <5>1. k \in 0 .. n /\ k # 0
          BY <3>2
        <5> HIDE DEF z
        <5> QED BY <2>1, <5>1 DEF IsPlaces
      <4> QED BY <3>2, <4>1, <4>2
    <3>3. CASE k = n + 1
      <4>1. z[k] = Below(v)[a[n]] /\ z[k - 1] = a[n]
        BY <3>3
      <4> HIDE DEF z
      <4> QED BY <3>3, <4>1
    <3> QED BY <3>1, <3>2, <3>3
  <2>3. IsPlaces(z, v, n + 1)
    BY <2>2 DEF IsPlaces
  <2> HIDE DEF z
  <2> QED BY <2>3
<1>3. \A n \in 0 .. N : n \in S
  <2> HIDE DEF S
  <2> QED BY <1>1, <1>2, UpTo
<1>4. \E at : IsPlaces(at, v, N)
  BY <1>3
<1> DEFINE w == CHOOSE at : IsPlaces(at, v, N)
<1>5. IsPlaces(w, v, N)
  BY <1>4
<1>6. OrderOf(v) = [k \in 1 .. v.count |-> BlkAt(v)[w[k - 1]]]
  BY DEF OrderOf, IsPlaces
<1> QED BY <1>5, <1>6

\* The k-th block to be allocated is in the k-th cell from the top.
LEMMA OrderOfChain ==
  ASSUME NEW v, IsView(v), v.count = Cardinality(v.free),
         NEW n \in 1 .. NDBlks, NEW c \in [1 .. n -> Blk], NEW base \in Slots,
         IsChain(v, n, c, base)
  PROVE  /\ DOMAIN OrderOf(v) = 1 .. v.count
         /\ \A k \in 1 .. v.count : \E p \in Cells(v, n, base) :
              /\ CellNo(base, p) = v.count - k
              /\ OrderOf(v)[k] = CellBlk(v, n, c, p)
<1> USE SizesAssumption
<1> DEFINE C == CacheSize
<1>0. /\ v.count \in Nat /\ v.next \in Slots /\ v.head \in Blk /\ n \in Nat \ {0}
      /\ v.cache \in [Slots -> Int]
      /\ v.lists \in [Blk -> [Slots -> Int]]
  BY DEF IsView
<1>1. v.count = TopNo(v, n, base) + 1
  BY CellCount
<1>2. PICK at : /\ IsPlaces(at, v, v.count)
                /\ OrderOf(v) = [k \in 1 .. v.count |-> BlkAt(v)[at[k - 1]]]
  BY <1>0, OrderIs
<1>3. /\ c[n] = v.head
      /\ \A i \in 2 .. n : ListOf(v, n, c, i)[0] = c[i - 1]
      /\ ListOf(v, n, c, 1)[base] = c[1]
      /\ n = 1 => base <= v.next
  BY DEF IsChain, Linked
<1>4. /\ \A i, j \in 1 .. n : c[i] = c[j] => i = j
      /\ n \in 1 .. n
  <2>1. \A i, j \in 1 .. n : c[i] = c[j] => i = j
    BY ChainInjective
  <2> QED BY <2>1
<1>5. ASSUME NEW i \in 1 .. n PROVE ListAt(v, c[i]) = ListOf(v, n, c, i)
  BY <1>3, <1>4 DEF ListAt, ListOf
<1>6. c[n] \in Int /\ \A i \in 1 .. n : c[i] \in Int /\ c[i] \in Blk
  BY DEF Blk
<1> DEFINE Cell(p, k) == /\ CellNo(base, p) = v.count - 1 - k
                         /\ at[k] = <<c[p[1]], p[2]>>
           S == {k \in 0 .. v.count - 1 : \E p \in Cells(v, n, base) : Cell(p, k)}
<1>12. base \in Int /\ v.count \in Int /\ v.next \in Int /\ C - 1 \in Int
  <2>1. \A s \in Slots : s \in Int
    BY DEF Slots
  <2>2. v.next \in Int /\ base \in Int
    BY <1>0, <2>1
  <2> QED BY <1>0, <2>2
<1>7. v.count - 1 \in Nat /\ TopNo(v, n, base) \in Nat
  <2>1. TopNo(v, n, base) \in Nat
    BY <1>0, <1>3, CellNumbers
  <2> QED BY <1>1, <2>1
<1>8. 0 \in S
  <2> DEFINE p == <<n, v.next>>
  <2>1. p \in Cells(v, n, base)
    <3>1. BottomOf(base, n) <= v.next
      BY <1>0, <1>3 DEF BottomOf, Slots
    <3>2. v.next <= TopOf(v, n, n)
      BY <1>0 DEF TopOf, Slots
    <3> QED BY <1>0, <1>4, <3>1, <3>2 DEF Cells
  <2>2. CellNo(base, p) = v.count - 1 - 0
    <3>1. TopNo(v, n, base) = CellNo(base, p)
      BY DEF TopNo
    <3> HIDE DEF p
    <3> QED BY <1>1, <1>7, <3>1
  <2>3. at[0] = <<v.head, v.next>>
    BY <1>0, <1>2 DEF IsPlaces
  <2>4. at[0] = <<c[p[1]], p[2]>>
    BY <1>3, <2>3
  <2> HIDE DEF p
  <2> QED BY <1>7, <2>1, <2>2, <2>4
<1>9. ASSUME NEW k \in 0 .. v.count - 1 - 1, k \in S PROVE k + 1 \in S
  <2>1. PICK p \in Cells(v, n, base) : Cell(p, k)
    BY <1>9
  <2>2. PICK i \in 1 .. n, s \in Slots :
          p = <<i, s>> /\ BottomOf(base, i) <= s /\ s <= TopOf(v, n, i)
    BY DEF Cells
  <2>3. at[k + 1] = Below(v)[<<c[i], s>>]
    <3>1. k + 1 \in 0 .. v.count /\ k + 1 # 0 /\ (k + 1) - 1 = k
      BY SMTT(30), <1>0
    <3>2. at[k + 1] = Below(v)[at[k]]
      BY <1>2, <3>1 DEF IsPlaces
    <3>3. at[k] = <<c[i], s>>
      BY <2>1, <2>2
    <3> QED BY <3>2, <3>3
  <2>9. s \in Nat /\ k \in Int
    BY DEF Slots
  <2>4. <<c[i], s>> \in Int \X Int
    BY <1>6 DEF Slots
  <2>5. PICK y \in Nat : y = (i - 1) * C
    <3>1. C \in Nat \ {0} /\ i - 1 \in Nat
      OBVIOUS
    <3> QED BY <3>1, Multiple
  <2>6. y + s - base = v.count - 1 - k /\ y + s - base >= 1
    <3>1. CellNo(base, p) = y + s - base
      BY <2>2, <2>5 DEF CellNo
    <3>2. CellNo(base, p) = v.count - 1 - k
      BY <2>1
    <3>3. v.count - 1 - k >= 1
      BY <1>0
    <3> QED BY <3>1, <3>2, <3>3
  <2>7. CASE s # 0
    <3> DEFINE q == <<i, s - 1>>
    <3>1. i = 1 => y = 0
      BY <2>5
    <3>2. BottomOf(base, i) <= s - 1
      <4>1. CASE i = 1
        <5>1. base <= s - 1
          BY <1>12, <2>6, <2>9, <3>1, <4>1
        <5> QED BY <4>1, <5>1 DEF BottomOf
      <4>2. CASE i # 1
        <5>1. 0 <= s - 1
          BY <2>7, <2>9
        <5> QED BY <4>2, <5>1 DEF BottomOf
      <4> QED BY <4>1, <4>2
    <3>3. q \in Cells(v, n, base)
      <4>1. TopOf(v, n, i) \in Int
        <5>1. v.next \in Int /\ C - 1 \in Int
          BY <1>12
        <5> QED BY <5>1 DEF TopOf
      <4>2. s - 1 \in Slots /\ s - 1 <= TopOf(v, n, i)
        BY <2>2, <2>7, <4>1 DEF Slots
      <4> QED BY <3>2, <4>2 DEF Cells
    <3>4. at[k + 1] = <<c[q[1]], q[2]>>
      BY <2>3, <2>4, <2>7 DEF Below
    <3>5. CellNo(base, q) = v.count - 1 - (k + 1)
      <4>1. CellNo(base, q) = y + (s - 1) - base
        BY <2>5 DEF CellNo
      <4> HIDE DEF q
      <4> QED BY <1>12, <2>6, <2>9, <4>1
    <3> HIDE DEF q
    <3>6. k + 1 \in 0 .. v.count - 1
      BY <1>0
    <3> QED BY <3>3, <3>4, <3>5, <3>6
  <2>8. CASE s = 0
    <3> DEFINE q == <<i - 1, C - 1>>
    <3>1. i # 1
      <4>1. i = 1 => y = 0
        BY <2>5
      <4> QED BY <2>6, <2>8, <4>1 DEF Slots
    <3>2. i \in 2 .. n /\ i - 1 \in 1 .. n /\ i - 1 # n
      BY <3>1
    <3>3. q \in Cells(v, n, base)
      BY <3>2 DEF Cells, BottomOf, TopOf, Slots
    <3>4. at[k + 1] = <<c[i - 1], C - 1>>
      <4>1. Below(v)[<<c[i], s>>] = <<ListAt(v, c[i])[0], C - 1>>
        BY <2>4, <2>8 DEF Below
      <4>2. ListAt(v, c[i])[0] = c[i - 1]
        BY <1>3, <1>5, <3>2
      <4> QED BY <2>3, <4>1, <4>2
    <3>5. CellNo(base, q) = v.count - 1 - (k + 1)
      <4>1. CellNo(base, q) = (i - 1 - 1) * C + (C - 1) - base
        BY DEF CellNo
      <4>2. PICK z \in Nat : z = (i - 1 - 1) * C
        <5>1. C \in Nat \ {0} /\ i - 1 - 1 \in Nat
          BY <3>2
        <5> HIDE DEF C
        <5> QED BY <5>1, Multiple
      <4>3. y = z + C
        BY <2>5, <4>2
      <4> HIDE DEF q
      <4>4. z + (C - 1) - base = v.count - 1 - (k + 1)
        BY <1>12, <2>6, <2>8, <2>9, <4>3
      <4> QED BY <4>1, <4>2, <4>4
    <3>6. at[k + 1] = <<c[q[1]], q[2]>>
      BY <3>4
    <3> HIDE DEF q
    <3>7. k + 1 \in 0 .. v.count - 1
      BY <1>0
    <3> QED BY <3>3, <3>5, <3>6, <3>7
  <2> QED BY <2>7, <2>8
<1>10. \A k \in 0 .. v.count - 1 : k \in S
  <2> HIDE DEF S
  <2> QED BY <1>7, <1>8, <1>9, UpTo
<1>11. ASSUME NEW k \in 1 .. v.count
       PROVE  \E p \in Cells(v, n, base) : /\ CellNo(base, p) = v.count - k
                                           /\ OrderOf(v)[k] = CellBlk(v, n, c, p)
  <2>1. k - 1 \in 0 .. v.count - 1
    BY <1>0
  <2>2. PICK p \in Cells(v, n, base) : Cell(p, k - 1)
    BY <1>10, <2>1
  <2>3. PICK i \in 1 .. n, s \in Slots :
          p = <<i, s>> /\ BottomOf(base, i) <= s /\ s <= TopOf(v, n, i)
    BY DEF Cells
  <2>4. CellNo(base, p) = v.count - k
    BY <1>0, <2>1, <2>2
  <2>5. OrderOf(v)[k] = BlkAt(v)[<<c[i], s>>]
    BY <1>2, <2>2, <2>3
  <2>6. <<c[i], s>> \in Int \X Int
    BY <1>6 DEF Slots
  <2>7. CASE s # 0
    <3>1. BlkAt(v)[<<c[i], s>>] = ListOf(v, n, c, i)[s]
      BY <1>5, <2>6, <2>7 DEF BlkAt
    <3>2. CellBlk(v, n, c, p) = ListOf(v, n, c, i)[s]
      BY <2>3, <2>7 DEF CellBlk
    <3> QED BY <2>4, <2>5, <3>1, <3>2
  <2>8. CASE s = 0
    <3>1. BlkAt(v)[<<c[i], s>>] = c[i]
      BY <2>6, <2>8 DEF BlkAt
    <3>2. CellBlk(v, n, c, p) = c[i]
      <4>1. CASE i = 1
        <5>1. base = 0
          BY <2>3, <2>8, <4>1 DEF BottomOf, Slots
        <5> QED BY <1>3, <2>3, <2>8, <4>1, <5>1 DEF CellBlk
      <4>2. CASE i # 1
        BY <2>3, <2>8, <4>2 DEF CellBlk
      <4> QED BY <4>1, <4>2
    <3> QED BY <2>4, <2>5, <3>1, <3>2
  <2> QED BY <2>7, <2>8
<1> QED BY <1>2, <1>11

\* The blocks that are allocated last in a view are those of another one when
\* the cells of the one are cells of the other and hold the same blocks.
LEMMA SameEnd ==
  ASSUME NEW v, NEW w, IsView(v), IsView(w),
         v.count = Cardinality(v.free), w.count = Cardinality(w.free),
         NEW n \in 1 .. NDBlks, NEW c \in [1 .. n -> Blk],
         NEW m \in 1 .. NDBlks, NEW d \in [1 .. m -> Blk], NEW base \in Slots,
         IsChain(v, n, c, base), IsChain(w, m, d, base),
         Cells(w, m, base) \subseteq Cells(v, n, base),
         \A p \in Cells(w, m, base) : CellBlk(w, m, d, p) = CellBlk(v, n, c, p),
         w.count <= v.count
  PROVE  \A k \in 1 .. w.count : OrderOf(w)[k] = OrderOf(v)[k + (v.count - w.count)]
<1>1. \A p, q \in Cells(v, n, base) : CellNo(base, p) = CellNo(base, q) => p = q
  <2>1. v.next \in Slots /\ n \in Nat \ {0}
    <3>1. v.next \in Slots
      BY DEF IsView
    <3>2. n \in Nat \ {0}
      BY SizesAssumption
    <3> QED BY <3>1, <3>2
  <2>2. n = 1 => base <= v.next
    BY DEF IsChain, Linked
  <2> QED BY <2>1, <2>2, CellNumbers
<1>2. \A k \in 1 .. w.count : \E p \in Cells(w, m, base) :
        CellNo(base, p) = w.count - k /\ OrderOf(w)[k] = CellBlk(w, m, d, p)
  BY OrderOfChain
<1>3. \A k \in 1 .. v.count : \E p \in Cells(v, n, base) :
        CellNo(base, p) = v.count - k /\ OrderOf(v)[k] = CellBlk(v, n, c, p)
  BY OrderOfChain
<1>4. v.count \in Nat /\ w.count \in Nat
  BY DEF IsView
<1>5. ASSUME NEW k \in 1 .. w.count
      PROVE  OrderOf(w)[k] = OrderOf(v)[k + (v.count - w.count)]
  <2>1. PICK p \in Cells(w, m, base) :
          CellNo(base, p) = w.count - k /\ OrderOf(w)[k] = CellBlk(w, m, d, p)
    BY <1>2
  <2>2. k + (v.count - w.count) \in 1 .. v.count /\ v.count - (k + (v.count - w.count)) = w.count - k
    BY <1>4
  <2>3. PICK q \in Cells(v, n, base) :
          CellNo(base, q) = v.count - (k + (v.count - w.count)) /\ OrderOf(v)[k + (v.count - w.count)] = CellBlk(v, n, c, q)
    BY <1>3, <2>2
  <2>4. p = q
    BY <1>1, <2>1, <2>2, <2>3
  <2> QED BY <2>1, <2>3, <2>4
<1> QED BY <1>5

-----------------------------------------------------------------------------
(* What an allocation and a release do to the list, seen from outside.     *)

Sound(v) == IsView(v) /\ Exact(v)

\* Block b was the next to be allocated in v, and is not in w.
Popped(v, w, b) ==
  /\ v.count = w.count + 1
  /\ OrderOf(v)[1] = b
  /\ \A k \in 1 .. w.count : OrderOf(w)[k] = OrderOf(v)[k + 1]

SameOrder(v, w) ==
  /\ w.count = v.count
  /\ \A k \in 1 .. v.count : OrderOf(w)[k] = OrderOf(v)[k]

\* The blocks to be allocated are the free ones.
LEMMA OrderInFree ==
  ASSUME NEW v, Sound(v)
  PROVE  /\ DOMAIN OrderOf(v) = 1 .. v.count
         /\ \A k \in 1 .. v.count : OrderOf(v)[k] \in v.free
<1>1. DOMAIN OrderOf(v) = 1 .. v.count
  <2>1. v.count \in Nat
    BY DEF Sound, IsView
  <2>2. PICK at : OrderOf(v) = [k \in 1 .. v.count |-> BlkAt(v)[at[k - 1]]]
    BY <2>1, OrderIs
  <2> QED BY <2>2
<1>2. ASSUME NEW k \in 1 .. v.count
      PROVE  OrderOf(v)[k] \in v.free
  <2>1. v.count = Cardinality(v.free) /\ v.free \in SUBSET Blk /\ IsView(v)
    BY DEF Sound, Exact, IsView
  <2>2. v.free # {}
    <3>1. v.count \in 0 .. NDBlks /\ v.count # 0
      BY DEF Sound, IsView
    <3> QED BY <2>1, <3>1, FreeFinite
  <2>3. PICK n \in 1 .. NDBlks : \E c \in [1 .. n -> Blk], base \in Slots :
          IsChain(v, n, c, base)
    BY <2>2, Witness DEF Sound
  <2>4. PICK c \in [1 .. n -> Blk], base \in Slots : IsChain(v, n, c, base)
    BY <2>3
  <2>5. PICK p \in Cells(v, n, base) : OrderOf(v)[k] = CellBlk(v, n, c, p)
    BY <2>1, <2>4, OrderOfChain
  <2>6. CellBlk(v, n, c, p) \in v.free
    BY <2>4 DEF IsChain, CellsExact
  <2> QED BY <2>5, <2>6
<1> QED BY <1>1, <1>2

LEMMA PopCell ==
  ASSUME NEW v, NEW w, IsView(v), IsView(w),
         v.count = Cardinality(v.free), w.count = Cardinality(w.free),
         NEW n \in 1 .. NDBlks, NEW c \in [1 .. n -> Blk],
         NEW m \in 1 .. NDBlks, NEW d \in [1 .. m -> Blk], NEW base \in Slots,
         IsChain(v, n, c, base), IsChain(w, m, d, base),
         NEW top \in Cells(v, n, base),
         Cells(w, m, base) \subseteq Cells(v, n, base),
         \A p \in Cells(v, n, base) : p # top => p \in Cells(w, m, base),
         \A p \in Cells(w, m, base) : CellBlk(w, m, d, p) = CellBlk(v, n, c, p),
         v.count = w.count + 1
  PROVE  Popped(v, w, CellBlk(v, n, c, top))
<1>3. v.count \in Nat /\ w.count \in Nat
  BY DEF IsView
<1>1. w.count <= v.count /\ v.count - w.count = 1
  BY <1>3
<1>2. \A k \in 1 .. w.count : OrderOf(w)[k] = OrderOf(v)[k + 1]
  <2>1. \A k \in 1 .. w.count : OrderOf(w)[k] = OrderOf(v)[k + (v.count - w.count)]
    BY <1>1, SameEnd
  <2> QED BY <1>1, <2>1
<1>4. 1 \in 1 .. v.count
  BY <1>3
<1>5. PICK q \in Cells(v, n, base) :
        CellNo(base, q) = v.count - 1 /\ OrderOf(v)[1] = CellBlk(v, n, c, q)
  <2>1. \A k \in 1 .. v.count : \E q \in Cells(v, n, base) :
          CellNo(base, q) = v.count - k /\ OrderOf(v)[k] = CellBlk(v, n, c, q)
    BY OrderOfChain
  <2> QED BY <1>4, <2>1
<1>6. q = top
  <2>1. SUFFICES ASSUME q # top PROVE FALSE
    OBVIOUS
  <2>2. q \in Cells(w, m, base)
    BY <2>1
  <2>3. \A p \in Cells(w, m, base) : CellNo(base, p) \in 0 .. TopNo(w, m, base)
    <3>1. w.next \in Slots /\ m \in Nat \ {0}
      <4>1. w.next \in Slots
        BY DEF IsView
      <4>2. m \in Nat \ {0}
        BY SizesAssumption
      <4> QED BY <4>1, <4>2
    <3>2. m = 1 => base <= w.next
      BY DEF IsChain, Linked
    <3> QED BY <3>1, <3>2, CellNumbers
  <2>4. w.count = TopNo(w, m, base) + 1
    BY CellCount
  <2>5. CellNo(base, q) = w.count
    BY <1>3, <1>5
  <2>6. CellNo(base, q) \in 0 .. TopNo(w, m, base)
    BY <2>2, <2>3
  <2>7. w.count \in 0 .. w.count - 1
    <3>1. TopNo(w, m, base) \in Nat
      <4>1. w.next \in Slots
        BY DEF IsView
      <4>2. m \in Nat \ {0}
        BY SizesAssumption
      <4>3. m = 1 => base <= w.next
        BY DEF IsChain, Linked
      <4> QED BY <4>1, <4>2, <4>3, CellNumbers
    <3> QED BY <1>3, <2>4, <2>5, <2>6, <3>1
  <2> QED BY <1>3, <2>7
<1> QED BY <1>2, <1>5, <1>6 DEF Popped

LEMMA SameCells ==
  ASSUME NEW v, NEW w, IsView(v), IsView(w),
         v.count = Cardinality(v.free), w.count = Cardinality(w.free),
         NEW n \in 1 .. NDBlks, NEW c \in [1 .. n -> Blk], NEW base \in Slots,
         IsChain(v, n, c, base), IsChain(w, n, c, base),
         Cells(w, n, base) = Cells(v, n, base),
         \A p \in Cells(w, n, base) : CellBlk(w, n, c, p) = CellBlk(v, n, c, p),
         w.count = v.count
  PROVE  SameOrder(v, w)
<1>1. v.count \in Nat /\ w.count \in Nat
  BY DEF IsView
<1>2. w.count <= v.count
  BY <1>1
<1>3. \A k \in 1 .. w.count : OrderOf(w)[k] = OrderOf(v)[k + (v.count - w.count)]
  BY <1>2, SameEnd
<1>4. ASSUME NEW k \in 1 .. v.count PROVE OrderOf(w)[k] = OrderOf(v)[k]
  <2>1. k + (v.count - w.count) = k
    BY <1>1
  <2> QED BY <1>3, <2>1
<1> QED BY <1>4 DEF SameOrder

-----------------------------------------------------------------------------
(* allocDBlk                                                               *)

TakesSlot(v, w) ==
  /\ v.count # 0 /\ v.next # 0
  /\ w.free = v.free \ {v.cache[v.next]}
  /\ w.count = v.count - 1
  /\ w.head = v.head
  /\ w.next = v.next - 1
  /\ w.cache = [v.cache EXCEPT ![v.next] = -1]
  /\ w.lists = v.lists

LEMMA FreeBlocks ==
  ASSUME NEW v, Sound(v)
  PROVE  /\ v.free \in SUBSET Blk
         /\ v.count \in Nat
         /\ v.count = Cardinality(v.free)
         /\ v.count = 0 <=> v.free = {}
BY FreeFinite DEF Sound, Exact, IsView

\* The last block of the list is its last free one.
LEMMA PopLast ==
  ASSUME NEW v, NEW w, Sound(v), NEW b \in v.free, v.count = w.count + 1,
         w.free = {}, w.count = 0, v.free = {b}
  PROVE  Popped(v, w, b)
<1>1. 1 \in 1 .. v.count
  BY FreeBlocks
<1>2. OrderOf(v)[1] \in v.free
  BY <1>1, OrderInFree
<1>3. 1 .. w.count = {}
  OBVIOUS
<1> QED BY <1>2, <1>3 DEF Popped

LEMMA TakeSlotList ==
  ASSUME NEW v, NEW w, Sound(v), TakesSlot(v, w)
  PROVE  /\ v.cache[v.next] \in v.free
         /\ Sound(w)
         /\ Popped(v, w, v.cache[v.next])
<1> USE SizesAssumption
<1> DEFINE b == v.cache[v.next]
<1>1. /\ IsView(v) /\ v.free \in SUBSET Blk /\ v.count \in Nat
      /\ v.count = Cardinality(v.free)
      /\ v.free # {}
  BY FreeBlocks DEF Sound, TakesSlot
<1>2. PICK n \in 1 .. NDBlks : \E c \in [1 .. n -> Blk], base \in Slots :
        IsChain(v, n, c, base)
  BY <1>1, Witness DEF Sound
<1>3. PICK c \in [1 .. n -> Blk], base \in Slots : IsChain(v, n, c, base)
  BY <1>2
<1> DEFINE top == <<n, v.next>>
<1>4. /\ v.next \in Slots /\ w.next \in Slots /\ v.next # 0
      /\ w.next = v.next - 1 /\ w.next # v.next
      /\ v.cache \in [Slots -> Int]
      /\ w.cache = [v.cache EXCEPT ![v.next] = -1]
      /\ w.cache \in [Slots -> Int]
      /\ w.head = v.head
      /\ w.lists = v.lists
  <2>1. v.next \in Slots /\ v.cache \in [Slots -> Int]
    BY <1>1 DEF IsView
  <2>2. /\ w.next = v.next - 1 /\ v.next # 0 /\ w.head = v.head /\ w.lists = v.lists
        /\ w.cache = [v.cache EXCEPT ![v.next] = -1]
    BY DEF TakesSlot
  <2>3. w.next \in Slots /\ w.next # v.next
    BY <2>1, <2>2 DEF Slots
  <2>4. w.cache \in [Slots -> Int]
    BY <2>1, <2>2
  <2> QED BY <2>1, <2>2, <2>3, <2>4
<1>5. top \in Cells(v, n, base) /\ CellBlk(v, n, c, top) = b
  <2>1. n = 1 => base <= v.next
    BY <1>3 DEF IsChain, Linked
  <2>2. top \in Cells(v, n, base)
    BY SMTT(30), <1>4, <2>1 DEF Cells, BottomOf, TopOf, Slots
  <2>3. CellBlk(v, n, c, top) = b
    BY <1>4 DEF CellBlk, ListOf
  <2> QED BY <2>2, <2>3
<1>6. b \in v.free
  BY <1>3, <1>5 DEF IsChain, CellsExact
<1>7. /\ w.free = v.free \ {b} /\ w.free \in SUBSET Blk
      /\ Cardinality(w.free) = Cardinality(v.free) - 1
      /\ w.count = Cardinality(w.free)
      /\ w.count \in 0 .. NDBlks
  <2>1. w.free = v.free \ {b} /\ w.count = v.count - 1
    BY DEF TakesSlot
  <2>2. Cardinality(v.free \ {b}) = Cardinality(v.free) - 1
    BY <1>1, <1>6, FreeLess
  <2>3. w.free \in SUBSET Blk
    BY <1>1, <2>1
  <2>4. Cardinality(w.free) \in 0 .. NDBlks
    BY <2>3, FreeFinite
  <2> QED BY <1>1, <2>1, <2>2, <2>3, <2>4
<1>8. Cells(w, n, base) = Cells(v, n, base) \ {top}
  BY <1>4 DEF Cells, BottomOf, TopOf, Slots
<1>9. \A p \in Cells(v, n, base) \ {top} : CellBlk(w, n, c, p) = CellBlk(v, n, c, p)
  BY <1>4 DEF CellBlk, ListOf, Cells, Slots
<1>10. CellsExact(w, n, c, base)
  BY <1>3, <1>5, <1>7, <1>8, <1>9, DropCell DEF IsChain
<1>11. ASSUME w.free # {} PROVE IsChain(w, n, c, base)
  <2>1. PICK p \in Cells(w, n, base) : TRUE
    BY <1>10, <1>11 DEF CellsExact
  <2>2. n = 1 => base <= v.next - 1
    BY <2>1, <1>4 DEF Cells, BottomOf, TopOf, Slots
  <2>3. \A i \in 2 .. n : ListOf(w, n, c, i)[0] = ListOf(v, n, c, i)[0]
    BY <1>4 DEF ListOf, Slots
  <2>4. ListOf(w, n, c, 1)[base] = ListOf(v, n, c, 1)[base]
    BY <1>4, <2>2 DEF ListOf, Slots
  <2>5. Linked(w, n, c, base)
    BY <1>3, <1>4, <2>2, <2>3, <2>4 DEF IsChain, Linked
  <2> QED BY <1>10, <2>5 DEF IsChain
<1>12. IsView(w)
  BY <1>1, <1>4, <1>7 DEF IsView
<1>13. Exact(w)
  BY <1>7, <1>11 DEF Exact
<1>14. v.count = w.count + 1
  BY <1>1 DEF TakesSlot
<1>15. Popped(v, w, b)
  <2>1. CASE w.free = {}
    <3>1. v.free = {b}
      BY <1>6, <1>7, <2>1
    <3>2. w.count = 0
      BY <1>7, <2>1, FreeFinite
    <3> HIDE DEF b
    <3> QED BY <1>6, <1>14, <2>1, <3>1, <3>2, PopLast
  <2>2. CASE w.free # {}
    <3>1. IsChain(w, n, c, base)
      BY <1>11, <2>2
    <3>2. \A p \in Cells(v, n, base) : p # top => p \in Cells(w, n, base)
      BY <1>8
    <3>3. Cells(w, n, base) \subseteq Cells(v, n, base)
      BY <1>8
    <3>4. \A p \in Cells(w, n, base) : CellBlk(w, n, c, p) = CellBlk(v, n, c, p)
      BY <1>8, <1>9
    <3> HIDE DEF top
    <3>5. Popped(v, w, CellBlk(v, n, c, top))
      BY <1>1, <1>3, <1>5, <1>7, <1>12, <1>14, <3>1, <3>2, <3>3, <3>4, PopCell
    <3> QED BY <1>5, <3>5
  <2> QED BY <2>1, <2>2
<1> QED BY <1>6, <1>12, <1>13, <1>15 DEF Sound

\* The list block in use leaves the chain with its last cell.
TakesHead(v, w) ==
  LET zeros == [s \in Slots |-> 0]
  IN  /\ v.count # 0 /\ v.next = 0
      /\ w.free = v.free \ {v.head}
      /\ w.count = v.count - 1
      /\ w.lists = [v.lists EXCEPT ![v.head] = zeros]
      /\ IF v.count > 1
           THEN /\ w.head = v.cache[0]
                /\ w.cache = w.lists[v.cache[0]]
                /\ w.next = CacheSize - 1
           ELSE w.head = v.head /\ w.cache = zeros /\ w.next = v.next

LEMMA TakeHeadList ==
  ASSUME NEW v, NEW w, Sound(v), TakesHead(v, w)
  PROVE  v.head \in v.free /\ Sound(w) /\ Popped(v, w, v.head)
<1> USE SizesAssumption
<1> DEFINE zeros == [s \in Slots |-> 0]
           next  == v.cache[0]
           b     == v.head
<1>1. /\ IsView(v) /\ v.free \in SUBSET Blk /\ v.count \in Nat
      /\ v.count = Cardinality(v.free)
      /\ v.free # {}
  BY FreeBlocks DEF Sound, TakesHead
<1>2. PICK n \in 1 .. NDBlks : \E c \in [1 .. n -> Blk], base \in Slots :
        IsChain(v, n, c, base)
  BY <1>1, Witness DEF Sound
<1>3. PICK c \in [1 .. n -> Blk], base \in Slots : IsChain(v, n, c, base)
  BY <1>2
<1>4. c[n] = b /\ v.next = 0 /\ n \in 1 .. n
  BY <1>3 DEF IsChain, Linked, TakesHead
<1>0. /\ \A i \in 2 .. n : <<i, 0>> \in Cells(v, n, base)
      /\ \A i \in 2 .. n : CellBlk(v, n, c, <<i, 0>>) = c[i]
      /\ CellBlk(v, n, c, <<1, base>>) = c[1]
      /\ \A i \in 1 .. n : c[i] \in v.free
      /\ \A i, j \in 1 .. n : c[i] = c[j] => i = j
  <2>1. /\ \A i \in 2 .. n : <<i, 0>> \in Cells(v, n, base)
        /\ \A i \in 2 .. n : CellBlk(v, n, c, <<i, 0>>) = c[i]
        /\ CellBlk(v, n, c, <<1, base>>) = c[1]
    BY <1>1, <1>3, ChainCells
  <2>2. \A i \in 1 .. n : c[i] \in v.free
    BY <1>1, <1>3, ChainFree
  <2>3. \A i, j \in 1 .. n : c[i] = c[j] => i = j
    BY <1>1, <1>3, ChainInjective
  <2> QED BY <2>1, <2>2, <2>3
<1>5. b \in v.free
  BY <1>4, <1>0
<1>6. /\ w.free = v.free \ {b} /\ w.free \in SUBSET Blk
      /\ w.count = v.count - 1
      /\ w.count = Cardinality(w.free)
      /\ w.count \in 0 .. NDBlks
      /\ v.count = w.count + 1
  <2>1. w.free = v.free \ {b} /\ w.count = v.count - 1
    BY DEF TakesHead
  <2>2. Cardinality(v.free \ {b}) = Cardinality(v.free) - 1
    BY <1>1, <1>5, FreeLess
  <2>3. w.free \in SUBSET Blk
    BY <1>1, <2>1
  <2>4. Cardinality(w.free) \in 0 .. NDBlks
    BY <2>3, FreeFinite
  <2> QED BY <1>1, <2>1, <2>2, <2>3, <2>4
<1>9. /\ b \in Blk
      /\ v.lists \in [Blk -> [Slots -> Int]]
      /\ w.lists = [v.lists EXCEPT ![b] = zeros]
      /\ w.lists \in [Blk -> [Slots -> Int]]
      /\ zeros \in [Slots -> Int]
  BY SMTT(30), <1>1 DEF TakesHead, IsView
<1>10. CASE n = 1
  <2>1. base = 0
    BY <1>3, <1>4, <1>10 DEF IsChain, Linked, Slots
  <2>2. Cells(v, n, base) = {<<1, 0>>}
    BY <1>4, <1>10, <2>1 DEF Cells, BottomOf, TopOf, Slots
  <2>3. CellBlk(v, n, c, <<1, 0>>) = b
    BY <1>0, <1>4, <1>10, <2>1
  <2>4. v.free = {b}
    BY <1>3, <1>5, <2>2, <2>3 DEF IsChain, CellsExact
  <2>5. w.free = {}
    BY <1>6, <2>4
  <2>6. v.count = 1 /\ w.count = 0
    <3>1. Cardinality({b}) = 1
      BY FS_Singleton
    <3>2. Cardinality(v.free) = 1
      BY <2>4, <3>1
    <3>3. v.count = 1 /\ w.count = v.count - 1
      BY <1>1, <1>6, <3>2
    <3> QED BY <3>3
  <2>7. w.head = b /\ w.next = v.next /\ w.cache = zeros
    BY <2>6 DEF TakesHead
  <2>8. IsView(w)
    BY <1>1, <1>6, <1>9, <2>7 DEF IsView
  <2>9. Exact(w)
    BY <1>6, <2>5 DEF Exact
  <2>10. Popped(v, w, b)
    <3> HIDE DEF b
    <3> QED BY <1>5, <1>6, <2>4, <2>5, <2>6, PopLast
  <2> QED BY <1>5, <2>8, <2>9, <2>10 DEF Sound
<1>11. CASE n # 1
  <2> DEFINE m == n - 1
             d == [i \in 1 .. m |-> c[i]]
             top == <<n, 0>>
  <2>1. /\ m \in 1 .. NDBlks /\ n \in 2 .. NDBlks /\ m < n
        /\ d \in [1 .. m -> Blk]
        /\ \A i \in 1 .. m : d[i] = c[i]
    BY <1>11
  <2>2. next = c[m]
    BY <1>3, <1>4, <2>1 DEF IsChain, Linked, ListOf
  <2>3. \A i \in 1 .. m : c[i] \in v.free /\ c[i] # b
    BY <1>0, <1>4, <2>1
  <2>4. v.count > 1
    <3>1. c[m] \in w.free
      BY <1>6, <2>1, <2>3
    <3>2. w.count # 0
      BY <1>6, <3>1, FreeFinite
    <3> QED BY <1>1, <1>6, <3>2
  <2>5. /\ w.head = next
        /\ w.cache = v.lists[next]
        /\ w.next = CacheSize - 1
    BY <1>9, <2>1, <2>2, <2>3, <2>4 DEF TakesHead
  <2>6. IsView(w)
    <3>1. next \in Blk
      BY <2>1, <2>2
    <3>2. w.cache \in [Slots -> Int]
      BY <1>9, <2>5, <3>1
    <3>3. w.next \in Slots
      BY <2>5 DEF Slots
    <3>4. w.head \in Blk
      BY <2>5, <3>1
    <3> HIDE DEF zeros, next, b
    <3> QED BY <1>6, <1>9, <3>2, <3>3, <3>4 DEF IsView
  <2>7. ASSUME NEW i \in 1 .. m PROVE ListOf(w, m, d, i) = ListOf(v, n, c, i)
    <3>1. i # n /\ d[i] = c[i] /\ c[i] \in Blk /\ c[i] # b
      BY <2>1, <2>3
    <3> HIDE DEF b, next, zeros, d
    <3>2. w.lists[c[i]] = v.lists[c[i]]
      BY <1>9, <3>1
    <3>3. i = m => w.cache = v.lists[c[i]]
      BY <2>2, <2>5
    <3> HIDE DEF m
    <3> QED BY <3>1, <3>2, <3>3 DEF ListOf
  <2>8. \A i \in 1 .. m : TopOf(w, m, i) = TopOf(v, n, i)
    BY <2>1, <2>5 DEF TopOf
  <2>9. Cells(w, m, base) = Cells(v, n, base) \ {top}
    <3>1. TopOf(v, n, n) = 0 /\ BottomOf(base, n) = 0
      BY <1>4, <1>11 DEF TopOf, BottomOf
    <3>3. ASSUME NEW i \in 1 .. n, NEW s \in Slots
          PROVE  <<i, s>> \in Cells(w, m, base)
                 <=> <<i, s>> \in Cells(v, n, base) /\ <<i, s>> # <<n, 0>>
      <4>1. CASE i = n
        BY <4>1, <3>1, <2>1 DEF Cells, Slots
      <4>2. CASE i # n
        BY <4>2, <2>1, <2>8 DEF Cells
      <4> QED BY <4>1, <4>2
    <3>4. Cells(w, m, base) \subseteq (1 .. n) \X Slots
      BY <2>1 DEF Cells
    <3>5. Cells(v, n, base) \subseteq (1 .. n) \X Slots
      BY DEF Cells
    <3> QED BY <3>3, <3>4, <3>5
  <2>10. top \in Cells(v, n, base) /\ CellBlk(v, n, c, top) = b
    BY <1>0, <1>4, <2>1
  <2>11. ASSUME NEW p \in Cells(v, n, base) \ {top}
         PROVE  CellBlk(w, m, d, p) = CellBlk(v, n, c, p)
    <3>1. p \in Cells(w, m, base)
      BY <2>9
    <3>2. p[1] \in 1 .. m
      BY <3>1 DEF Cells
    <3> QED BY <2>1, <2>7, <3>2 DEF CellBlk
  <2>12. CellsExact(w, m, d, base)
    BY SMTT(30), <1>3, <1>6, <2>9, <2>10, <2>11, DropCell DEF IsChain
  <2>13. Linked(w, m, d, base)
    <3>1. d[m] = w.head
      BY <2>1, <2>2, <2>5
    <3>2. \A i \in 2 .. m : ListOf(w, m, d, i)[0] = d[i - 1]
      BY <1>3, <2>1, <2>7 DEF IsChain, Linked
    <3>3. ListOf(w, m, d, 1)[base] = d[1]
      BY <1>3, <2>1, <2>7 DEF IsChain, Linked
    <3>4. base <= w.next
      BY <2>5 DEF Slots
    <3> QED BY <3>1, <3>2, <3>3, <3>4 DEF Linked
  <2>14. IsChain(w, m, d, base)
    BY <2>12, <2>13 DEF IsChain
  <2>15. Exact(w)
    <3> HIDE DEF m, d
    <3> QED BY <1>6, <2>1, <2>14 DEF Exact
  <2>16. Popped(v, w, b)
    <3>1. \A p \in Cells(v, n, base) : p # top => p \in Cells(w, m, base)
      BY <2>9
    <3>2. Cells(w, m, base) \subseteq Cells(v, n, base)
      BY <2>9
    <3>3. \A p \in Cells(w, m, base) : CellBlk(w, m, d, p) = CellBlk(v, n, c, p)
      BY <2>9, <2>11
    <3> HIDE DEF m, d, top
    <3>4. Popped(v, w, CellBlk(v, n, c, top))
      BY <1>1, <1>3, <1>6, <2>1, <2>6, <2>10, <2>14, <3>1, <3>2, <3>3, PopCell
    <3> QED BY <2>10, <3>4
  <2> QED BY <1>5, <2>6, <2>15, <2>16 DEF Sound
<1> QED BY <1>10, <1>11

-----------------------------------------------------------------------------
(* freeDBlk                                                                *)

\* With no other free block, the block is a chain of its own.
AddsFirst(v, w, b) ==
  /\ v.count = 0
  /\ w.free = v.free \union {b}
  /\ w.count = v.count + 1
  /\ w.head = b
  /\ w.next = 0
  /\ w.cache = [v.cache EXCEPT ![0] = b]
  /\ w.lists = v.lists

LEMMA FreeFirstList ==
  ASSUME NEW v, NEW w, NEW b, b \in Blk, b \notin v.free, Sound(v), AddsFirst(v, w, b)
  PROVE  Sound(w) /\ Popped(w, v, b)
<1> USE SizesAssumption
<1>1. /\ IsView(v) /\ v.free = {} /\ v.count = 0
      /\ w.free = {b} /\ w.count = 1 /\ w.head = b /\ w.next = 0
      /\ w.cache = [v.cache EXCEPT ![0] = b]
      /\ w.lists = v.lists
  <2>1. v.count = 0 /\ w.count = v.count + 1
    BY DEF AddsFirst
  <2>2. v.free = {} /\ w.count = 1
    BY <2>1, FreeBlocks
  <2> QED BY <2>1, <2>2 DEF Sound, AddsFirst
<1>2. 0 \in Slots /\ b \in Int
  BY DEF Slots, Blk
<1>3. IsView(w)
  <2>1. w.cache \in [Slots -> Int]
    BY <1>1, <1>2 DEF IsView
  <2>2. w.count \in 0 .. NDBlks
    BY <1>1
  <2> QED BY <1>1, <1>2, <2>1, <2>2 DEF IsView
<1>4. w.cache[0] = b
  BY <1>1, <1>2 DEF IsView
<1> DEFINE c == [i \in 1 .. 1 |-> b]
<1>5. c \in [1 .. 1 -> Blk] /\ c[1] = b
  OBVIOUS
<1>6. Cells(w, 1, 0) = {<<1, 0>>}
  BY <1>1, <1>2 DEF Cells, TopOf, BottomOf, Slots
<1>7. CellBlk(w, 1, c, <<1, 0>>) = b
  BY <1>4 DEF CellBlk, ListOf
<1>8. CellsExact(w, 1, c, 0)
  BY <1>1, <1>6, <1>7 DEF CellsExact
<1>9. Linked(w, 1, c, 0)
  <2>1. ListOf(w, 1, c, 1)[0] = c[1]
    BY <1>4, <1>5 DEF ListOf
  <2> QED BY <1>1, <1>5, <2>1 DEF Linked
<1>10. Exact(w)
  <2>1. 1 \in 1 .. NDBlks
    OBVIOUS
  <2>2. IsChain(w, 1, c, 0)
    BY <1>8, <1>9 DEF IsChain
  <2> HIDE DEF c
  <2>3. \E n \in 1 .. NDBlks : \E d \in [1 .. n -> Blk], base \in Slots :
          IsChain(w, n, d, base)
    BY <1>2, <1>5, <2>1, <2>2
  <2>4. Cardinality(w.free) = 1
    BY <1>1, FS_Singleton
  <2> QED BY <1>1, <2>3, <2>4 DEF Exact
<1>11. Sound(w)
  BY <1>3, <1>10 DEF Sound
<1>12. Popped(w, v, b)
  <2>1. b \in w.free
    BY <1>1
  <2>2. w.count = v.count + 1
    BY <1>1
  <2> QED BY <1>1, <1>11, <2>1, <2>2, PopLast
<1> QED BY <1>11, <1>12

\* With a full cache, the block starts a new list block on top of the chain.
AddsSpill(v, w, b) ==
  /\ v.count # 0 /\ v.next = CacheSize - 1
  /\ w.free = v.free \union {b}
  /\ w.count = v.count + 1
  /\ w.head = b
  /\ w.next = 0
  /\ w.cache = [s \in Slots |-> IF s = 0 THEN v.head ELSE -1]
  /\ w.lists = [v.lists EXCEPT ![v.head] = v.cache]

LEMMA FreeSpillList ==
  ASSUME NEW v, NEW w, NEW b, b \in Blk, b \notin v.free, Sound(v), AddsSpill(v, w, b)
  PROVE  Sound(w) /\ Popped(w, v, b)
<1> USE SizesAssumption
<1>1. /\ IsView(v) /\ v.free \in SUBSET Blk /\ v.count \in Nat
      /\ v.count = Cardinality(v.free)
      /\ v.free # {}
  BY FreeBlocks DEF Sound, AddsSpill
<1>2. /\ w.free = v.free \union {b} /\ w.free \in SUBSET Blk
      /\ w.count = v.count + 1
      /\ w.count = Cardinality(w.free)
      /\ w.count \in 0 .. NDBlks
  <2>1. w.free = v.free \union {b} /\ w.count = v.count + 1
    BY DEF AddsSpill
  <2>2. /\ Cardinality(v.free \union {b}) = Cardinality(v.free) + 1
        /\ Cardinality(v.free \union {b}) \in 0 .. NDBlks
    BY <1>1, FreeMore
  <2> QED BY <1>1, <2>1, <2>2
<1>3. PICK n \in 1 .. NDBlks : \E c \in [1 .. n -> Blk], base \in Slots :
        IsChain(v, n, c, base)
  BY <1>1, Witness DEF Sound
<1>4. PICK c \in [1 .. n -> Blk], base \in Slots : IsChain(v, n, c, base)
  BY <1>3
<1>5. /\ \A i \in 1 .. n : c[i] \in v.free
      /\ \A i, j \in 1 .. n : c[i] = c[j] => i = j
  <2>1. \A i \in 1 .. n : c[i] \in v.free
    BY <1>1, <1>4, ChainFree
  <2>2. \A i, j \in 1 .. n : c[i] = c[j] => i = j
    BY <1>1, <1>4, ChainInjective
  <2> QED BY <2>1, <2>2
<1>6. c[n] = v.head /\ n \in 1 .. n
  BY <1>4 DEF IsChain, Linked
<1>7. /\ v.head \in Blk
      /\ v.lists \in [Blk -> [Slots -> Int]]
      /\ w.lists = [v.lists EXCEPT ![v.head] = v.cache]
      /\ w.lists \in [Blk -> [Slots -> Int]]
      /\ w.cache[0] = v.head
      /\ w.cache \in [Slots -> Int]
      /\ v.next = CacheSize - 1 /\ w.next = 0 /\ w.head = b
  <2>1. v.head \in Blk /\ v.head \in Int /\ 0 \in Slots
    BY <1>1 DEF IsView, Blk, Slots
  <2>2. w.cache \in [Slots -> Int] /\ w.cache[0] = v.head
    BY <2>1 DEF AddsSpill
  <2>3. v.cache \in [Slots -> Int] /\ v.lists \in [Blk -> [Slots -> Int]]
    BY <1>1 DEF IsView
  <2> QED BY SMTT(30), <2>1, <2>2, <2>3 DEF AddsSpill
<1> DEFINE m == n + 1
           d == [i \in 1 .. m |-> IF i = m THEN b ELSE c[i]]
           top == <<m, 0>>
<1>8. /\ m \in Nat /\ n \in 1 .. m /\ m # n /\ m - 1 = n
      /\ d \in [1 .. m -> Blk]
      /\ d[m] = b
      /\ \A i \in 1 .. n : i \in 1 .. m /\ i # m /\ d[i] = c[i]
  OBVIOUS
<1>9. m \in 1 .. NDBlks
  <2>1. ASSUME NEW i \in 1 .. m, NEW j \in 1 .. m, d[i] = d[j] PROVE i = j
    <3>1. (i = m \/ i \in 1 .. n) /\ (j = m \/ j \in 1 .. n)
      OBVIOUS
    <3> HIDE DEF d
    <3> QED BY <1>5, <1>8, <2>1, <3>1
  <2> HIDE DEF d
  <2>2. m <= NDBlks
    BY <1>8, <2>1, ChainLength
  <2> QED BY <2>2
<1>10. ASSUME NEW i \in 1 .. n
       PROVE  /\ ListOf(w, m, d, i) = ListOf(v, n, c, i)
              /\ TopOf(w, m, i) = TopOf(v, n, i)
  <2>1. i # m /\ d[i] = c[i]
    BY <1>8
  <2> HIDE DEF m, d
  <2>2. CASE i = n
    BY <1>6, <1>7, <2>1, <2>2 DEF ListOf, TopOf
  <2>3. CASE i # n
    <3>1. c[i] # v.head /\ c[i] \in Blk
      BY <1>5, <1>6, <2>3
    <3> QED BY <1>7, <2>1, <2>3, <3>1 DEF ListOf, TopOf
  <2> QED BY <2>2, <2>3
<1>11. ListOf(w, m, d, m) = w.cache /\ TopOf(w, m, m) = 0
  BY <1>7 DEF ListOf, TopOf
<1>12. Cells(w, m, base) = Cells(v, n, base) \union {top}
  <2>1. ASSUME NEW i \in 1 .. m, NEW s \in Slots
        PROVE  <<i, s>> \in Cells(w, m, base)
               <=> <<i, s>> \in Cells(v, n, base) \/ <<i, s>> = <<m, 0>>
    <3>1. CASE i = m
      BY <1>11, <3>1 DEF Cells, BottomOf, Slots
    <3>2. CASE i # m
      <4>1. i \in 1 .. n
        BY <3>2
      <4> QED BY <1>10, <3>2, <4>1 DEF Cells, BottomOf
    <3> QED BY <3>1, <3>2
  <2>2. Cells(w, m, base) \subseteq (1 .. m) \X Slots
    BY DEF Cells
  <2>3. Cells(v, n, base) \subseteq (1 .. m) \X Slots
    BY DEF Cells
  <2>4. 0 \in Slots
    BY DEF Slots
  <2> QED BY <2>1, <2>2, <2>3, <2>4
<1>13. top \notin Cells(v, n, base)
  BY DEF Cells
<1>14. CellBlk(w, m, d, top) = b
  BY <1>8 DEF CellBlk
<1>15. ASSUME NEW p \in Cells(v, n, base)
       PROVE  CellBlk(w, m, d, p) = CellBlk(v, n, c, p)
  <2>1. p[1] \in 1 .. n
    BY DEF Cells
  <2> HIDE DEF d
  <2> QED BY <1>8, <1>10, <2>1 DEF CellBlk
<1> HIDE DEF top
<1>16. CellsExact(w, m, d, base)
  <2> HIDE DEF m, d
  <2> QED BY <1>2, <1>4, <1>12, <1>13, <1>14, <1>15, AddCell DEF IsChain
<1>17. Linked(w, m, d, base)
  <2>1. d[m] = w.head
    BY <1>7, <1>8
  <2>2. ASSUME NEW i \in 2 .. m PROVE ListOf(w, m, d, i)[0] = d[i - 1]
    <3>1. CASE i = m
      BY <1>6, <1>7, <1>8, <1>11, <3>1
    <3>2. CASE i # m
      <4>1. i \in 2 .. n /\ i - 1 \in 1 .. n
        BY <3>2
      <4>2. ListOf(v, n, c, i)[0] = c[i - 1]
        BY <1>4, <4>1 DEF IsChain, Linked
      <4> QED BY <1>8, <1>10, <4>1, <4>2
    <3> QED BY <3>1, <3>2
  <2>3. ListOf(w, m, d, 1)[base] = d[1]
    BY <1>4, <1>8, <1>10 DEF IsChain, Linked
  <2> HIDE DEF d
  <2> QED BY <1>8, <2>1, <2>2, <2>3 DEF Linked
<1> HIDE DEF m, d
<1>18. IsChain(w, m, d, base)
  BY <1>16, <1>17 DEF IsChain
<1>19. Exact(w)
  BY <1>2, <1>8, <1>9, <1>18 DEF Exact
<1>20. IsView(w)
  <2>1. w.next \in Slots
    BY <1>7 DEF Slots
  <2> QED BY <1>2, <1>7, <2>1 DEF IsView
<1>21. Popped(w, v, b)
  <2>1. \A p \in Cells(w, m, base) : p # top => p \in Cells(v, n, base)
    BY <1>12
  <2>2. Cells(v, n, base) \subseteq Cells(w, m, base) /\ top \in Cells(w, m, base)
    BY <1>12
  <2>3. \A p \in Cells(v, n, base) : CellBlk(v, n, c, p) = CellBlk(w, m, d, p)
    BY <1>15
  <2>4. Popped(w, v, CellBlk(w, m, d, top))
    BY ZenonT(30), <1>1, <1>2, <1>4, <1>8, <1>9, <1>18, <1>20, <2>1, <2>2, <2>3, PopCell
  <2> QED BY <1>14, <2>4
<1> QED BY <1>19, <1>20, <1>21 DEF Sound

\* With room in the cache, the block fills the next slot.
AddsSlot(v, w, b) ==
  /\ v.count # 0 /\ v.next # CacheSize - 1
  /\ w.free = v.free \union {b}
  /\ w.count = v.count + 1
  /\ w.head = v.head
  /\ w.next = v.next + 1
  /\ w.cache = [v.cache EXCEPT ![v.next + 1] = b]
  /\ w.lists = v.lists

LEMMA FreeSlotList ==
  ASSUME NEW v, NEW w, NEW b, b \in Blk, b \notin v.free, Sound(v), AddsSlot(v, w, b)
  PROVE  Sound(w) /\ Popped(w, v, b)
<1> USE SizesAssumption
<1>0. PICK x : x = v.next + 1
  OBVIOUS
<1>1. /\ IsView(v) /\ v.free \in SUBSET Blk /\ v.count \in Nat
      /\ v.count = Cardinality(v.free)
      /\ v.free # {}
  BY FreeBlocks DEF Sound, AddsSlot
<1>2. /\ w.free = v.free \union {b} /\ w.free \in SUBSET Blk
      /\ w.count = v.count + 1
      /\ w.count = Cardinality(w.free)
      /\ w.count \in 0 .. NDBlks
  <2>1. w.free = v.free \union {b} /\ w.count = v.count + 1
    BY DEF AddsSlot
  <2>2. /\ Cardinality(v.free \union {b}) = Cardinality(v.free) + 1
        /\ Cardinality(v.free \union {b}) \in 0 .. NDBlks
    BY <1>1, FreeMore
  <2> QED BY <1>1, <2>1, <2>2
<1>3. PICK n \in 1 .. NDBlks : \E c \in [1 .. n -> Blk], base \in Slots :
        IsChain(v, n, c, base)
  BY <1>1, Witness DEF Sound
<1>4. PICK c \in [1 .. n -> Blk], base \in Slots : IsChain(v, n, c, base)
  BY <1>3
<1>5. /\ v.next \in Slots /\ x \in Slots /\ x # 0
      /\ v.cache \in [Slots -> Int]
      /\ w.next = x /\ w.head = v.head
      /\ w.cache = [v.cache EXCEPT ![x] = b]
      /\ w.cache \in [Slots -> Int]
      /\ w.lists = v.lists
  <2>1. v.next \in Slots /\ v.cache \in [Slots -> Int]
    BY <1>1 DEF IsView
  <2>2. /\ v.next # CacheSize - 1 /\ w.next = x /\ w.head = v.head
        /\ w.cache = [v.cache EXCEPT ![x] = b]
        /\ w.lists = v.lists
    BY <1>0 DEF AddsSlot
  <2>3. x \in Slots /\ x # 0
    BY <1>0, <2>1, <2>2 DEF Slots
  <2>4. b \in Int
    BY DEF Blk
  <2>5. w.cache \in [Slots -> Int]
    BY <2>1, <2>2, <2>4
  <2> QED BY <2>1, <2>2, <2>3, <2>5
<1> DEFINE top == <<n, x>>
<1>6. n = 1 => base <= v.next
  BY <1>4 DEF IsChain, Linked
<1>7. Cells(w, n, base) = Cells(v, n, base) \union {top}
  BY SMTT(30), <1>0, <1>5, <1>6 DEF Cells, BottomOf, TopOf, Slots
<1>8. top \notin Cells(v, n, base)
  BY <1>0, <1>5 DEF Cells, TopOf, Slots
<1>9. CellBlk(w, n, c, top) = b
  <2>1. w.cache[x] = b
    BY <1>5
  <2> QED BY <1>5, <2>1 DEF CellBlk, ListOf
<1>10. \A p \in Cells(v, n, base) : CellBlk(w, n, c, p) = CellBlk(v, n, c, p)
  BY SMTT(30), <1>0, <1>5 DEF CellBlk, ListOf, Cells, TopOf, Slots
<1> HIDE DEF top
<1>11. CellsExact(w, n, c, base)
  BY <1>2, <1>4, <1>7, <1>8, <1>9, <1>10, AddCell DEF IsChain
<1>12. Linked(w, n, c, base)
  <2>1. \A i \in 2 .. n : ListOf(w, n, c, i)[0] = ListOf(v, n, c, i)[0]
    BY <1>0, <1>5 DEF ListOf, Slots
  <2>2. ListOf(w, n, c, 1)[base] = ListOf(v, n, c, 1)[base]
    BY <1>0, <1>5, <1>6 DEF ListOf, Slots
  <2>3. n = 1 => base <= w.next
    BY <1>0, <1>5, <1>6 DEF Slots
  <2> QED BY <1>4, <1>5, <2>1, <2>2, <2>3 DEF IsChain, Linked
<1>13. IsChain(w, n, c, base)
  BY <1>11, <1>12 DEF IsChain
<1>14. Exact(w)
  BY <1>2, <1>13 DEF Exact
<1>15. IsView(w)
  BY <1>1, <1>2, <1>5 DEF IsView
<1>16. Popped(w, v, b)
  <2>1. \A p \in Cells(w, n, base) : p # top => p \in Cells(v, n, base)
    BY <1>7
  <2>2. Cells(v, n, base) \subseteq Cells(w, n, base) /\ top \in Cells(w, n, base)
    BY <1>7
  <2>3. \A p \in Cells(v, n, base) : CellBlk(v, n, c, p) = CellBlk(w, n, c, p)
    BY <1>10
  <2>4. Popped(w, v, CellBlk(w, n, c, top))
    BY <1>1, <1>2, <1>4, <1>13, <1>15, <2>1, <2>2, <2>3, PopCell
  <2> QED BY <1>9, <2>4
<1> QED BY <1>14, <1>15, <1>16 DEF Sound

-----------------------------------------------------------------------------
(* Steps that leave the free list as the allocator sees it alone: client   *)
(* writes, l2_unmount and l2_mount.  The part of the cache above the       *)
(* highest live slot, the copy of the cached list block on disk and the    *)
(* blocks that are not free do not matter.                                 *)

SameList(v, w) ==
  /\ w.free = v.free /\ w.count = v.count /\ w.head = v.head /\ w.next = v.next
  /\ w.cache \in [Slots -> Int]
  /\ w.lists \in [Blk -> [Slots -> Int]]
  /\ v.free # {} => /\ \A s \in 0 .. v.next : w.cache[s] = v.cache[s]
                    /\ \A b \in v.free : b # v.head => w.lists[b] = v.lists[b]

LEMMA SameListSound ==
  ASSUME NEW v, NEW w, Sound(v), SameList(v, w)
  PROVE  Sound(w) /\ SameOrder(v, w)
<1> USE SizesAssumption
<1>1. /\ IsView(v) /\ v.free \in SUBSET Blk /\ v.count \in Nat
      /\ v.count = Cardinality(v.free)
      /\ v.count = 0 <=> v.free = {}
  BY FreeBlocks DEF Sound
<1>2. /\ w.free = v.free /\ w.count = v.count /\ w.head = v.head /\ w.next = v.next
      /\ w.count = Cardinality(w.free)
  BY <1>1 DEF SameList
<1>3. IsView(w)
  BY <1>1, <1>2 DEF IsView, SameList
<1>4. CASE v.free = {}
  <2>1. 1 .. v.count = {}
    BY <1>1, <1>4
  <2>2. Exact(w)
    BY <1>2, <1>4 DEF Exact
  <2> QED BY <1>2, <1>3, <2>1, <2>2 DEF Sound, SameOrder
<1>5. CASE v.free # {}
  <2>1. PICK n \in 1 .. NDBlks : \E c \in [1 .. n -> Blk], base \in Slots :
          IsChain(v, n, c, base)
    BY <1>5, Witness DEF Sound
  <2>2. PICK c \in [1 .. n -> Blk], base \in Slots : IsChain(v, n, c, base)
    BY <2>1
  <2>3. /\ \A i \in 1 .. n : c[i] \in v.free
        /\ \A i, j \in 1 .. n : c[i] = c[j] => i = j
    <3>1. \A i \in 1 .. n : c[i] \in v.free
      BY <1>1, <2>2, ChainFree
    <3>2. \A i, j \in 1 .. n : c[i] = c[j] => i = j
      BY <1>1, <2>2, ChainInjective
    <3> QED BY <3>1, <3>2
  <2>4. n \in 1 .. n /\ c[n] = v.head /\ v.next \in Slots
    BY <1>1, <2>2 DEF IsChain, Linked, IsView
  <2>5. ASSUME NEW i \in 1 .. n, NEW s \in Slots, s <= TopOf(v, n, i)
        PROVE  ListOf(w, n, c, i)[s] = ListOf(v, n, c, i)[s]
    <3>1. CASE i = n
      <4>1. s \in 0 .. v.next
        BY <2>5, <3>1 DEF TopOf, Slots
      <4>2. w.cache[s] = v.cache[s]
        BY <1>5, <4>1 DEF SameList
      <4> QED BY <3>1, <4>2 DEF ListOf
    <3>2. CASE i # n
      <4>1. c[i] \in v.free /\ c[i] # v.head
        BY <2>3, <2>4, <3>2
      <4>2. w.lists[c[i]] = v.lists[c[i]]
        BY <1>5, <4>1 DEF SameList
      <4> QED BY <3>2, <4>2 DEF ListOf
    <3> QED BY <3>1, <3>2
  <2>6. Cells(w, n, base) = Cells(v, n, base)
    BY <1>2 DEF Cells, TopOf
  <2>7. \A p \in Cells(v, n, base) : CellBlk(w, n, c, p) = CellBlk(v, n, c, p)
    BY <2>5 DEF CellBlk, Cells
  <2>8. CellsExact(w, n, c, base)
    BY <1>2, <2>2, <2>6, <2>7 DEF IsChain, CellsExact
  <2>9. Linked(w, n, c, base)
    <3>1. ASSUME NEW i \in 2 .. n PROVE ListOf(w, n, c, i)[0] = c[i - 1]
      <4>1. i \in 1 .. n /\ 0 \in Slots /\ 0 <= TopOf(v, n, i)
        BY <2>4 DEF TopOf, Slots
      <4>2. ListOf(w, n, c, i)[0] = ListOf(v, n, c, i)[0]
        BY <2>5, <4>1
      <4> QED BY <2>2, <4>2 DEF IsChain, Linked
    <3>2. ListOf(w, n, c, 1)[base] = c[1]
      <4>1. n = 1 => base <= v.next
        BY <2>2 DEF IsChain, Linked
      <4>2. 1 \in 1 .. n /\ base <= TopOf(v, n, 1)
        BY <4>1 DEF TopOf, Slots
      <4>3. ListOf(w, n, c, 1)[base] = ListOf(v, n, c, 1)[base]
        BY <2>5, <4>2
      <4> QED BY <2>2, <4>3 DEF IsChain, Linked
    <3> QED BY <1>2, <2>2, <3>1, <3>2 DEF IsChain, Linked
  <2>10. IsChain(w, n, c, base)
    BY <2>8, <2>9 DEF IsChain
  <2>11. Exact(w)
    BY <1>2, <2>10 DEF Exact
  <2>12. SameOrder(v, w)
    BY <1>1, <1>2, <1>3, <2>2, <2>6, <2>7, <2>10, SameCells
  <2> QED BY <1>3, <2>11, <2>12 DEF Sound
<1> QED BY <1>4, <1>5

\* The list block in use is free itself.
LEMMA HeadFree ==
  ASSUME NEW v, Sound(v), v.count # 0
  PROVE  v.head \in v.free
<1>1. v.free # {} /\ IsView(v)
  BY FreeBlocks DEF Sound
<1>2. PICK n \in 1 .. NDBlks : \E c \in [1 .. n -> Blk], base \in Slots :
        IsChain(v, n, c, base)
  BY <1>1, Witness DEF Sound
<1>3. PICK c \in [1 .. n -> Blk], base \in Slots : IsChain(v, n, c, base)
  BY <1>2
<1>4. \A i \in 1 .. n : c[i] \in v.free
  BY <1>1, <1>3, ChainFree
<1>5. n \in 1 .. n /\ c[n] = v.head
  BY <1>3 DEF IsChain, Linked
<1> QED BY <1>4, <1>5

\* Each free block is allocated once in the order of the allocations.
LEMMA OrderExact ==
  ASSUME NEW v, Sound(v)
  PROVE  /\ \A j, k \in 1 .. v.count : OrderOf(v)[j] = OrderOf(v)[k] => j = k
         /\ \A b \in v.free : \E k \in 1 .. v.count : OrderOf(v)[k] = b
<1>1. /\ IsView(v) /\ v.count \in Nat /\ v.count = Cardinality(v.free)
      /\ v.count = 0 <=> v.free = {}
  BY FreeBlocks DEF Sound
<1>2. CASE v.free = {}
  <2>1. 1 .. v.count = {}
    BY <1>1, <1>2
  <2> QED BY <1>2, <2>1
<1>3. CASE v.free # {}
  <2>1. PICK n \in 1 .. NDBlks : \E c \in [1 .. n -> Blk], base \in Slots :
          IsChain(v, n, c, base)
    BY <1>3, Witness DEF Sound
  <2>2. PICK c \in [1 .. n -> Blk], base \in Slots : IsChain(v, n, c, base)
    BY <2>1
  <2>3. \A k \in 1 .. v.count : \E p \in Cells(v, n, base) :
          CellNo(base, p) = v.count - k /\ OrderOf(v)[k] = CellBlk(v, n, c, p)
    BY <1>1, <2>2, OrderOfChain
  <2>4. /\ \A p \in Cells(v, n, base) : CellNo(base, p) \in 0 .. TopNo(v, n, base)
        /\ \A p, q \in Cells(v, n, base) : CellNo(base, p) = CellNo(base, q) => p = q
        /\ TopNo(v, n, base) \in Nat
    <3>1. v.next \in Slots
      BY <1>1 DEF IsView
    <3>2. n = 1 => base <= v.next
      BY <2>2 DEF IsChain, Linked
    <3>3. n \in Nat \ {0}
      BY SizesAssumption
    <3> QED BY <3>1, <3>2, <3>3, CellNumbers
  <2>5. v.count = TopNo(v, n, base) + 1
    BY <1>1, <2>2, CellCount
  <2>6. ASSUME NEW j \in 1 .. v.count, NEW k \in 1 .. v.count,
               OrderOf(v)[j] = OrderOf(v)[k]
        PROVE  j = k
    <3>1. PICK p \in Cells(v, n, base) :
            CellNo(base, p) = v.count - j /\ OrderOf(v)[j] = CellBlk(v, n, c, p)
      BY <2>3
    <3>2. PICK q \in Cells(v, n, base) :
            CellNo(base, q) = v.count - k /\ OrderOf(v)[k] = CellBlk(v, n, c, q)
      BY <2>3
    <3>3. p = q
      BY <2>2, <2>6, <3>1, <3>2 DEF IsChain, CellsExact
    <3>4. v.count - j = v.count - k
      BY <3>1, <3>2, <3>3
    <3> QED BY <1>1, <3>4
  <2>7. ASSUME NEW b \in v.free PROVE \E k \in 1 .. v.count : OrderOf(v)[k] = b
    <3>1. PICK p \in Cells(v, n, base) : CellBlk(v, n, c, p) = b
      BY <2>2 DEF IsChain, CellsExact
    <3>2. PICK k \in 1 .. v.count : k = v.count - CellNo(base, p)
      <4>1. CellNo(base, p) \in 0 .. TopNo(v, n, base)
        BY <2>4
      <4> QED BY <2>4, <2>5, <4>1
    <3>3. PICK q \in Cells(v, n, base) :
            CellNo(base, q) = v.count - k /\ OrderOf(v)[k] = CellBlk(v, n, c, q)
      BY <2>3
    <3>4. CellNo(base, p) \in 0 .. TopNo(v, n, base)
      BY <2>4
    <3>5. CellNo(base, p) = v.count - k
      BY <1>1, <2>4, <3>2, <3>4
    <3>6. p = q
      BY <2>4, <3>3, <3>5
    <3> QED BY <3>1, <3>3, <3>6
  <2> QED BY <2>6, <2>7
<1> QED BY <1>2, <1>3

LEMMA OrderIsSeq ==
  ASSUME NEW v, Sound(v)
  PROVE  /\ OrderOf(v) \in Seq(Blk)
         /\ OrderOf(v) \in [1 .. v.count -> Blk]
         /\ Len(OrderOf(v)) = v.count
<1>1. v.count \in Nat /\ v.free \in SUBSET Blk
  BY FreeBlocks
<1>2. OrderOf(v) \in [1 .. v.count -> Blk]
  <2>1. /\ DOMAIN OrderOf(v) = 1 .. v.count
        /\ \A k \in 1 .. v.count : OrderOf(v)[k] \in v.free
    BY OrderInFree
  <2>2. PICK at : OrderOf(v) = [k \in 1 .. v.count |-> BlkAt(v)[at[k - 1]]]
    BY <1>1, OrderIs
  <2> QED BY <1>1, <2>1, <2>2
<1> QED BY <1>1, <1>2

\* The next block to be allocated is the head of the order, and the rest of
\* it is the order afterwards.
LEMMA PoppedIsTail ==
  ASSUME NEW v, NEW w, NEW b, Sound(v), Sound(w), Popped(v, w, b)
  PROVE  /\ OrderOf(v) # <<>>
         /\ Head(OrderOf(v)) = b
         /\ OrderOf(w) = Tail(OrderOf(v))
         /\ OrderOf(v) = <<b>> \o OrderOf(w)
<1>1. /\ OrderOf(v) \in Seq(Blk) /\ Len(OrderOf(v)) = v.count
      /\ OrderOf(w) \in Seq(Blk) /\ Len(OrderOf(w)) = w.count
      /\ v.count \in Nat /\ w.count \in Nat
  BY OrderIsSeq, FreeBlocks
<1>2. /\ v.count = w.count + 1
      /\ OrderOf(v)[1] = b
      /\ \A k \in 1 .. w.count : OrderOf(w)[k] = OrderOf(v)[k + 1]
  BY DEF Popped
<1>3. b \in Blk
  BY <1>1, <1>2
<1> DEFINE s == OrderOf(v)
           t == OrderOf(w)
<1>4. /\ s \in Seq(Blk) /\ Len(s) = Len(t) + 1 /\ t \in Seq(Blk)
      /\ s[1] = b /\ \A k \in 1 .. Len(t) : t[k] = s[k + 1]
  BY <1>1, <1>2
<1> HIDE DEF s, t
<1>5. s # <<>> /\ Head(s) = b
  BY <1>4
<1>6. t = Tail(s)
  BY <1>4
<1>7. s = <<b>> \o t
  BY SMTT(30), <1>3, <1>4
<1> QED BY <1>5, <1>6, <1>7 DEF s, t

LEMMA SameOrderIsSame ==
  ASSUME NEW v, NEW w, Sound(v), Sound(w), SameOrder(v, w)
  PROVE  OrderOf(w) = OrderOf(v)
<1>1. /\ OrderOf(v) \in [1 .. v.count -> Blk]
      /\ OrderOf(w) \in [1 .. w.count -> Blk]
  BY OrderIsSeq
<1>2. w.count = v.count /\ \A k \in 1 .. v.count : OrderOf(w)[k] = OrderOf(v)[k]
  BY DEF SameOrder
<1> DEFINE f == OrderOf(v)
           g == OrderOf(w)
<1>3. /\ f \in [1 .. v.count -> Blk] /\ g \in [1 .. v.count -> Blk]
      /\ \A k \in 1 .. v.count : g[k] = f[k]
  BY <1>1, <1>2
<1> HIDE DEF f, g
<1>4. g = f
  <2>1. f = [k \in 1 .. v.count |-> f[k]] /\ g = [k \in 1 .. v.count |-> g[k]]
    BY <1>3
  <2>2. [k \in 1 .. v.count |-> f[k]] = [k \in 1 .. v.count |-> g[k]]
    BY <1>3
  <2> QED BY <2>1, <2>2, Zenon
<1> QED BY <1>4 DEF f, g

-----------------------------------------------------------------------------
(* The free list makefs writes.                                            *)

LEMMA InitChain ==
  ASSUME Init
  PROVE  IInv
<1> USE SizesAssumption
<1>1. PICK old \in Contents :
        dblk = [b \in Blk |-> IF IsListBlk(b) THEN InitialList(b) ELSE old]
  BY DEF Init
<1>0. PICK v : v = View
  OBVIOUS
<1>2. /\ mounted = TRUE /\ owned = {}
      /\ v.free = Blk /\ v.count = NDBlks /\ v.head = 0 /\ v.next = CacheSize - 1
      /\ v.cache = dblk[0] /\ v.lists = dblk
      /\ 0 \in Blk /\ IsListBlk(0)
  <2>1. v = InCore /\ mounted = TRUE /\ owned = {}
    BY <1>0 DEF Init, View
  <2>2. Free = Blk
    BY <2>1 DEF Free
  <2>3. /\ v.free = Blk /\ v.count = NDBlks /\ v.head = 0 /\ v.next = CacheSize - 1
        /\ v.cache = dblk[0] /\ v.lists = dblk
    BY <2>1, <2>2 DEF Init, InCore
  <2>4. 0 \in Blk /\ IsListBlk(0)
    BY DEF Blk, IsListBlk
  <2> QED BY <2>1, <2>3, <2>4
<1>3. TypeOK
  <2>1. \A b \in Blk : InitialList(b) \in [Slots -> Int]
    BY DEF InitialList, Blk, Slots
  <2>2. old \in [Slots -> Int]
    BY ContentsAssumption
  <2>3. dblk \in [Blk -> [Slots -> Int]]
    BY <1>1, <2>1, <2>2
  <2>4. freeDBlkCache \in [Slots -> Int]
    BY <1>2, <2>3 DEF Init
  <2> QED BY <1>2, <2>3, <2>4 DEF TypeOK, Init, FullSuperBlock, Slots
<1>4. v.count = Cardinality(v.free)
  BY <1>2, BlkFinite
<1>5. PICK q \in Nat, r \in 0 .. CacheSize - 1 : NDBlks - 1 = q * CacheSize + r
  <2>1. NDBlks - 1 \in Nat /\ CacheSize \in Nat \ {0}
    OBVIOUS
  <2> QED BY <2>1, Quotient
<1> DEFINE n    == q + 1
           c    == [i \in 1 .. n |-> (n - i) * CacheSize]
           base == CacheSize - 1 - r
<1>6. n \in 1 .. NDBlks /\ base \in Slots
  BY <1>5, Multiple DEF Slots
<1>7. ASSUME NEW i \in 1 .. n
      PROVE  /\ c[i] \in Blk
             /\ NDBlks - c[i] = (q * CacheSize - (n - i) * CacheSize) + r + 1
             /\ IsListBlk(c[i])
             /\ i # 1 => (n - i) * CacheSize + CacheSize <= q * CacheSize
             /\ i = 1 => c[i] = q * CacheSize
             /\ i # 1 => c[i] + CacheSize = c[i - 1]
  <2>1. n - i \in Nat /\ CacheSize \in Nat \ {0}
    OBVIOUS
  <2>2. (n - i) * CacheSize \in Nat /\ q * CacheSize \in Nat
    BY <2>1, Multiple
  <2>3. i # 1 => (n - i) * CacheSize + CacheSize <= q * CacheSize
    BY <2>1, NextMultiple
  <2>4. i = 1 => c[i] = q * CacheSize
    OBVIOUS
  <2>5. c[i] \in Blk
    BY <1>5, <2>2, <2>3, <2>4 DEF Blk
  <2>6. IsListBlk(c[i])
    BY <2>1, Multiple DEF IsListBlk
  <2>7. i # 1 => c[i] + CacheSize = c[i - 1]
    <3>1. SUFFICES ASSUME i # 1 PROVE c[i] + CacheSize = c[i - 1]
      OBVIOUS
    <3>2. c[i - 1] = (n - i + 1) * CacheSize
      BY <3>1
    <3>3. (n - i + 1) * CacheSize = (n - i) * CacheSize + CacheSize
      BY <2>1
    <3> QED BY <3>2, <3>3
  <2> QED BY <1>5, <2>2, <2>3, <2>4, <2>5, <2>6, <2>7
<1>8. c \in [1 .. n -> Blk] /\ c[n] = 0
  <2>1. c \in [1 .. n -> Blk]
    BY <1>7
  <2>2. n \in 1 .. n /\ n - n = 0 /\ 0 * CacheSize = 0
    OBVIOUS
  <2>3. c[n] = (n - n) * CacheSize
    BY <2>2
  <2> HIDE DEF n, c
  <2> QED BY <2>1, <2>2, <2>3
<1> HIDE DEF c
<1>9. ASSUME NEW i \in 1 .. n
      PROVE  ListOf(v, n, c, i) = InitialList(c[i]) /\ TopOf(v, n, i) = CacheSize - 1
  BY <1>1, <1>2, <1>7, <1>8 DEF ListOf, TopOf
<1>10. ASSUME NEW i \in 2 .. n, NEW s \in Slots
       PROVE  ListOf(v, n, c, i)[s] = IF s = 0 THEN c[i - 1] ELSE c[i] + s
  <2>1. NDBlks - c[i] > CacheSize
    <3>1. i \in 1 .. n /\ i # 1
      OBVIOUS
    <3>2. (n - i) * CacheSize \in Nat /\ q * CacheSize \in Nat
      BY Multiple
    <3> QED BY <1>5, <1>7, <3>1, <3>2
  <2>2. ListOf(v, n, c, i) = InitialList(c[i]) /\ i \in 1 .. n /\ i # 1
    BY <1>9
  <2>3. c[i] + CacheSize = c[i - 1]
    BY <1>7, <2>2
  <2> HIDE DEF n
  <2> QED BY <2>1, <2>2, <2>3 DEF InitialList
<1>11. ASSUME NEW s \in Slots
       PROVE  ListOf(v, n, c, 1)[s] = IF s < base THEN -1 ELSE c[1] + s - base
  <2>1. NDBlks - c[1] = r + 1
    BY <1>5, <1>7, Multiple
  <2>2. ListOf(v, n, c, 1) = InitialList(c[1])
    BY <1>9
  <2> QED BY <2>1, <2>2 DEF InitialList
<1>12. Linked(v, n, c, base)
  <2>1. \A i \in 2 .. n : ListOf(v, n, c, i)[0] = c[i - 1]
    BY <1>10 DEF Slots
  <2>2. ListOf(v, n, c, 1)[base] = c[1]
    BY <1>6, <1>7, <1>11 DEF Blk, Slots
  <2>3. base <= v.next
    BY <1>2, <1>6 DEF Slots
  <2> QED BY <1>2, <1>8, <2>1, <2>2, <2>3 DEF Linked
<1> DEFINE offset(i, s) == IF i = 1 THEN s - base ELSE s
<1>13. ASSUME NEW i \in 1 .. n, NEW s \in Slots
       PROVE  /\ <<i, s>> \in Cells(v, n, base) <=> (i = 1 => s >= base)
              /\ <<i, s>> \in Cells(v, n, base) =>
                   /\ offset(i, s) \in 0 .. CacheSize - 1
                   /\ i = 1 => offset(i, s) <= r
                   /\ CellBlk(v, n, c, <<i, s>>) = (n - i) * CacheSize + offset(i, s)
  <2>1. <<i, s>> \in Cells(v, n, base) <=> (i = 1 => s >= base)
    BY <1>9 DEF Cells, BottomOf, Slots
  <2>2. c[i] = (n - i) * CacheSize
    BY DEF c
  <2>3. c[i] \in Int
    BY <1>7 DEF Blk
  <2> HIDE DEF n, base
  <2>4. CASE i = 1
    <3>1. <<i, s>> \in Cells(v, n, base) => s >= base
      BY <2>1, <2>4
    <3>2. CellBlk(v, n, c, <<i, s>>) = ListOf(v, n, c, 1)[s]
      BY <2>4 DEF CellBlk
    <3>3. s >= base => CellBlk(v, n, c, <<i, s>>) = c[1] + (s - base)
      BY <1>6, <1>11, <2>3, <2>4, <3>2 DEF Slots
    <3>4. s >= base => s - base \in 0 .. CacheSize - 1 /\ s - base <= r
      BY <1>6 DEF Slots, base
    <3> QED BY <2>1, <2>2, <2>4, <3>1, <3>3, <3>4
  <2>5. CASE i # 1
    <3>1. i \in 2 .. n
      BY <1>6, <2>5
    <3>2. CellBlk(v, n, c, <<i, s>>) = c[i] + s
      BY <1>10, <2>3, <2>5, <3>1 DEF CellBlk, Slots
    <3> QED BY <2>1, <2>2, <2>5, <3>2 DEF Slots
  <2> QED BY <2>4, <2>5
<1>14. \A p \in Cells(v, n, base) : \E i \in 1 .. n, s \in Slots : p = <<i, s>>
  BY DEF Cells
<1>15. ASSUME NEW p \in Cells(v, n, base) PROVE CellBlk(v, n, c, p) \in Blk
  <2>1. PICK i \in 1 .. n, s \in Slots : p = <<i, s>>
    BY <1>14
  <2> DEFINE t == offset(i, s)
  <2>2. /\ t \in 0 .. CacheSize - 1
        /\ i = 1 => t <= r
        /\ CellBlk(v, n, c, p) = (n - i) * CacheSize + t
    BY <1>13, <2>1
  <2>3. /\ (n - i) * CacheSize \in Nat /\ q * CacheSize \in Nat
        /\ i = 1 => (n - i) * CacheSize = q * CacheSize
    BY Multiple
  <2>4. i # 1 => (n - i) * CacheSize + CacheSize <= q * CacheSize
    BY <1>7
  <2>5. (n - i) * CacheSize + t \in 0 .. NDBlks - 1
    <3> HIDE DEF n, t
    <3>1. PICK x \in Nat : x = (n - i) * CacheSize
      BY <2>3
    <3>2. PICK y \in Nat : y = q * CacheSize
      BY <2>3
    <3>3. CASE i = 1
      <4>1. x = y /\ t <= r
        BY <2>2, <2>3, <3>1, <3>2, <3>3
      <4>2. NDBlks - 1 = y + r
        BY <1>5, <3>2
      <4>3. x + t \in 0 .. NDBlks - 1
        BY <2>2, <4>1, <4>2
      <4> QED BY <3>1, <4>3
    <3>4. CASE i # 1
      <4>1. x + CacheSize <= y
        BY <2>4, <3>1, <3>2, <3>4
      <4>2. NDBlks - 1 = y + r
        BY <1>5, <3>2
      <4>3. x + t \in 0 .. NDBlks - 1
        BY <2>2, <4>1, <4>2
      <4> QED BY <3>1, <4>3
    <3> QED BY <3>3, <3>4
  <2> QED BY <2>2, <2>5 DEF Blk
<1>16. ASSUME NEW p \in Cells(v, n, base), NEW o \in Cells(v, n, base),
              CellBlk(v, n, c, p) = CellBlk(v, n, c, o)
       PROVE  p = o
  <2>1. PICK i \in 1 .. n, s \in Slots : p = <<i, s>>
    BY <1>14
  <2>2. PICK j \in 1 .. n, t \in Slots : o = <<j, t>>
    BY <1>14
  <2>3. /\ offset(i, s) \in 0 .. CacheSize - 1
        /\ offset(j, t) \in 0 .. CacheSize - 1
        /\ (n - i) * CacheSize + offset(i, s) = (n - j) * CacheSize + offset(j, t)
    BY <1>13, <1>16, <2>1, <2>2
  <2>4. n - i \in Nat /\ n - j \in Nat /\ CacheSize \in Nat \ {0}
    OBVIOUS
  <2>5. n - i = n - j /\ offset(i, s) = offset(j, t)
    <3> HIDE DEF offset, n
    <3> QED BY ZenonT(30), <2>3, <2>4, QuotientUnique
  <2>6. i = j /\ s = t
    BY <1>6, <2>5 DEF Slots
  <2> QED BY <2>1, <2>2, <2>6
<1>17. ASSUME NEW b \in Blk
       PROVE  \E p \in Cells(v, n, base) : CellBlk(v, n, c, p) = b
  <2>1. PICK k \in Nat, t \in 0 .. CacheSize - 1 : b = k * CacheSize + t
    <3>1. b \in Nat /\ CacheSize \in Nat \ {0}
      BY DEF Blk
    <3> QED BY <3>1, Quotient
  <2>2. k <= q
    <3>1. SUFFICES ASSUME q < k PROVE FALSE
      OBVIOUS
    <3>2. q * CacheSize + CacheSize <= k * CacheSize
      BY <3>1, NextMultiple
    <3>3. q * CacheSize \in Nat /\ k * CacheSize \in Nat
      BY Multiple
    <3> QED BY <1>5, <2>1, <3>2, <3>3 DEF Blk
  <2>3. k = q => t <= r
    <3>1. q * CacheSize \in Nat
      BY Multiple
    <3> QED BY <1>5, <2>1, <3>1 DEF Blk
  <2> DEFINE i == n - k
             s == IF i = 1 THEN t + base ELSE t
  <2>4. /\ i \in 1 .. n /\ s \in Slots /\ n - i = k
        /\ i = 1 => s >= base
        /\ offset(i, s) = t
    BY <1>6, <2>2, <2>3 DEF Slots
  <2> HIDE DEF i, s, offset
  <2>5. <<i, s>> \in Cells(v, n, base) /\ CellBlk(v, n, c, <<i, s>>) = b
    BY <1>13, <2>1, <2>4
  <2> QED BY <2>5
<1>18. CellsExact(v, n, c, base)
  <2> HIDE DEF n, base, offset
  <2> QED BY <1>2, <1>15, <1>16, <1>17 DEF CellsExact
<1>19. ChainInv
  <2> HIDE DEF n, base
  <2>1. IsChain(v, n, c, base)
    BY <1>12, <1>18 DEF IsChain
  <2>2. Exact(v)
    BY <1>4, <1>6, <1>8, <2>1 DEF Exact
  <2> QED BY <1>0, <2>2 DEF ChainInv
<1> QED BY <1>3, <1>19 DEF IInv

-----------------------------------------------------------------------------
(* The invariant is inductive, and the order of the allocations is what a  *)
(* stack of the free blocks makes of it.                                   *)

\* The list in core is of the type of a view exactly when the variables are.
LEMMA Views ==
  ASSUME TypeOK, ChainInv
  PROVE  Sound(View)
<1>1. IsView(InCore)
  BY DEF TypeOK, InCore, IsView, Free
<1>2. IsView(OnDisk)
  BY DEF TypeOK, OnDisk, IsView, Free
<1> QED BY <1>1, <1>2 DEF View, ChainInv, Sound

LEMMA ViewsAfter == TypeOK' /\ ChainInv' => Sound(View')
<1> SUFFICES ASSUME TypeOK', ChainInv' PROVE Sound(View')
  OBVIOUS
<1>1. IsView(InCore')
  BY DEF TypeOK, InCore, IsView, Free
<1>2. IsView(OnDisk')
  BY DEF TypeOK, OnDisk, IsView, Free
<1> QED BY <1>1, <1>2 DEF View, ChainInv, Sound

LEMMA AllocStep ==
  ASSUME IInv, AllocDBlk
  PROVE  IInv' /\ \E b \in Free : owned' = owned \union {b} /\ Popped(View, View', b)
<1>1. View = InCore /\ View' = InCore' /\ mounted' /\ mounted' \in BOOLEAN
  BY DEF AllocDBlk, View, IInv, TypeOK
<1>2. Sound(InCore) /\ TypeOK
  BY <1>1, Views DEF IInv
<1>3. \E b \in Free : /\ owned' = owned \union {b}
                      /\ Sound(InCore') /\ Popped(InCore, InCore', b)
  <2>1. CASE TakeSlot
    <3>1. TakesSlot(InCore, InCore')
      BY <2>1 DEF AllocDBlk, TakeSlot, TakesSlot, InCore, Free
    <3>2. /\ InCore.cache[InCore.next] \in InCore.free
          /\ Sound(InCore')
          /\ Popped(InCore, InCore', InCore.cache[InCore.next])
      BY <1>2, <3>1, TakeSlotList
    <3>3. InCore.free = Free /\ InCore.cache[InCore.next] = freeDBlkCache[pNextFreeDBlk]
      BY DEF InCore
    <3> QED BY <2>1, <3>2, <3>3 DEF TakeSlot
  <2>2. CASE TakeHead
    <3>1. TakesHead(InCore, InCore')
      BY <2>2 DEF AllocDBlk, TakeHead, TakesHead, InCore, Free
    <3>2. /\ InCore.head \in InCore.free
          /\ Sound(InCore')
          /\ Popped(InCore, InCore', InCore.head)
      BY <1>2, <3>1, TakeHeadList
    <3>3. InCore.free = Free /\ InCore.head = pFreeDBlksHead
      BY DEF InCore
    <3> QED BY <2>2, <3>2, <3>3 DEF TakeHead
  <2> QED BY <2>1, <2>2 DEF AllocDBlk
<1>4. TypeOK'
  <2>1. IsView(InCore')
    BY <1>3 DEF Sound
  <2>2. owned' \subseteq Blk
    BY <1>2, <1>3 DEF TypeOK, Free
  <2>3. diskSB' = diskSB
    BY DEF AllocDBlk
  <2> QED BY <1>1, <1>2, <2>1, <2>2, <2>3 DEF TypeOK, IsView, InCore
<1>5. ChainInv'
  BY <1>1, <1>3 DEF ChainInv, Sound
<1> QED BY <1>1, <1>3, <1>4, <1>5 DEF IInv

LEMMA FreeStep ==
  ASSUME IInv, NEW b \in Blk, FreeDBlk(b)
  PROVE  IInv' /\ Popped(View', View, b)
<1>1. /\ View = InCore /\ View' = InCore' /\ mounted' /\ mounted' \in BOOLEAN
      /\ b \in owned /\ owned' = owned \ {b}
  BY DEF FreeDBlk, View, IInv, TypeOK
<1>2. Sound(InCore) /\ TypeOK
  BY <1>1, Views DEF IInv
<1>3. b \notin InCore.free /\ Free' = Free \union {b}
  BY <1>1 DEF InCore, Free
<1>4. Sound(InCore') /\ Popped(InCore', InCore, b)
  <2>1. CASE FreeFirst(b)
    <3>1. AddsFirst(InCore, InCore', b)
      BY <1>3, <2>1 DEF FreeDBlk, FreeFirst, AddsFirst, InCore
    <3> QED BY <1>2, <1>3, <3>1, FreeFirstList
  <2>2. CASE FreeSpill(b)
    <3>1. AddsSpill(InCore, InCore', b)
      BY <1>3, <2>2 DEF FreeDBlk, FreeSpill, AddsSpill, InCore
    <3> QED BY <1>2, <1>3, <3>1, FreeSpillList
  <2>3. CASE FreeSlot(b)
    <3>1. AddsSlot(InCore, InCore', b)
      BY <1>3, <2>3 DEF FreeDBlk, FreeSlot, AddsSlot, InCore
    <3> QED BY <1>2, <1>3, <3>1, FreeSlotList
  <2> QED BY <2>1, <2>2, <2>3 DEF FreeDBlk
<1>5. TypeOK'
  <2>1. IsView(InCore')
    BY <1>4 DEF Sound
  <2>2. owned' \subseteq Blk
    BY <1>1, <1>2 DEF TypeOK
  <2>3. diskSB' = diskSB
    BY DEF FreeDBlk
  <2> QED BY <1>1, <1>2, <2>1, <2>2, <2>3 DEF TypeOK, IsView, InCore
<1>6. ChainInv'
  BY <1>1, <1>4 DEF ChainInv, Sound
<1> QED BY <1>1, <1>4, <1>5, <1>6 DEF IInv

LEMMA WriteStep ==
  ASSUME IInv, NEW b \in Blk, NEW d \in Contents, WriteDBlk(b, d)
  PROVE  IInv' /\ SameOrder(View, View')
<1>1. /\ View = InCore /\ View' = InCore' /\ mounted' = mounted
      /\ UNCHANGED <<superblock, diskSB, owned>>
      /\ b \in owned
      /\ dblk' = [dblk EXCEPT ![b] = d]
  BY DEF WriteDBlk, View
<1>2. Sound(InCore) /\ TypeOK
  BY <1>1, Views DEF IInv
<1>3. TypeOK'
  BY <1>1, <1>2, ContentsAssumption DEF TypeOK, superblock
<1>4. SameList(InCore, InCore')
  <2>1. Free' = Free /\ \A a \in Free : dblk'[a] = dblk[a]
    BY <1>1, <1>2 DEF Free, TypeOK
  <2>2. /\ dblk' \in [Blk -> [Slots -> Int]]
        /\ freeDBlkCache' \in [Slots -> Int]
    BY <1>3 DEF TypeOK
  <2> QED BY <1>1, <2>1, <2>2 DEF SameList, InCore, superblock
<1>5. Sound(InCore') /\ SameOrder(InCore, InCore')
  BY <1>2, <1>4, SameListSound
<1>6. ChainInv'
  BY <1>1, <1>5 DEF ChainInv, Sound
<1> QED BY <1>1, <1>3, <1>5, <1>6 DEF IInv

LEMMA UnmountStep ==
  ASSUME IInv, Unmount
  PROVE  IInv' /\ SameOrder(View, View')
<1>1. /\ View = InCore /\ View' = OnDisk' /\ ~mounted'
      /\ mounted' \in BOOLEAN
      /\ UNCHANGED <<superblock, owned>>
      /\ dblk' = [dblk EXCEPT ![pFreeDBlksHead] = freeDBlkCache]
      /\ diskSB' = [nFreeDBlks |-> nFreeDBlks, pFreeDBlksHead |-> pFreeDBlksHead,
                    pNextFreeDBlk |-> pNextFreeDBlk]
  BY DEF Unmount, View
<1>2. Sound(InCore) /\ TypeOK
  BY <1>1, Views DEF IInv
<1>3. TypeOK'
  BY <1>1, <1>2 DEF TypeOK, superblock
<1>4. SameList(InCore, OnDisk')
  <2>1. /\ Free' = Free
        /\ \A a \in Free : a # pFreeDBlksHead => dblk'[a] = dblk[a]
        /\ dblk'[pFreeDBlksHead] = freeDBlkCache
    BY <1>1, <1>2 DEF Free, TypeOK
  <2>2. /\ dblk' \in [Blk -> [Slots -> Int]]
        /\ freeDBlkCache \in [Slots -> Int]
    BY <1>2, <1>3 DEF TypeOK
  <2> QED BY <1>1, <2>1, <2>2 DEF SameList, InCore, OnDisk
<1>5. Sound(OnDisk') /\ SameOrder(InCore, OnDisk')
  BY <1>2, <1>4, SameListSound
<1>6. ChainInv'
  BY <1>1, <1>5 DEF ChainInv, Sound
<1> QED BY <1>1, <1>3, <1>5, <1>6 DEF IInv

LEMMA MountStep ==
  ASSUME IInv, Mount
  PROVE  IInv' /\ SameOrder(View, View')
<1>1. /\ View = OnDisk /\ View' = InCore' /\ mounted'
      /\ mounted' \in BOOLEAN
      /\ UNCHANGED <<diskSB, dblk, owned>>
  BY DEF Mount, View
<1>2. Sound(OnDisk) /\ TypeOK
  BY <1>1, Views DEF IInv
<1>3. TypeOK'
  BY <1>1, <1>2 DEF TypeOK, Mount
<1>4. SameList(OnDisk, InCore')
  <2>1. Free' = Free
    BY <1>1 DEF Free
  <2>2. /\ dblk' \in [Blk -> [Slots -> Int]]
        /\ freeDBlkCache' \in [Slots -> Int]
    BY <1>3 DEF TypeOK
  <2> QED BY <1>1, <2>1, <2>2 DEF SameList, InCore, OnDisk, Mount
<1>5. Sound(InCore') /\ SameOrder(OnDisk, InCore')
  BY <1>2, <1>4, SameListSound
<1>6. ChainInv'
  BY <1>1, <1>5 DEF ChainInv, Sound
<1> QED BY <1>1, <1>3, <1>5, <1>6 DEF IInv

LEMMA Inductive == IInv /\ [Next]_vars => IInv'
<1> SUFFICES ASSUME IInv, [Next]_vars PROVE IInv'
  OBVIOUS
<1>1. CASE AllocDBlk
  BY <1>1, AllocStep
<1>2. ASSUME NEW b \in Blk, FreeDBlk(b) PROVE IInv'
  BY <1>2, FreeStep
<1>3. ASSUME NEW b \in Blk, NEW d \in Contents, WriteDBlk(b, d) PROVE IInv'
  BY <1>3, WriteStep
<1>4. CASE Unmount
  BY <1>4, UnmountStep
<1>5. CASE Mount
  BY <1>5, MountStep
<1>6. CASE UNCHANGED vars
  <2>1. TypeOK'
    BY <1>6 DEF IInv, TypeOK, vars, superblock
  <2>2. View' = View
    BY <1>6 DEF vars, superblock, Free, InCore, OnDisk, View
  <2> QED BY <2>1, <2>2 DEF IInv, ChainInv
<1> QED BY <1>1, <1>2, <1>3, <1>4, <1>5, <1>6 DEF Next

LEMMA Invariance == Spec => []IInv
<1>1. Init => IInv
  BY InitChain
<1> QED BY <1>1, Inductive, PTL DEF Spec

-----------------------------------------------------------------------------
\* For every disk size and list block size, the superblock fields, the
\* cached list block and the disk blocks keep their types through any
\* sequence of allocDBlk, freeDBlk, writes, l2_unmount and l2_mount; in
\* particular every block id that is dereferenced is one.
THEOREM TypeCorrect == Spec => []TypeOK
BY Invariance, PTL DEF IInv

\* For every disk size and list block size, the superblock's count is the
\* number of free blocks, and the chain of list blocks that allocDBlk,
\* freeDBlk, l2_unmount and l2_mount maintain holds each free block in
\* exactly one live cell and no other block.
THEOREM FreeListExact == Spec => []ChainInv
BY Invariance, PTL DEF IInv

\* For every disk size and list block size, allocDBlk never hands out a
\* block that a caller still holds.
THEOREM NoDoubleAllocation == Spec => AllocFresh
<1>1. IInv /\ [Next]_vars => [AllocDBlk => \E b \in Free : owned' = owned \union {b}]_vars
  BY AllocStep
<1> QED BY <1>1, Invariance, PTL DEF Spec, AllocFresh

\* While a block is free, the cached list block is a free block.
LEMMA HeadIsFree ==
  ASSUME IInv, mounted, nFreeDBlks # 0
  PROVE  pFreeDBlksHead \in Free
<1>1. View = InCore /\ Sound(InCore)
  <2>1. View = InCore
    BY DEF View
  <2> QED BY <2>1, Views DEF IInv
<1>2. InCore.count # 0 /\ InCore.head = pFreeDBlksHead /\ InCore.free = Free
  BY DEF InCore
<1>3. InCore.head \in InCore.free
  BY <1>1, <1>2, HeadFree
<1> QED BY <1>2, <1>3

\* For every disk size and list block size, allocating and freeing blocks, and
\* an unmount of a disk that is not full, leave the contents of every block a
\* caller keeps alone, although the allocator writes its lists into data blocks.
THEOREM ClientDataKept == Spec => AllocatorKeepsClientData
<1>1. ASSUME IInv, [Next]_vars, mounted,
             nFreeDBlks' # nFreeDBlks \/ (~mounted' /\ nFreeDBlks > 0),
             NEW b \in owned \intersect owned'
      PROVE  dblk'[b] = dblk[b]
  <2>1. CASE AllocDBlk
    <3>1. pFreeDBlksHead # b
      BY <1>1, <2>1, HeadIsFree DEF AllocDBlk, Free
    <3>2. b \in Blk /\ dblk \in [Blk -> [Slots -> Int]]
      BY <1>1 DEF IInv, TypeOK
    <3>3. CASE TakeSlot
      BY <3>3 DEF TakeSlot
    <3>4. CASE TakeHead
      BY <3>1, <3>2, <3>4 DEF TakeHead
    <3> QED BY <2>1, <3>3, <3>4 DEF AllocDBlk
  <2>2. ASSUME NEW a \in Blk, FreeDBlk(a) PROVE dblk'[b] = dblk[b]
    <3>1. CASE FreeSpill(a)
      <4>1. pFreeDBlksHead # b
        BY <1>1, <3>1, HeadIsFree DEF FreeSpill, Free
      <4>2. b \in Blk /\ dblk \in [Blk -> [Slots -> Int]]
        BY <1>1 DEF IInv, TypeOK
      <4> QED BY <3>1, <4>1, <4>2 DEF FreeSpill
    <3> QED BY <2>2, <3>1 DEF FreeDBlk, FreeFirst, FreeSlot
  <2>3. ASSUME NEW a \in Blk, NEW d \in Contents, WriteDBlk(a, d)
        PROVE  dblk'[b] = dblk[b]
    BY <1>1, <2>3 DEF WriteDBlk, superblock
  <2>4. CASE Unmount
    <3>1. nFreeDBlks > 0 /\ nFreeDBlks \in Nat
      BY <1>1, <2>4 DEF Unmount, superblock, IInv, TypeOK
    <3>2. pFreeDBlksHead # b
      BY <1>1, <3>1, HeadIsFree DEF Free
    <3>3. b \in Blk /\ dblk \in [Blk -> [Slots -> Int]]
      BY <1>1 DEF IInv, TypeOK
    <3> QED BY <2>4, <3>2, <3>3 DEF Unmount
  <2>5. CASE Mount
    BY <1>1, <2>5 DEF Mount
  <2>6. CASE UNCHANGED vars
    BY <1>1, <2>6 DEF vars, superblock
  <2> QED BY <1>1, <2>1, <2>2, <2>3, <2>4, <2>5, <2>6 DEF Next
<1>2. IInv /\ [Next]_vars
      => [/\ mounted
          /\ nFreeDBlks' # nFreeDBlks \/ (~mounted' /\ nFreeDBlks > 0)
          => \A b \in owned \intersect owned' : dblk'[b] = dblk[b]]_vars
  BY <1>1
<1> QED BY <1>2, Invariance, PTL DEF Spec, AllocatorKeepsClientData

\* For every disk size and list block size, the allocator implements the
\* stack of FreeStack: whatever the superblock, its cached list block and
\* the list blocks on disk hold, the next allocation returns the block that
\* was freed last, and l2_unmount and l2_mount do not change the order.
THEOREM IsFreeStack == Spec => ImplementsFreeStack
<1>1. Init => Abstract!Init
  <2> SUFFICES ASSUME Init PROVE Abstract!Init
    OBVIOUS
  <2>1. IInv /\ owned = {} /\ View = InCore
    BY InitChain DEF Init, View
  <2>2. Sound(View) /\ View.count = NDBlks
    BY <2>1, Views DEF IInv, Init, InCore
  <2>3. /\ AllocOrder \in [1 .. NDBlks -> Blk]
        /\ \A i, j \in 1 .. NDBlks : AllocOrder[i] = AllocOrder[j] => i = j
    BY <2>2, OrderIsSeq, OrderExact DEF AllocOrder
  <2>4. AllocOrder \in Abstract!SetToSeqs(Blk)
    <3>1. Abstract!Cardinality(Blk) = Cardinality(Blk)
      BY DEF Abstract!Cardinality, Cardinality
    <3> QED BY <2>3, <3>1, BlkFinite DEF Abstract!SetToSeqs
  <2> QED BY <2>1, <2>4 DEF Abstract!Init
<1>2. IInv /\ [Next]_vars => [Abstract!Next]_<<AllocOrder, owned>>
  <2> SUFFICES ASSUME IInv, [Next]_vars
               PROVE  Abstract!Next \/ UNCHANGED <<AllocOrder, owned>>
    OBVIOUS
  <2>1. Sound(View) /\ Sound(View')
    BY Inductive, Views, ViewsAfter DEF IInv
  <2>2. AllocOrder = OrderOf(View) /\ AllocOrder' = OrderOf(View')
    BY DEF AllocOrder
  <2>3. CASE AllocDBlk
    <3>1. PICK b \in Free : owned' = owned \union {b} /\ Popped(View, View', b)
      BY <2>3, AllocStep
    <3>2. /\ AllocOrder # <<>> /\ Head(AllocOrder) = b
          /\ AllocOrder' = Tail(AllocOrder)
      BY <2>1, <2>2, <3>1, PoppedIsTail
    <3> QED BY <3>1, <3>2 DEF Abstract!Next, Abstract!Alloc
  <2>4. ASSUME NEW b \in Blk, FreeDBlk(b) PROVE Abstract!Next
    <3>1. Popped(View', View, b) /\ b \in owned /\ owned' = owned \ {b}
      BY <2>4, FreeStep DEF FreeDBlk
    <3>2. AllocOrder' = <<b>> \o AllocOrder
      BY <2>1, <2>2, <3>1, PoppedIsTail
    <3> QED BY <3>1, <3>2 DEF Abstract!Next, Abstract!Free
  <2>5. ASSUME SameOrder(View, View'), owned' = owned
        PROVE  UNCHANGED <<AllocOrder, owned>>
    BY <2>1, <2>2, <2>5, SameOrderIsSame
  <2>6. ASSUME NEW b \in Blk, NEW d \in Contents, WriteDBlk(b, d)
        PROVE  UNCHANGED <<AllocOrder, owned>>
    BY <2>5, <2>6, WriteStep DEF WriteDBlk
  <2>7. CASE Unmount
    BY <2>5, <2>7, UnmountStep DEF Unmount
  <2>8. CASE Mount
    BY <2>5, <2>8, MountStep DEF Mount
  <2>9. CASE UNCHANGED vars
    <3>1. View' = View /\ owned' = owned
      BY <2>9 DEF vars, superblock, Free, InCore, OnDisk, View
    <3> QED BY <2>2, <3>1
  <2> QED BY <2>3, <2>4, <2>6, <2>7, <2>8, <2>9 DEF Next
<1> QED
  BY <1>1, <1>2, Invariance, PTL DEF Spec, ImplementsFreeStack, Abstract!Spec

-----------------------------------------------------------------------------
(* DBlkCrash.  The lemmas above say what each call does to a list, given as  *)
(* a view.  Here they are used for two views: the list that is in use, and   *)
(* the one on disk that a crash would bring back.                            *)

\* The free blocks that are still listed, and those a crash will leave listed.
Kept   == Free \ lost
Synced == Free \ (lost \union freed)

CoreKept == [free |-> Kept, count |-> nFreeDBlks, head |-> pFreeDBlksHead,
             next |-> pNextFreeDBlk, cache |-> freeDBlkCache, lists |-> dblk]

DiskKept == [free |-> Kept, count |-> diskSB.nFreeDBlks,
             head |-> diskSB.pFreeDBlksHead, next |-> diskSB.pNextFreeDBlk,
             cache |-> dblk[diskSB.pFreeDBlksHead], lists |-> dblk]

DiskSynced == [free |-> Synced, count |-> diskSB.nFreeDBlks,
               head |-> diskSB.pFreeDBlksHead, next |-> diskSB.pNextFreeDBlk,
               cache |-> dblk[diskSB.pFreeDBlksHead], lists |-> dblk]

\* The cached list block, which freeDBlk spills and l2_unmount writes out, is
\* one of the blocks freed since the last sync, or it is the one cached then
\* and the slots that were live have not been touched.
SpillIsSafe ==
  \/ pFreeDBlksHead \in freed
  \/ /\ pFreeDBlksHead = diskSB.pFreeDBlksHead
     /\ diskSB.pNextFreeDBlk <= pNextFreeDBlk
     /\ \A s \in 0 .. diskSB.pNextFreeDBlk :
          freeDBlkCache[s] = dblk[diskSB.pFreeDBlksHead][s]

\* Until a block is allocated the list on disk is the exact list of the
\* blocks that were free at the last sync.
SyncedInv ==
  /\ freed \intersect owned = {}
  /\ Sound(DiskSynced)
  /\ Synced # {} => SpillIsSafe

CrashInv ==
  /\ TypeOK
  /\ allocated \in BOOLEAN /\ damaged \in BOOLEAN
  /\ freed \subseteq Blk /\ lost \subseteq Blk
  /\ ~damaged => /\ lost \intersect owned = {}
                 /\ mounted => Sound(CoreKept)
                 /\ ~mounted => Sound(DiskKept)
                 /\ ~allocated => SyncedInv

-----------------------------------------------------------------------------
(* allocDBlk: the list on disk is not exact any more.                      *)

LEMMA AllocKeeps ==
  ASSUME CrashInv, ~damaged, Alloc
  PROVE  CrashInv'
<1>1. /\ TypeOK /\ Sound(CoreKept) /\ mounted /\ mounted'
      /\ lost \intersect owned = {} /\ freed \subseteq Blk /\ lost \subseteq Blk
      /\ AllocDBlk /\ allocated' = TRUE
      /\ freed' = freed /\ lost' = lost /\ damaged' = damaged /\ damaged \in BOOLEAN
  BY DEF CrashInv, Alloc, AllocDBlk
<1>2. \E b \in Kept : owned' = owned \union {b} /\ Sound(CoreKept')
  <2>1. CASE TakeSlot
    <3>1. TakesSlot(CoreKept, CoreKept')
      BY <1>1, <2>1 DEF AllocDBlk, TakeSlot, TakesSlot, CoreKept, Kept, Free
    <3>2. CoreKept.cache[CoreKept.next] \in CoreKept.free /\ Sound(CoreKept')
      BY <1>1, <3>1, TakeSlotList
    <3>3. CoreKept.free = Kept /\ CoreKept.cache[CoreKept.next] = freeDBlkCache[pNextFreeDBlk]
      BY DEF CoreKept
    <3> QED BY <2>1, <3>2, <3>3 DEF TakeSlot
  <2>2. CASE TakeHead
    <3>1. TakesHead(CoreKept, CoreKept')
      BY <1>1, <2>2 DEF AllocDBlk, TakeHead, TakesHead, CoreKept, Kept, Free
    <3>2. CoreKept.head \in CoreKept.free /\ Sound(CoreKept')
      BY <1>1, <3>1, TakeHeadList
    <3>3. CoreKept.free = Kept /\ CoreKept.head = pFreeDBlksHead
      BY DEF CoreKept
    <3> QED BY <2>2, <3>2, <3>3 DEF TakeHead
  <2> QED BY <1>1, <2>1, <2>2 DEF AllocDBlk
<1>3. TypeOK'
  <2>1. IsView(CoreKept')
    BY <1>2 DEF Sound
  <2>2. owned' \subseteq Blk
    BY <1>1, <1>2 DEF TypeOK, Kept, Free
  <2>3. diskSB' = diskSB /\ mounted' = mounted
    BY <1>1 DEF AllocDBlk
  <2> QED BY <1>1, <2>1, <2>2, <2>3 DEF TypeOK, IsView, CoreKept
<1>4. lost' \intersect owned' = {}
  BY <1>1, <1>2 DEF Kept
<1> QED BY <1>1, <1>2, <1>3, <1>4 DEF CrashInv

-----------------------------------------------------------------------------
(* freeDBlk: a spill goes to a block that the list on disk does not need.  *)

LEMMA FreeCore ==
  ASSUME CrashInv, ~damaged, NEW b \in Blk, FreeOne(b)
  PROVE  Sound(CoreKept') /\ TypeOK'
<1>1. /\ TypeOK /\ Sound(CoreKept) /\ mounted /\ mounted' /\ mounted' = mounted
      /\ b \in owned /\ owned' = owned \ {b} /\ diskSB' = diskSB
      /\ FreeDBlk(b) /\ lost' = lost /\ b \notin lost
  BY DEF CrashInv, FreeOne, FreeDBlk
<1>2. b \notin CoreKept.free /\ Kept' = Kept \union {b}
  BY <1>1 DEF CoreKept, Kept, Free
<1>3. Sound(CoreKept')
  <2>1. CASE FreeFirst(b)
    <3>1. AddsFirst(CoreKept, CoreKept', b)
      BY <1>1, <1>2, <2>1 DEF FreeDBlk, FreeFirst, AddsFirst, CoreKept
    <3> QED BY <1>1, <1>2, <3>1, FreeFirstList
  <2>2. CASE FreeSpill(b)
    <3>1. AddsSpill(CoreKept, CoreKept', b)
      BY <1>1, <1>2, <2>2 DEF FreeDBlk, FreeSpill, AddsSpill, CoreKept
    <3> QED BY <1>1, <1>2, <3>1, FreeSpillList
  <2>3. CASE FreeSlot(b)
    <3>1. AddsSlot(CoreKept, CoreKept', b)
      BY <1>1, <1>2, <2>3 DEF FreeDBlk, FreeSlot, AddsSlot, CoreKept
    <3> QED BY <1>1, <1>2, <3>1, FreeSlotList
  <2> QED BY <1>1, <2>1, <2>2, <2>3 DEF FreeDBlk
<1>4. TypeOK'
  <2>1. IsView(CoreKept')
    BY <1>3 DEF Sound
  <2>2. owned' \subseteq Blk
    BY <1>1 DEF TypeOK
  <2> QED BY <1>1, <2>1, <2>2 DEF TypeOK, IsView, CoreKept
<1> QED BY <1>3, <1>4

LEMMA FreeDisk ==
  ASSUME CrashInv, ~damaged, ~allocated, NEW b \in Blk, FreeOne(b), TypeOK'
  PROVE  SyncedInv'
<1> USE SizesAssumption
<1>1. /\ TypeOK /\ Sound(DiskSynced) /\ freed \intersect owned = {}
      /\ Synced # {} => SpillIsSafe
      /\ b \in owned /\ owned' = owned \ {b} /\ diskSB' = diskSB
      /\ FreeDBlk(b) /\ lost' = lost /\ freed' = freed \union {b}
  BY DEF CrashInv, SyncedInv, FreeOne, FreeDBlk
<1>2. Synced' = Synced
  BY <1>1 DEF Synced, Free, TypeOK
<1>3. freed' \intersect owned' = {}
  BY <1>1
<1>4. /\ diskSB.pFreeDBlksHead \in Blk /\ diskSB.pNextFreeDBlk \in Slots
      /\ pFreeDBlksHead \in Blk /\ pNextFreeDBlk \in Slots
      /\ freeDBlkCache \in [Slots -> Int]
      /\ dblk \in [Blk -> [Slots -> Int]] /\ dblk' \in [Blk -> [Slots -> Int]]
  BY <1>1 DEF TypeOK
<1>5. ASSUME Synced # {} PROVE diskSB.pFreeDBlksHead \in Synced
  <2>1. DiskSynced.count # 0
    BY <1>1, <1>5, FreeBlocks DEF DiskSynced
  <2>2. DiskSynced.head \in DiskSynced.free
    BY <1>1, <2>1, HeadFree
  <2> QED BY <2>2 DEF DiskSynced
\* The list blocks of the list on disk stay as they are, and the live slots
\* of the last one too.
<1>6. ASSUME Synced # {}
      PROVE  /\ \A a \in Synced : a # diskSB.pFreeDBlksHead => dblk'[a] = dblk[a]
             /\ \A s \in 0 .. diskSB.pNextFreeDBlk :
                  dblk'[diskSB.pFreeDBlksHead][s] = dblk[diskSB.pFreeDBlksHead][s]
  <2>1. CASE FreeSpill(b)
    <3>1. dblk' = [dblk EXCEPT ![pFreeDBlksHead] = freeDBlkCache]
      BY <2>1 DEF FreeSpill
    <3>2. CASE pFreeDBlksHead \in freed
      <4>1. pFreeDBlksHead \notin Synced
        BY <3>2 DEF Synced
      <4> QED BY <1>4, <1>5, <1>6, <3>1, <4>1 DEF Synced
    <3>3. CASE pFreeDBlksHead \notin freed
      <4>1. /\ pFreeDBlksHead = diskSB.pFreeDBlksHead
            /\ \A s \in 0 .. diskSB.pNextFreeDBlk :
                 freeDBlkCache[s] = dblk[diskSB.pFreeDBlksHead][s]
        BY <1>1, <1>6, <3>3 DEF SpillIsSafe
      <4>2. Synced \subseteq Blk
        BY DEF Synced, Free
      <4> QED BY <1>4, <3>1, <4>1, <4>2
    <3> QED BY <3>2, <3>3
  <2>2. CASE FreeFirst(b) \/ FreeSlot(b)
    BY <2>2 DEF FreeFirst, FreeSlot
  <2> QED BY <1>1, <2>1, <2>2 DEF FreeDBlk
<1>7. SameList(DiskSynced, DiskSynced')
  BY <1>1, <1>2, <1>4, <1>6 DEF SameList, DiskSynced
<1>8. Sound(DiskSynced')
  BY <1>1, <1>7, SameListSound
<1>9. ASSUME Synced # {} PROVE SpillIsSafe'
  <2>1. CASE FreeFirst(b) \/ FreeSpill(b)
    <3>1. pFreeDBlksHead' = b /\ b \in freed'
      BY <1>1, <2>1 DEF FreeFirst, FreeSpill
    <3> QED BY <3>1 DEF SpillIsSafe
  <2>2. CASE FreeSlot(b)
    <3>1. /\ pFreeDBlksHead' = pFreeDBlksHead /\ dblk' = dblk
          /\ pNextFreeDBlk' = pNextFreeDBlk + 1
          /\ freeDBlkCache' = [freeDBlkCache EXCEPT ![pNextFreeDBlk + 1] = b]
      BY <2>2 DEF FreeSlot
    <3>2. CASE pFreeDBlksHead \in freed
      <4>1. pFreeDBlksHead' \in freed'
        BY <1>1, <3>1, <3>2
      <4> QED BY <4>1 DEF SpillIsSafe
    <3>3. CASE pFreeDBlksHead \notin freed
      <4>1. /\ pFreeDBlksHead = diskSB.pFreeDBlksHead
            /\ diskSB.pNextFreeDBlk <= pNextFreeDBlk
            /\ \A s \in 0 .. diskSB.pNextFreeDBlk :
                 freeDBlkCache[s] = dblk[diskSB.pFreeDBlksHead][s]
        BY <1>1, <1>9, <3>3 DEF SpillIsSafe
      <4>2. diskSB.pNextFreeDBlk \in Int /\ pNextFreeDBlk \in Int
        BY <1>4 DEF Slots
      <4>3. diskSB.pNextFreeDBlk <= pNextFreeDBlk'
        BY <3>1, <4>1, <4>2
      <4>4. ASSUME NEW s \in 0 .. diskSB.pNextFreeDBlk
            PROVE  freeDBlkCache'[s] = dblk'[diskSB.pFreeDBlksHead][s]
        <5>1. s # pNextFreeDBlk + 1 /\ s \in Slots
          BY SMTT(30), <1>4, <4>1, <4>2 DEF Slots
        <5>2. freeDBlkCache'[s] = freeDBlkCache[s]
          BY <1>4, <3>1, <5>1
        <5> QED BY <3>1, <4>1, <5>2
      <4> QED BY <1>1, <3>1, <4>1, <4>3, <4>4 DEF SpillIsSafe
    <3> QED BY <3>2, <3>3
  <2> QED BY <1>1, <2>1, <2>2 DEF FreeDBlk
<1> QED BY <1>2, <1>3, <1>8, <1>9 DEF SyncedInv

LEMMA FreeKeeps ==
  ASSUME CrashInv, ~damaged, NEW b \in Blk, FreeOne(b)
  PROVE  CrashInv'
<1>1. Sound(CoreKept') /\ TypeOK'
  BY FreeCore
<1>2. ~allocated => SyncedInv'
  BY <1>1, FreeDisk
<1>3. /\ freed \subseteq Blk /\ lost \subseteq Blk /\ lost \intersect owned = {}
      /\ mounted' /\ owned' = owned \ {b} /\ freed' = freed \union {b}
      /\ lost' = lost /\ allocated' = allocated /\ damaged' = damaged
      /\ allocated \in BOOLEAN /\ damaged \in BOOLEAN
  BY DEF CrashInv, FreeOne, FreeDBlk
<1> QED BY <1>1, <1>2, <1>3 DEF CrashInv

-----------------------------------------------------------------------------
(* A write goes to a block some caller holds, which no list needs.         *)

LEMMA WriteKeeps ==
  ASSUME CrashInv, ~damaged, NEW b \in Blk, NEW d \in Contents, Write(b, d)
  PROVE  CrashInv'
<1>1. /\ TypeOK /\ mounted /\ mounted' = mounted /\ Sound(CoreKept)
      /\ UNCHANGED <<superblock, diskSB, owned, ghosts>>
      /\ b \in owned /\ dblk' = [dblk EXCEPT ![b] = d]
  BY DEF CrashInv, Write, WriteDBlk
<1>2. TypeOK'
  BY <1>1, ContentsAssumption DEF TypeOK, superblock
<1>3. /\ Kept' = Kept /\ Synced' = Synced
      /\ \A a \in Free : dblk'[a] = dblk[a]
      /\ dblk' \in [Blk -> [Slots -> Int]] /\ dblk \in [Blk -> [Slots -> Int]]
      /\ freeDBlkCache' \in [Slots -> Int] /\ diskSB'.pFreeDBlksHead \in Blk
      /\ diskSB' = diskSB
  BY <1>1, <1>2 DEF Kept, Synced, Free, TypeOK, ghosts
<1>4. Sound(CoreKept')
  <2>1. SameList(CoreKept, CoreKept')
    BY <1>1, <1>3 DEF SameList, CoreKept, Kept, superblock
  <2> QED BY <1>1, <2>1, SameListSound
<1>5. ASSUME ~allocated PROVE SyncedInv'
  <2>1. Sound(DiskSynced) /\ freed \intersect owned = {} /\ (Synced # {} => SpillIsSafe)
    BY <1>1, <1>5 DEF CrashInv, SyncedInv
  <2>2. ASSUME Synced # {} PROVE dblk'[diskSB.pFreeDBlksHead] = dblk[diskSB.pFreeDBlksHead]
    <3>1. DiskSynced.count # 0
      BY <2>1, <2>2, FreeBlocks DEF DiskSynced
    <3>2. DiskSynced.head \in DiskSynced.free
      BY <2>1, <3>1, HeadFree
    <3>3. diskSB.pFreeDBlksHead \in Free
      BY <3>2 DEF DiskSynced, Synced
    <3> QED BY <1>3, <3>3
  <2>3. SameList(DiskSynced, DiskSynced')
    BY <1>3, <2>2 DEF SameList, DiskSynced, Synced
  <2>4. Sound(DiskSynced')
    BY <2>1, <2>3, SameListSound
  <2>5. Synced # {} => SpillIsSafe'
    BY <1>1, <1>3, <2>1, <2>2 DEF SpillIsSafe, superblock, ghosts
  <2> QED BY <1>1, <1>3, <2>1, <2>4, <2>5 DEF SyncedInv, ghosts
<1> QED BY <1>1, <1>2, <1>4, <1>5 DEF CrashInv, ghosts

-----------------------------------------------------------------------------
(* l2_unmount and l2_mount make the list on disk and the one in core agree. *)

LEMMA UnmountKeeps ==
  ASSUME CrashInv, ~damaged, Sync, Unmount
  PROVE  CrashInv'
<1>1. /\ TypeOK /\ mounted /\ ~mounted' /\ mounted' \in BOOLEAN /\ Sound(CoreKept)
      /\ UNCHANGED <<superblock, owned>>
      /\ dblk' = [dblk EXCEPT ![pFreeDBlksHead] = freeDBlkCache]
      /\ diskSB' = [nFreeDBlks |-> nFreeDBlks, pFreeDBlksHead |-> pFreeDBlksHead,
                    pNextFreeDBlk |-> pNextFreeDBlk]
      /\ lost' = lost /\ freed' = {} /\ allocated' = FALSE /\ damaged' = damaged
      /\ lost \subseteq Blk /\ lost \intersect owned = {} /\ damaged \in BOOLEAN
  BY DEF CrashInv, Sync, Unmount
<1>2. TypeOK'
  BY <1>1 DEF TypeOK, superblock
<1>3. /\ Kept' = Kept /\ Synced' = Kept
      /\ \A a \in Free : a # pFreeDBlksHead => dblk'[a] = dblk[a]
      /\ dblk'[pFreeDBlksHead] = freeDBlkCache
      /\ dblk' \in [Blk -> [Slots -> Int]]
      /\ freeDBlkCache \in [Slots -> Int] /\ pNextFreeDBlk \in Slots
  BY <1>1, <1>2 DEF Kept, Synced, Free, TypeOK
<1>4. Sound(DiskKept')
  <2>1. SameList(CoreKept, DiskKept')
    BY <1>1, <1>3 DEF SameList, CoreKept, DiskKept, Kept
  <2> QED BY <1>1, <2>1, SameListSound
<1>5. SyncedInv'
  <2>1. DiskSynced' = DiskKept'
    BY <1>3 DEF DiskSynced, DiskKept
  <2>2. SpillIsSafe'
    BY <1>1, <1>3 DEF SpillIsSafe, superblock, Slots
  <2> QED BY <1>1, <1>4, <2>1, <2>2 DEF SyncedInv
<1> QED BY <1>1, <1>2, <1>4, <1>5 DEF CrashInv

LEMMA MountKeeps ==
  ASSUME CrashInv, ~damaged, Sync, Mount
  PROVE  CrashInv'
<1>1. /\ TypeOK /\ ~mounted /\ mounted' /\ mounted' \in BOOLEAN /\ Sound(DiskKept)
      /\ UNCHANGED <<diskSB, dblk, owned>>
      /\ lost' = lost /\ freed' = {} /\ allocated' = FALSE /\ damaged' = damaged
      /\ lost \subseteq Blk /\ lost \intersect owned = {} /\ damaged \in BOOLEAN
  BY DEF CrashInv, Sync, Mount
<1>2. TypeOK'
  BY <1>1 DEF TypeOK, Mount
<1>3. Kept' = Kept /\ Synced' = Kept
  BY <1>1 DEF Kept, Synced, Free
<1>4. CoreKept' = DiskKept /\ DiskSynced' = DiskKept
  BY <1>1, <1>3 DEF CoreKept, DiskKept, DiskSynced, Mount
<1>5. SpillIsSafe'
  <2>1. /\ pFreeDBlksHead' = diskSB.pFreeDBlksHead
        /\ pNextFreeDBlk' = diskSB.pNextFreeDBlk
        /\ freeDBlkCache' = dblk[diskSB.pFreeDBlksHead]
    BY DEF Mount
  <2>2. diskSB.pNextFreeDBlk \in Int
    BY <1>1 DEF TypeOK, Slots
  <2> QED BY <1>1, <2>1, <2>2 DEF SpillIsSafe
<1>6. SyncedInv'
  BY <1>1, <1>4, <1>5 DEF SyncedInv
<1> QED BY <1>1, <1>2, <1>4, <1>6 DEF CrashInv

-----------------------------------------------------------------------------
(* The death of the process, outside of l2_unmount or in it: the list on   *)
(* disk is in use from now on.                                             *)

LEMMA DieKeeps ==
  ASSUME CrashInv, ~damaged, Crash \/ CrashInUnmount
  PROVE  CrashInv'
<1>1. /\ TypeOK /\ mounted /\ ~mounted' /\ mounted' \in BOOLEAN
      /\ UNCHANGED <<superblock, diskSB, owned, allocated, freed>>
      /\ damaged' = allocated /\ lost' = lost \union freed
      /\ freed \subseteq Blk /\ lost \subseteq Blk /\ lost \intersect owned = {}
      /\ allocated \in BOOLEAN
      /\ \/ dblk' = dblk
         \/ dblk' = [dblk EXCEPT ![pFreeDBlksHead] = freeDBlkCache]
  BY DEF CrashInv, Die, Crash, CrashInUnmount
<1>2. TypeOK'
  BY <1>1 DEF TypeOK, superblock
<1>3. ASSUME ~allocated
      PROVE  lost' \intersect owned' = {} /\ Sound(DiskKept') /\ SyncedInv'
  <2>1. Sound(DiskSynced) /\ freed \intersect owned = {} /\ (Synced # {} => SpillIsSafe)
    BY <1>1, <1>3 DEF CrashInv, SyncedInv
  <2>2. Synced' = Synced /\ Kept' = Synced
    BY <1>1 DEF Synced, Kept, Free
  <2>3. /\ diskSB' = diskSB /\ freed' = freed
        /\ diskSB.pFreeDBlksHead \in Blk /\ diskSB.pNextFreeDBlk \in Slots
        /\ pFreeDBlksHead \in Blk /\ freeDBlkCache \in [Slots -> Int]
        /\ dblk \in [Blk -> [Slots -> Int]] /\ dblk' \in [Blk -> [Slots -> Int]]
        /\ pFreeDBlksHead' = pFreeDBlksHead /\ pNextFreeDBlk' = pNextFreeDBlk
        /\ freeDBlkCache' = freeDBlkCache
    BY <1>1, <1>2 DEF TypeOK, superblock
  <2>4. ASSUME Synced # {} PROVE diskSB.pFreeDBlksHead \in Synced
    <3>1. DiskSynced.count # 0
      BY <2>1, <2>4, FreeBlocks DEF DiskSynced
    <3>2. DiskSynced.head \in DiskSynced.free
      BY <2>1, <3>1, HeadFree
    <3> QED BY <3>2 DEF DiskSynced
  <2>5. ASSUME Synced # {}
        PROVE  /\ \A a \in Synced : a # diskSB.pFreeDBlksHead => dblk'[a] = dblk[a]
               /\ \A s \in 0 .. diskSB.pNextFreeDBlk :
                    dblk'[diskSB.pFreeDBlksHead][s] = dblk[diskSB.pFreeDBlksHead][s]
               /\ SpillIsSafe'
    <3>1. CASE dblk' = dblk
      BY <2>1, <2>3, <2>5, <3>1 DEF SpillIsSafe
    <3>2. CASE dblk' = [dblk EXCEPT ![pFreeDBlksHead] = freeDBlkCache]
      <4>1. CASE pFreeDBlksHead \in freed
        <5>1. pFreeDBlksHead \notin Synced
          BY <4>1 DEF Synced
        <5>2. Synced \subseteq Blk
          BY DEF Synced, Free
        <5>3. SpillIsSafe'
          BY <2>3, <4>1 DEF SpillIsSafe
        <5> QED BY <2>3, <2>4, <2>5, <3>2, <5>1, <5>2, <5>3
      <4>2. CASE pFreeDBlksHead \notin freed
        <5>1. /\ pFreeDBlksHead = diskSB.pFreeDBlksHead
              /\ diskSB.pNextFreeDBlk <= pNextFreeDBlk
              /\ \A s \in 0 .. diskSB.pNextFreeDBlk :
                   freeDBlkCache[s] = dblk[diskSB.pFreeDBlksHead][s]
          BY <2>1, <2>5, <4>2 DEF SpillIsSafe
        <5>2. Synced \subseteq Blk
          BY DEF Synced, Free
        <5>3. /\ dblk'[diskSB.pFreeDBlksHead] = freeDBlkCache
              /\ \A a \in Synced : a # diskSB.pFreeDBlksHead => dblk'[a] = dblk[a]
          BY <2>3, <3>2, <5>1, <5>2
        <5>4. SpillIsSafe'
          BY <2>3, <5>1, <5>3 DEF SpillIsSafe
        <5> QED BY <5>1, <5>3, <5>4
      <4> QED BY <4>1, <4>2
    <3> QED BY <1>1, <3>1, <3>2
  <2>6. Sound(DiskSynced')
    <3>1. SameList(DiskSynced, DiskSynced')
      BY <2>2, <2>3, <2>5 DEF SameList, DiskSynced
    <3> QED BY <2>1, <3>1, SameListSound
  <2>7. DiskKept' = DiskSynced'
    BY <2>2 DEF DiskKept, DiskSynced
  <2>8. SyncedInv'
    BY <1>1, <2>1, <2>2, <2>5, <2>6 DEF SyncedInv
  <2>9. lost' \intersect owned' = {}
    BY <1>1, <2>1
  <2> QED BY <2>6, <2>7, <2>8, <2>9
<1> QED BY <1>1, <1>2, <1>3 DEF CrashInv

-----------------------------------------------------------------------------
(* The invariant, and what it says of the blocks that will be allocated.   *)

LEMMA CrashInitHolds == CrashInit => CrashInv
<1> SUFFICES ASSUME CrashInit PROVE CrashInv
  OBVIOUS
<1>1. /\ IInv /\ mounted = TRUE /\ owned = {} /\ View = InCore
      /\ allocated = FALSE /\ damaged = FALSE /\ freed = {} /\ lost = {}
  BY InitChain DEF CrashInit, Init, View
<1>2. CoreKept = InCore
  BY <1>1 DEF CoreKept, InCore, Kept
<1>3. Sound(CoreKept) /\ TypeOK
  BY <1>1, <1>2, Views DEF IInv
<1>4. /\ diskSB.nFreeDBlks = nFreeDBlks /\ diskSB.pFreeDBlksHead = pFreeDBlksHead
      /\ diskSB.pNextFreeDBlk = pNextFreeDBlk
      /\ freeDBlkCache = dblk[diskSB.pFreeDBlksHead]
  BY DEF CrashInit, Init, FullSuperBlock
<1>5. SyncedInv
  <2>1. Synced = Kept
    BY <1>1 DEF Synced, Kept
  <2>2. DiskSynced = CoreKept
    BY <1>4, <2>1 DEF DiskSynced, CoreKept
  <2>3. pNextFreeDBlk \in Int
    BY <1>3 DEF TypeOK, Slots
  <2>4. SpillIsSafe
    BY <1>4, <2>3 DEF SpillIsSafe
  <2> QED BY <1>1, <1>3, <2>2, <2>4 DEF SyncedInv
<1> QED BY <1>1, <1>3, <1>5 DEF CrashInv

LEMMA CrashInductive == CrashInv /\ [CrashNext]_crashVars => CrashInv'
<1> SUFFICES ASSUME CrashInv, [CrashNext]_crashVars PROVE CrashInv'
  OBVIOUS
<1>1. CASE CrashNext
  <2>1. ~damaged
    BY <1>1 DEF CrashNext
  <2>2. CASE Alloc
    BY <2>1, <2>2, AllocKeeps
  <2>3. ASSUME NEW b \in Blk, FreeOne(b) PROVE CrashInv'
    BY <2>1, <2>3, FreeKeeps
  <2>4. ASSUME NEW b \in Blk, NEW d \in Contents, Write(b, d) PROVE CrashInv'
    BY <2>1, <2>4, WriteKeeps
  <2>5. CASE Sync
    BY <2>1, <2>5, UnmountKeeps, MountKeeps DEF Sync
  <2>6. CASE Crash \/ CrashInUnmount
    BY <2>1, <2>6, DieKeeps
  <2> QED BY <1>1, <2>2, <2>3, <2>4, <2>5, <2>6 DEF CrashNext
<1>2. CASE UNCHANGED crashVars
  <2>1. UNCHANGED <<mounted, nFreeDBlks, pFreeDBlksHead, pNextFreeDBlk, freeDBlkCache,
                    diskSB, dblk, owned, allocated, freed, lost, damaged>>
    BY <1>2 DEF crashVars, vars, superblock, ghosts
  <2>2. TypeOK' = TypeOK
    BY <2>1 DEF TypeOK
  <2>3. CoreKept' = CoreKept /\ DiskKept' = DiskKept /\ DiskSynced' = DiskSynced
        /\ Synced' = Synced /\ SpillIsSafe' = SpillIsSafe
    BY <2>1 DEF CoreKept, DiskKept, DiskSynced, Kept, Synced, Free, SpillIsSafe
  <2> QED BY <2>1, <2>2, <2>3 DEF CrashInv, SyncedInv
<1> QED BY <1>1, <1>2

LEMMA CrashInvariance == CrashSpec => []CrashInv
BY CrashInitHolds, CrashInductive, PTL DEF CrashSpec

\* The order of the allocations does not depend on what is said to be free.
LEMMA OrderOfFields ==
  ASSUME NEW v, NEW w, w.count = v.count, w.head = v.head, w.next = v.next,
         w.cache = v.cache, w.lists = v.lists
  PROVE  OrderOf(w) = OrderOf(v)
<1>1. \A h : ListAt(w, h) = ListAt(v, h)
  BY DEF ListAt
<1>2. BlkAt(w) = BlkAt(v) /\ Below(w) = Below(v)
  BY <1>1 DEF BlkAt, Below
<1> QED BY <1>2 DEF OrderOf

\* The blocks to be allocated are those that are free and not lost.
LEMMA ListedIsKept ==
  ASSUME CrashInv, ~damaged
  PROVE  Listed = Kept /\ Cardinality(Listed) = Len(AllocOrder)
<1>1. PICK v : v = IF mounted THEN CoreKept ELSE DiskKept
  OBVIOUS
<1>2. Sound(v) /\ v.free = Kept
  BY <1>1 DEF CrashInv, CoreKept, DiskKept
<1>3. OrderOf(View) = OrderOf(v)
  <2>1. /\ View.count = v.count /\ View.head = v.head /\ View.next = v.next
        /\ View.cache = v.cache /\ View.lists = v.lists
    BY <1>1 DEF View, InCore, OnDisk, CoreKept, DiskKept
  <2> QED BY <2>1, OrderOfFields
<1>4. /\ DOMAIN OrderOf(v) = 1 .. v.count
      /\ \A k \in 1 .. v.count : OrderOf(v)[k] \in v.free
      /\ \A b \in v.free : \E k \in 1 .. v.count : OrderOf(v)[k] = b
  BY <1>2, OrderInFree, OrderExact
<1>5. Listed = Kept
  BY <1>2, <1>3, <1>4 DEF Listed, AllocOrder
<1>6. Len(AllocOrder) = v.count /\ v.count = Cardinality(v.free)
  BY <1>2, <1>3, OrderIsSeq, FreeBlocks DEF AllocOrder
<1> QED BY <1>2, <1>5, <1>6

-----------------------------------------------------------------------------
\* For every disk size and list block size: after any history of calls and of
\* crashes that hit before the next allocation, also in the middle of
\* l2_unmount, no block a caller holds and no block twice is listed to be
\* allocated, although freeDBlk has spilled list blocks over the old list.
THEOREM CrashSafe == CrashSpec => []CrashKeepsListSound
<1>1. CrashInv => CrashKeepsListSound
  BY ListedIsKept DEF CrashKeepsListSound, Kept
<1> QED BY <1>1, CrashInvariance, PTL

\* For every disk size and list block size: such crashes lose the blocks that
\* were freed since the last sync and no others, and what is lost stays lost.
THEOREM CrashCost == CrashSpec => []CrashLosesOnlyFrees
<1>1. ASSUME CrashInv PROVE CrashLosesOnlyFrees
  <2>1. ~damaged => lost \subseteq Free
    BY <1>1 DEF CrashInv, Free
  <2> QED BY <1>1, <2>1, ListedIsKept DEF CrashLosesOnlyFrees, Kept
<1> QED BY <1>1, CrashInvariance, PTL
=============================================================================
