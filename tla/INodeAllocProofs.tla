-------------------------- MODULE INodeAllocProofs ---------------------------
(***************************************************************************)
(* Proofs about INodeAlloc for every number of inodes and size of the      *)
(* stack: the superblock counts the free inodes exactly, the stack holds   *)
(* free inodes only, each once, and an allocation returns a free inode,    *)
(* also when it has to scan the disk for one.                              *)
(***************************************************************************)
EXTENDS INodeAlloc, FiniteSetTheorems, TLAPS

IInv == TypeOK /\ FreeCountExact /\ StackSound

LEMMA INodeFinite ==
  /\ IsFiniteSet(INode) /\ Cardinality(INode) = NINodes
  /\ NINodes \in Nat \ {0} /\ CacheSize \in Nat \ {0}
<1>1. NINodes \in Nat \ {0} /\ CacheSize \in Nat \ {0}
  BY SizesAssumption
<1>2. 0 \in Int /\ NINodes - 1 \in Int
  BY <1>1
<1>3. IsFiniteSet(0 .. NINodes - 1) /\
      Cardinality(0 .. NINodes - 1) = IF 0 > NINodes - 1 THEN 0
                                      ELSE NINodes - 1 - 0 + 1
  BY <1>2, FS_Interval
<1> QED
  BY <1>1, <1>3 DEF INode

LEMMA OnDiskFreeFinite ==
  /\ OnDiskFree \subseteq INode /\ IsFiniteSet(OnDiskFree)
  /\ Cardinality(OnDiskFree) \in 0 .. NINodes
<1>1. OnDiskFree \subseteq INode
  BY DEF OnDiskFree
<1>2. IsFiniteSet(OnDiskFree) /\ Cardinality(OnDiskFree) <= Cardinality(INode)
  BY <1>1, INodeFinite, FS_Subset
<1>3. Cardinality(OnDiskFree) \in Nat
  BY <1>2, FS_CardinalityType
<1> QED
  BY <1>1, <1>2, <1>3, INodeFinite

\* The top of the stack survives the way to disk and back, -1 included.
LEMMA ConversionsInverse ==
  ASSUME NEW i \in -1 .. CacheSize - 1
  PROVE  ToUINT(i) \in 0 .. UINTSize - 1 /\ ToINT(ToUINT(i)) = i
<1>1. UINTSize \in Nat /\ UINTSize >= 2 * CacheSize + 2 /\ CacheSize \in Nat \ {0}
  BY SizesAssumption
<1>2. CASE i = -1
  <2>1. (-1) % UINTSize = UINTSize - 1
    BY <1>1
  <2> QED
    BY <1>1, <1>2, <2>1 DEF ToUINT, ToINT
<1>3. CASE i # -1
  <2>1. i \in 0 .. UINTSize - 1 /\ 2 * i < UINTSize
    BY <1>1, <1>3
  <2>2. i % UINTSize = i
    BY <1>1, <2>1
  <2> QED
    BY <1>1, <2>1, <2>2 DEF ToUINT, ToINT
<1> QED
  BY <1>2, <1>3

-----------------------------------------------------------------------------
(* The scan: the ranks of the free inodes are 0 .. n-1, each of them once.  *)

Below(i) == {j \in OnDiskFree : j < i}

LEMMA BelowFinite ==
  ASSUME NEW i \in OnDiskFree
  PROVE  /\ IsFiniteSet(Below(i)) /\ Rank(i) = Cardinality(Below(i))
         /\ Rank(i) \in 0 .. Cardinality(OnDiskFree) - 1
<1>1. Below(i) \subseteq OnDiskFree \ {i}
  BY OnDiskFreeFinite DEF Below, INode
<1>2. IsFiniteSet(OnDiskFree \ {i}) /\
      Cardinality(OnDiskFree \ {i}) = Cardinality(OnDiskFree) - 1
  BY OnDiskFreeFinite, FS_RemoveElement
<1>3. IsFiniteSet(Below(i)) /\
      Cardinality(Below(i)) <= Cardinality(OnDiskFree \ {i})
  BY <1>1, <1>2, FS_Subset
<1>4. Cardinality(Below(i)) \in Nat
  BY <1>3, FS_CardinalityType
<1>5. Rank(i) = Cardinality(Below(i))
  BY DEF Rank, Below
<1> QED
  BY <1>2, <1>3, <1>4, <1>5, OnDiskFreeFinite

LEMMA RankIncreases ==
  ASSUME NEW i \in OnDiskFree, NEW j \in OnDiskFree, i < j
  PROVE  Rank(i) < Rank(j)
<1>0. OnDiskFree \subseteq Int /\ i \in Int /\ j \in Int
  BY OnDiskFreeFinite DEF INode
<1>1. Below(i) \subseteq Below(j) /\ i \in Below(j) /\ i \notin Below(i)
  <2>1. \A k \in OnDiskFree : k < i => k < j
    BY <1>0
  <2>2. ~(i < i)
    BY <1>0
  <2> QED
    BY <2>1, <2>2 DEF Below
<1>2. /\ Cardinality(Below(i)) <= Cardinality(Below(j))
      /\ Cardinality(Below(j)) = Cardinality(Below(i)) => Below(j) = Below(i)
  BY <1>1, BelowFinite, FS_Subset
<1>3. Rank(i) \in Int /\ Rank(j) \in Int /\ Rank(i) <= Rank(j) /\ Rank(i) # Rank(j)
  BY <1>1, <1>2, BelowFinite
<1> QED
  BY <1>3

LEMMA RankInjective ==
  ASSUME NEW i \in OnDiskFree, NEW j \in OnDiskFree, Rank(i) = Rank(j)
  PROVE  i = j
<1>1. i \in Int /\ j \in Int
  BY OnDiskFreeFinite DEF INode
<1>2. ~(i < j) /\ ~(j < i)
  BY RankIncreases, BelowFinite
<1> QED
  BY <1>1, <1>2

LEMMA RankOnto ==
  ASSUME NEW r \in 0 .. Cardinality(OnDiskFree) - 1
  PROVE  \E i \in OnDiskFree : Rank(i) = r
<1> DEFINE n == Cardinality(OnDiskFree)
           R == 0 .. n - 1
           f == [i \in OnDiskFree |-> Rank(i)]
<1>1. n \in Nat
  BY OnDiskFreeFinite
<1>2. IsFiniteSet(R) /\ Cardinality(R) = n
  <2>1. 0 \in Int /\ n - 1 \in Int
    BY <1>1
  <2>2. IsFiniteSet(0 .. n - 1) /\
        Cardinality(0 .. n - 1) = IF 0 > n - 1 THEN 0 ELSE n - 1 - 0 + 1
    BY <2>1, FS_Interval
  <2> QED
    BY <1>1, <2>2
<1>3. f \in [OnDiskFree -> R]
  BY BelowFinite
<1>4. \A i, j \in OnDiskFree : f[i] = f[j] => i = j
  BY RankInjective
<1>5. f \in Injection(OnDiskFree, R)
  BY <1>3, <1>4 DEF Injection, IsInjective
<1> HIDE DEF R, f
<1>6. f \in Surjection(OnDiskFree, R)
  BY <1>2, <1>5, FS_Injection
<1>7. \E i \in OnDiskFree : f[i] = r
  BY <1>6 DEF Surjection, R
<1> QED
  BY <1>7 DEF f

\* The scan finds as many inodes as fit in the stack, if there are as many.
LEMMA ScanCount ==
  /\ Scanned \subseteq OnDiskFree
  /\ Cardinality(Scanned) = IF Cardinality(OnDiskFree) < CacheSize
                              THEN Cardinality(OnDiskFree) ELSE CacheSize
<1> DEFINE n == Cardinality(OnDiskFree)
           m == IF n < CacheSize THEN n ELSE CacheSize
           R == 0 .. m - 1
           f == [i \in Scanned |-> Rank(i)]
<1>1. n \in Nat /\ m \in Nat /\ CacheSize \in Nat \ {0}
  BY OnDiskFreeFinite, INodeFinite
<1>2. Scanned \subseteq OnDiskFree
  BY DEF Scanned
<1>3. IsFiniteSet(R) /\ Cardinality(R) = m
  <2>1. 0 \in Int /\ m - 1 \in Int
    BY <1>1
  <2>2. IsFiniteSet(0 .. m - 1) /\
        Cardinality(0 .. m - 1) = IF 0 > m - 1 THEN 0 ELSE m - 1 - 0 + 1
    BY <2>1, FS_Interval
  <2> QED
    BY <1>1, <2>2
<1>4. f \in [Scanned -> R]
  <2> SUFFICES ASSUME NEW i \in Scanned PROVE Rank(i) \in R
    OBVIOUS
  <2>1. Rank(i) \in 0 .. n - 1 /\ Rank(i) < CacheSize
    BY <1>2, BelowFinite DEF Scanned
  <2> QED
    BY <1>1, <2>1
<1>5. \A i, j \in Scanned : f[i] = f[j] => i = j
  BY <1>2, RankInjective
<1>6. \A r \in R : \E i \in Scanned : f[i] = r
  <2> SUFFICES ASSUME NEW r \in R PROVE \E i \in Scanned : f[i] = r
    OBVIOUS
  <2>1. r \in 0 .. n - 1 /\ r < CacheSize
    BY <1>1
  <2>2. PICK i \in OnDiskFree : Rank(i) = r
    BY <2>1, RankOnto
  <2> QED
    BY <2>1, <2>2 DEF Scanned
<1> HIDE DEF R, f
<1>7. f \in Injection(Scanned, R) /\ f \in Surjection(Scanned, R)
  BY <1>4, <1>5, <1>6 DEF Injection, Surjection, IsInjective
<1>8. Cardinality(Scanned) = Cardinality(R)
  BY <1>3, <1>7, FS_Injection
<1> QED
  BY <1>2, <1>3, <1>8

\* After a scan the stack is sound.
LEMMA ScanSound ==
  ASSUME TypeOK
  PROVE  LET top == Cardinality(Scanned) - 1
         IN  /\ ScannedCache \in [Slots -> INode \union {-1}]
             /\ \A s \in 0 .. top : ScannedCache[s] \in OnDiskFree
             /\ \A s, t \in 0 .. top : ScannedCache[s] = ScannedCache[t] => s = t
<1> DEFINE top == Cardinality(Scanned) - 1
<1>1. \A s \in 0 .. top : \E i \in Scanned : Rank(i) = s
  <2> SUFFICES ASSUME NEW s \in 0 .. top PROVE \E i \in Scanned : Rank(i) = s
    OBVIOUS
  <2>1. s \in 0 .. Cardinality(OnDiskFree) - 1 /\ s < CacheSize
    BY ScanCount, OnDiskFreeFinite, INodeFinite
  <2>2. PICK i \in OnDiskFree : Rank(i) = s
    BY <2>1, RankOnto
  <2> QED
    BY <2>1, <2>2 DEF Scanned
<1>2. \A s \in 0 .. top : s \in Slots
  BY ScanCount, OnDiskFreeFinite, INodeFinite DEF Slots
<1>3. ASSUME NEW s \in Slots, \E i \in Scanned : Rank(i) = s
      PROVE  ScannedCache[s] \in Scanned /\ Rank(ScannedCache[s]) = s
  BY <1>3 DEF ScannedCache
<1>4. ScannedCache \in [Slots -> INode \union {-1}]
  <2> SUFFICES ASSUME NEW s \in Slots
               PROVE  ScannedCache[s] \in INode \union {-1}
    BY DEF ScannedCache
  <2>1. CASE \E i \in Scanned : Rank(i) = s
    BY <1>3, <2>1, ScanCount, OnDiskFreeFinite
  <2>2. CASE ~\E i \in Scanned : Rank(i) = s
    BY <2>2 DEF ScannedCache, TypeOK
  <2> QED
    BY <2>1, <2>2
<1>5. \A s \in 0 .. top : ScannedCache[s] \in Scanned /\ Rank(ScannedCache[s]) = s
  BY <1>1, <1>2, <1>3
<1>6. \A s \in 0 .. top : ScannedCache[s] \in OnDiskFree
  BY <1>5, ScanCount
<1>7. \A s, t \in 0 .. top : ScannedCache[s] = ScannedCache[t] => s = t
  BY <1>5
<1> QED
  BY <1>4, <1>6, <1>7

-----------------------------------------------------------------------------
\* Taking the top of a sound stack keeps the invariant and returns an inode
\* that was free.
LEMMA TakeKeepsInv ==
  ASSUME IInv, mounted, nFreeINodes # 0,
         NEW c \in [Slots -> INode \union {-1}], NEW p \in Slots,
         \A s \in 0 .. p : c[s] \in OnDiskFree,
         \A s, t \in 0 .. p : c[s] = c[t] => s = t,
         Take(c, p)
  PROVE  IInv' /\ \E i \in INode \ returned : returned' = returned \union {i}
<1>1. PICK i : i = c[p]
  OBVIOUS
<1>2. p \in Nat /\ p < CacheSize /\ p \in 0 .. p
  BY INodeFinite DEF Slots
<1>3. i \in OnDiskFree /\ i \in INode /\ i \notin returned
  BY <1>1, <1>2, OnDiskFreeFinite DEF IInv, FreeCountExact
<1>4. /\ itype' = [itype EXCEPT ![i] = "USED"] /\ returned' = returned \union {i}
      /\ freeINodeCache' = [c EXCEPT ![p] = -1] /\ pNextFreeINode' = p - 1
      /\ nFreeINodes' = nFreeINodes - 1 /\ mounted' = mounted /\ diskSB' = diskSB
  BY <1>1 DEF Take
<1>5. OnDiskFree' = OnDiskFree \ {i}
  BY <1>3, <1>4 DEF OnDiskFree, IInv, TypeOK
<1>6. TypeOK'
  <2>1. p - 1 \in -1 .. CacheSize - 1
    BY <1>2, INodeFinite
  <2>2. nFreeINodes - 1 \in 0 .. NINodes
    BY INodeFinite DEF IInv, TypeOK
  <2>3. [c EXCEPT ![p] = -1] \in [Slots -> INode \union {-1}]
    OBVIOUS
  <2> QED
    BY <1>3, <1>4, <2>1, <2>2, <2>3 DEF IInv, TypeOK
<1>7. FreeCountExact'
  <2>1. Cardinality(OnDiskFree \ {i}) = Cardinality(OnDiskFree) - 1
    BY <1>3, OnDiskFreeFinite, FS_RemoveElement
  <2> QED
    BY <1>3, <1>4, <1>5, <2>1 DEF IInv, FreeCountExact, ViewCount
<1>8. StackSound'
  <2>1. ViewTop' = p - 1 /\ ViewCache' = [c EXCEPT ![p] = -1]
    BY <1>4 DEF ViewTop, ViewCache
  <2>2. \A s \in 0 .. p - 1 : s \in Slots /\ s # p /\ s \in 0 .. p
    BY <1>2, INodeFinite DEF Slots
  <2>3. \A s \in 0 .. p - 1 : ViewCache'[s] = c[s]
    BY <2>1, <2>2
  <2>4. \A s \in 0 .. p - 1 : c[s] # i
    BY <1>1, <1>2, <2>2
  <2>5. p - 1 \in -1 .. CacheSize - 1
    BY <1>2, INodeFinite
  <2>6. \A s \in 0 .. p - 1 : ViewCache'[s] \in OnDiskFree'
    BY <1>5, <2>2, <2>3, <2>4
  <2>7. \A s, t \in 0 .. p - 1 : ViewCache'[s] = ViewCache'[t] => s = t
    BY <2>2, <2>3
  <2> QED
    BY <2>1, <2>5, <2>6, <2>7 DEF StackSound
<1> QED
  BY <1>3, <1>4, <1>6, <1>7, <1>8 DEF IInv

LEMMA AllocKeepsInv ==
  ASSUME IInv, AllocINode
  PROVE  IInv' /\ \E i \in INode \ returned : returned' = returned \union {i}
<1>1. mounted /\ nFreeINodes # 0
  BY DEF AllocINode
<1>2. ViewTop = pNextFreeINode /\ ViewCache = freeINodeCache
      /\ ViewCount = nFreeINodes /\ pNextFreeINode \in -1 .. CacheSize - 1
  BY <1>1 DEF ViewTop, ViewCache, ViewCount, IInv, TypeOK
<1>3. CASE pNextFreeINode < 0
  <2>1. pNextFreeINode = -1
    BY <1>2, <1>3
  <2>2. PICK p : p = pNextFreeINode + Cardinality(Scanned)
    OBVIOUS
  <2>3. Cardinality(OnDiskFree) \in Nat \ {0}
    BY <1>1, <1>2, OnDiskFreeFinite DEF IInv, FreeCountExact
  <2>4. p = Cardinality(Scanned) - 1 /\ p \in Slots
    BY <2>1, <2>2, <2>3, ScanCount, INodeFinite DEF Slots
  <2>5. /\ ScannedCache \in [Slots -> INode \union {-1}]
        /\ \A s \in 0 .. p : ScannedCache[s] \in OnDiskFree
        /\ \A s, t \in 0 .. p : ScannedCache[s] = ScannedCache[t] => s = t
    BY <2>4, ScanSound DEF IInv
  <2>6. Take(ScannedCache, p)
    BY <1>3, <2>2 DEF AllocINode
  <2> QED
    BY <1>1, <2>4, <2>5, <2>6, TakeKeepsInv
<1>4. CASE ~(pNextFreeINode < 0)
  <2>1. pNextFreeINode \in Slots
    BY <1>2, <1>4, INodeFinite DEF Slots
  <2>2. /\ freeINodeCache \in [Slots -> INode \union {-1}]
        /\ \A s \in 0 .. pNextFreeINode : freeINodeCache[s] \in OnDiskFree
        /\ \A s, t \in 0 .. pNextFreeINode :
             freeINodeCache[s] = freeINodeCache[t] => s = t
    BY <1>2 DEF IInv, TypeOK, StackSound
  <2>3. Take(freeINodeCache, pNextFreeINode)
    BY <1>4 DEF AllocINode
  <2> QED
    BY <1>1, <2>1, <2>2, <2>3, TakeKeepsInv
<1> QED
  BY <1>3, <1>4

LEMMA FreeKeepsInv ==
  ASSUME IInv, NEW i \in INode, FreeINode(i)
  PROVE  IInv'
<1>1. /\ mounted /\ mounted' = mounted /\ diskSB' = diskSB /\ i \in returned
      /\ itype' = [itype EXCEPT ![i] = "FREE"] /\ returned' = returned \ {i}
      /\ nFreeINodes' = nFreeINodes + 1
  BY DEF FreeINode
<1>2. i \notin OnDiskFree
  BY <1>1 DEF IInv, FreeCountExact
<1>3. OnDiskFree' = OnDiskFree \union {i}
  BY <1>1 DEF OnDiskFree, IInv, TypeOK
<1>4. Cardinality(OnDiskFree') = Cardinality(OnDiskFree) + 1
  BY <1>2, <1>3, OnDiskFreeFinite, FS_AddElement
<1>5. FreeCountExact'
  BY <1>1, <1>3, <1>4 DEF IInv, FreeCountExact, ViewCount
<1>6. nFreeINodes' \in 0 .. NINodes
  <2>1. nFreeINodes' = Cardinality(OnDiskFree')
    BY <1>1, <1>5 DEF FreeCountExact, ViewCount
  <2>2. OnDiskFree' \subseteq INode
    BY DEF OnDiskFree
  <2>3. IsFiniteSet(OnDiskFree') /\ Cardinality(OnDiskFree') <= Cardinality(INode)
    BY <2>2, INodeFinite, FS_Subset
  <2>4. Cardinality(OnDiskFree') \in Nat
    BY <2>3, FS_CardinalityType
  <2> QED
    BY <2>1, <2>3, <2>4, INodeFinite
<1>7. ViewTop = pNextFreeINode /\ ViewCache = freeINodeCache
      /\ ViewTop' = pNextFreeINode' /\ ViewCache' = freeINodeCache'
      /\ pNextFreeINode \in -1 .. CacheSize - 1
  BY <1>1 DEF ViewTop, ViewCache, IInv, TypeOK
<1>8. CASE pNextFreeINode < CacheSize - 1
  <2>1. PICK q : q = pNextFreeINode + 1
    OBVIOUS
  <2>2. q \in Slots /\ q \in Int
    BY <1>7, <1>8, <2>1, INodeFinite DEF Slots
  <2>3. freeINodeCache' = [freeINodeCache EXCEPT ![q] = i] /\ pNextFreeINode' = q
    BY <1>8, <2>1 DEF FreeINode
  <2>4. TypeOK'
    BY <1>1, <1>6, <2>2, <2>3 DEF IInv, TypeOK, Slots
  <2>5. \A s \in 0 .. q : s \in Slots /\ (s # q => s \in 0 .. pNextFreeINode)
    BY <1>7, <2>1, <2>2, INodeFinite DEF Slots
  <2>6. freeINodeCache \in [Slots -> INode \union {-1}]
    BY DEF IInv, TypeOK
  <2>7. \A s \in 0 .. q : freeINodeCache'[s] = IF s = q THEN i ELSE freeINodeCache[s]
    BY <2>3, <2>5, <2>6
  <2>8. \A s \in 0 .. q : s # q => freeINodeCache[s] \in OnDiskFree
    BY <1>7, <2>5 DEF IInv, StackSound
  <2>9. \A s, t \in 0 .. q : s # q /\ t # q /\ freeINodeCache[s] = freeINodeCache[t]
                             => s = t
    BY <1>7, <2>5 DEF IInv, StackSound
  <2>10. \A s \in 0 .. q : freeINodeCache'[s] \in OnDiskFree'
    BY <1>3, <2>7, <2>8
  <2>11. \A s, t \in 0 .. q : freeINodeCache'[s] = freeINodeCache'[t] => s = t
    BY <1>2, <2>7, <2>8, <2>9
  <2>12. StackSound'
    BY <1>7, <2>2, <2>3, <2>10, <2>11 DEF StackSound, Slots
  <2> QED
    BY <1>5, <2>4, <2>12 DEF IInv
<1>9. CASE ~(pNextFreeINode < CacheSize - 1)
  <2>1. freeINodeCache' = freeINodeCache /\ pNextFreeINode' = pNextFreeINode
    BY <1>9 DEF FreeINode
  <2>2. TypeOK'
    BY <1>1, <1>6, <2>1 DEF IInv, TypeOK
  <2>3. StackSound'
    BY <1>3, <1>7, <2>1 DEF IInv, StackSound
  <2> QED
    BY <1>5, <2>2, <2>3 DEF IInv
<1> QED
  BY <1>8, <1>9

LEMMA RemountKeepsInv ==
  ASSUME IInv, Unmount \/ Mount
  PROVE  IInv'
<1>1. itype' = itype /\ returned' = returned /\ OnDiskFree' = OnDiskFree
  BY DEF Unmount, Mount, OnDiskFree
<1>2. ViewCount' = ViewCount /\ ViewTop' = ViewTop /\ ViewCache' = ViewCache
  <2>1. CASE Unmount
    <3>1. ToINT(ToUINT(pNextFreeINode)) = pNextFreeINode
      BY ConversionsInverse DEF IInv, TypeOK
    <3>2. /\ diskSB'.nFreeINodes = nFreeINodes
          /\ diskSB'.pNextFreeINode = ToUINT(pNextFreeINode)
          /\ diskSB'.freeINodeCache = freeINodeCache
      BY <2>1 DEF Unmount
    <3>3. ViewTop' = ToINT(diskSB'.pNextFreeINode)
      BY <2>1 DEF Unmount, ViewTop, ToINT
    <3> QED
      BY <2>1, <3>1, <3>2, <3>3 DEF Unmount, ViewCount, ViewTop, ViewCache
  <2>2. CASE Mount
    BY <2>2 DEF Mount, ViewCount, ViewTop, ViewCache
  <2> QED
    BY <2>1, <2>2
<1>3. TypeOK'
  <2>1. CASE Unmount
    BY <2>1, ConversionsInverse DEF Unmount, superblock, IInv, TypeOK
  <2>2. CASE Mount
    <3>1. ToINT(diskSB.pNextFreeINode) \in -1 .. CacheSize - 1
      BY <2>2 DEF Mount, IInv, StackSound, ViewTop
    <3> QED
      BY <2>2, <3>1 DEF Mount, IInv, TypeOK
  <2> QED
    BY <2>1, <2>2
<1> QED
  BY <1>1, <1>2, <1>3 DEF IInv, FreeCountExact, StackSound

\* makefs establishes the invariant.
LEMMA InitInv == Init => IInv
<1> SUFFICES ASSUME Init PROVE IInv
  OBVIOUS
<1>1. OnDiskFree = INode
  BY DEF Init, OnDiskFree
<1>2. NINodes \in Nat /\ CacheSize \in Nat \ {0} /\ NINodes >= CacheSize
      /\ UINTSize \in Nat /\ UINTSize >= 2 * NINodes + 2
  BY SizesAssumption
<1>3. [s \in Slots |-> s] \in [Slots -> INode \union {-1}]
  BY <1>2 DEF Slots, INode
<1>4. TypeOK
  BY <1>2, <1>3 DEF Init, TypeOK, INode
<1>5. FreeCountExact
  BY <1>1, INodeFinite DEF Init, FreeCountExact, ViewCount
<1>6. StackSound
  BY <1>1, <1>2 DEF Init, StackSound, ViewTop, ViewCache, Slots, INode
<1> QED
  BY <1>4, <1>5, <1>6 DEF IInv

\* The invariant holds in every reachable state.
THEOREM Invariance == Spec => []IInv
<1>1. IInv /\ [Next]_vars => IInv'
  <2> SUFFICES ASSUME IInv, [Next]_vars PROVE IInv'
    OBVIOUS
  <2>1. CASE AllocINode
    BY <2>1, AllocKeepsInv
  <2>2. CASE \E i \in INode : FreeINode(i)
    BY <2>2, FreeKeepsInv
  <2>3. CASE Unmount \/ Mount
    BY <2>3, RemountKeepsInv
  <2>4. CASE UNCHANGED vars
    BY <2>4 DEF vars, superblock, IInv, TypeOK, FreeCountExact, StackSound,
                OnDiskFree, ViewCount, ViewTop, ViewCache
  <2> QED
    BY <2>1, <2>2, <2>3, <2>4 DEF Next
<1> QED
  BY <1>1, InitInv, PTL DEF Spec

\* The variables keep their types.
THEOREM TypeCorrect == Spec => []TypeOK
<1>1. IInv => TypeOK
  BY DEF IInv
<1> QED
  BY <1>1, Invariance, PTL

\* The free inodes are counted exactly, across remounts.
THEOREM FreeINodesCounted == Spec => []FreeCountExact
<1>1. IInv => FreeCountExact
  BY DEF IInv
<1> QED
  BY <1>1, Invariance, PTL

\* The stack of free inodes holds free inodes only, each once.
THEOREM StackHoldsFree == Spec => []StackSound
<1>1. IInv => StackSound
  BY DEF IInv
<1> QED
  BY <1>1, Invariance, PTL

\* allocINode never returns an inode that is in use.
THEOREM NoDoubleINode == Spec => INodeFresh
<1>1. IInv /\ [Next]_vars
      => [AllocINode => \E i \in INode \ returned : returned' = returned \union {i}]_vars
  BY AllocKeepsInv
<1> QED
  BY <1>1, Invariance, PTL DEF Spec, INodeFresh
=============================================================================
