----------------------------- MODULE FileIOProofs -----------------------------
(***************************************************************************)
(* Proofs about FileIO, for any number of files and blocks, any size of    *)
(* blocks and files, and any writes: no block is in two places, a read     *)
(* returns the bytes of the file, and the files are those of ByteFile.     *)
(***************************************************************************)
EXTENDS FileIO, WellFoundedInduction, FiniteSetTheorems, SequenceTheorems, TLAPS

-----------------------------------------------------------------------------
(* Numbers: the smallest of a set, and division.                             *)

\* A set of numbers has a smallest one.
LEMMA WellOrdered ==
  ASSUME NEW S \in SUBSET Nat, S # {}
  PROVE  \E n \in S : \A m \in S : n <= m
<1> DEFINE R == OpToRel(<, Nat)
<1>1. IsWellFoundedOn(R, Nat)
  BY NatLessThanWellFounded
<1>2. \A m, n \in Nat : <<m, n>> \in R <=> m < n
  BY DEF OpToRel
<1> HIDE DEF R
<1>3. PICK n \in S : \A m \in S : ~(<<m, n>> \in R)
  BY <1>1, WFMin
<1>4. \A m \in S : ~(m < n)
  BY <1>2, <1>3
<1> QED BY <1>4

\* Quotient and remainder of a number, of either sign.
LEMMA Divide ==
  ASSUME NEW x \in Int, NEW c \in Nat \ {0}
  PROVE  x \div c \in Int /\ x % c \in 0 .. c - 1 /\ x = c * (x \div c) + (x % c)
OBVIOUS

\* A number below the next multiple of c has a quotient of at most that
\* multiple's.
LEMMA TimesLess ==
  ASSUME NEW c \in Nat \ {0}, NEW p \in Int, NEW q \in Int, c * p < c * q + c
  PROVE  p <= q
OBVIOUS

\* The same, for a quotient as the code computes it.
LEMMA DivideAtMost ==
  ASSUME NEW x \in Int, NEW c \in Nat \ {0}, NEW q \in Int, x < c * q + c
  PROVE  x \div c <= q
<1> DEFINE p == x \div c
<1>1. p \in Int /\ x % c \in 0 .. c - 1 /\ x = c * p + (x % c)
  BY Divide
<1>2. c * p \in Int /\ c * q \in Int
  BY <1>1
<1>3. c * p < c * q + c
  BY <1>1, <1>2
<1> HIDE DEF p
<1> QED BY <1>3, <1>1, TimesLess DEF p

\* The quotient of a natural number is one.
LEMMA DivideNat ==
  ASSUME NEW x \in Nat, NEW c \in Nat \ {0}
  PROVE  x \div c \in Nat
OBVIOUS

\* The quotient by c of a number below a multiple of c.
LEMMA DivideBelow ==
  ASSUME NEW c \in Nat \ {0}, NEW n \in Nat \ {0}, NEW x \in Nat, x < c * n
  PROVE  x \div c \in 0 .. n - 1
<1>1. c * (n - 1) + c = c * n
  OBVIOUS
<1>2. n - 1 \in Int /\ x < c * (n - 1) + c
  BY <1>1
<1> QED BY <1>2, DivideAtMost, DivideNat

-----------------------------------------------------------------------------
INodeType == [filesize : 0 .. MaxBlks * BlkSize, blk : [FileBlk -> Block \union {NoBlk}]]

Buffer == Seq(Byte) \ {<<>>}

\* The sizes of blocks and files are positive.
LEMMA Sizes == BlkSize \in Nat \ {0} /\ MaxBlks \in Nat \ {0} /\ BlkSize * MaxBlks \in Nat
<1>1. BlkSize \in Nat \ {0} /\ MaxBlks \in Nat \ {0}
  BY ContentAssumption
<1> QED BY <1>1

-----------------------------------------------------------------------------
(* Places of bytes.                                                          *)

\* A number is the k-th multiple of c and o more for one k and o only.
LEMMA Placed ==
  ASSUME NEW c \in Nat \ {0}, NEW k \in Nat, NEW o \in 0 .. c - 1, NEW x \in Int,
         x = c * k + o
  PROVE  x \div c = k /\ (x % c) = o
<1> DEFINE q == x \div c
           r == x % c
<1>1. q \in Int /\ r \in 0 .. c - 1 /\ x = c * q + r
  BY Divide
<1> HIDE DEF q, r
<1>2. c * q \in Int /\ c * k \in Int
  BY <1>1
<1>3. c * q < c * k + c /\ c * k < c * q + c
  BY <1>1, <1>2
<1>4. q <= k /\ k <= q
  BY <1>1, <1>3, TimesLess
<1>5. q = k
  BY <1>1, <1>4
<1>6. r = o
  BY <1>1, <1>2, <1>5
<1> QED BY <1>5, <1>6 DEF q, r

\* The place of byte n - 1 of a file.
LEMMA PlaceOf ==
  ASSUME NEW n \in 1 .. MaxBlks * BlkSize
  PROVE  /\ (n - 1) \div BlkSize \in FileBlk /\ (n - 1) % BlkSize \in Offset
         /\ n - 1 = BlkSize * ((n - 1) \div BlkSize) + ((n - 1) % BlkSize)
<1>0. MaxBlks * BlkSize = BlkSize * MaxBlks /\ BlkSize * MaxBlks \in Nat
  BY Sizes
<1>1. n - 1 \in Nat /\ n - 1 < BlkSize * MaxBlks
  BY <1>0
<1>2. (n - 1) \div BlkSize \in 0 .. MaxBlks - 1
  BY <1>1, Sizes, DivideBelow
<1>3. (n - 1) % BlkSize \in 0 .. BlkSize - 1
      /\ n - 1 = BlkSize * ((n - 1) \div BlkSize) + ((n - 1) % BlkSize)
  BY <1>1, Sizes, Divide
<1> QED BY <1>2, <1>3 DEF FileBlk, Offset

\* The blocks that x bytes are in are those that begin before x.
LEMMA NBlksBelow ==
  ASSUME NEW x \in Nat
  PROVE  /\ NBlks(x) \in Nat
         /\ \A j \in Nat : j < NBlks(x) <=> BlkSize * j < x
<1> DEFINE c == BlkSize
           y == x + c - 1
           m == y \div c
           r == y % c
<1>1. c \in Nat \ {0} /\ y \in Nat
  BY Sizes
<1>2. NBlks(x) = m
  BY DEF NBlks
<1> HIDE DEF c
<1>3. m \in Nat /\ r \in 0 .. c - 1 /\ y = c * m + r
  <2> HIDE DEF y
  <2>1. y \in Int
    BY <1>1
  <2>2. y \div c \in Nat
    BY <1>1, DivideNat
  <2>3. (y % c) \in 0 .. c - 1 /\ y = c * (y \div c) + (y % c)
    BY <1>1, <2>1, Divide
  <2> QED BY <2>2, <2>3
<1> HIDE DEF m, r
<1>4. c * m \in Nat /\ c * m <= x + c - 1 /\ x <= c * m
  BY <1>1, <1>3
<1>5. ASSUME NEW j \in Nat
      PROVE  j < m <=> c * j < x
  <2>1. c * j \in Nat
    BY <1>1
  <2>2. ASSUME j < m PROVE c * j < x
    <3>1. c * j + c <= c * m
      BY <1>1, <1>3, <2>2
    <3> QED BY <1>1, <1>4, <2>1, <3>1
  <2>3. ASSUME c * j < x PROVE j < m
    <3>1. c * j < c * m
      BY <1>1, <1>4, <2>1, <2>3
    <3> QED BY <1>1, <1>3, <3>1
  <2> QED BY <2>2, <2>3
<1> QED BY <1>2, <1>3, <1>5 DEF c

-----------------------------------------------------------------------------
(* Chunks.                                                                   *)

\* A part of one block, and the part of the buffer that goes there.
IsChunk(c, off, len) ==
  /\ c.k \in Nat /\ c.from \in 0 .. BlkSize - 1 /\ c.to \in c.from + 1 .. BlkSize
  /\ c.at \in 0 .. len - 1 /\ c.at + (c.to - c.from) <= len
  /\ BlkSize * c.k + c.from = off + c.at
  /\ c.from = 0 \/ c.at = 0

\* The parts of the range that Chunks is made from.
Start(off)     == off % BlkSize
HeadLen(off, len) == IF Start(off) = 0 THEN 0 ELSE Smaller(len, BlkSize - Start(off))
FirstBlk(off)  == off \div BlkSize + (IF Start(off) = 0 THEN 0 ELSE 1)
HeadChunk(off, len) ==
  [k |-> off \div BlkSize, from |-> Start(off), to |-> Start(off) + HeadLen(off, len), at |-> 0]
BlkChunk(off, len, j) ==
  [k |-> FirstBlk(off) + j, from |-> 0,
   to |-> Smaller(BlkSize, len - HeadLen(off, len) - j * BlkSize),
   at |-> HeadLen(off, len) + j * BlkSize]

\* Chunks has the head chunk, if the range begins inside a block, and one chunk
\* for each block that follows.
LEMMA ChunksIs ==
  ASSUME NEW off, NEW len, NEW c
  PROVE  c \in Chunks(off, len) <=>
           \/ Start(off) # 0 /\ c = HeadChunk(off, len)
           \/ \E j \in 0 .. NBlks(len - HeadLen(off, len)) - 1 : c = BlkChunk(off, len, j)
<1>1. Chunks(off, len) =
        {[k |-> off \div BlkSize, from |-> Start(off),
          to |-> Start(off) + HeadLen(off, len), at |-> 0] : x \in {Start(off)} \ {0}}
        \union {BlkChunk(off, len, j) : j \in 0 .. NBlks(len - HeadLen(off, len)) - 1}
  BY DEF Chunks, Start, HeadLen, FirstBlk, BlkChunk
<1> QED BY <1>1 DEF HeadChunk

\* The range in numbers.
LEMMA RangeFields ==
  ASSUME NEW off \in Nat, NEW len \in Nat \ {0}
  PROVE  /\ Start(off) \in 0 .. BlkSize - 1 /\ off \div BlkSize \in Nat
         /\ off = BlkSize * (off \div BlkSize) + Start(off)
         /\ HeadLen(off, len) \in 0 .. len /\ FirstBlk(off) \in Nat
         /\ Start(off) # 0 => /\ HeadLen(off, len) >= 1
                              /\ Start(off) + HeadLen(off, len) <= BlkSize
         /\ HeadLen(off, len) < len => BlkSize * FirstBlk(off) = off + HeadLen(off, len)
<1> DEFINE c == BlkSize
           q == off \div c
           s == off % c
           h == HeadLen(off, len)
<1>1. c \in Nat \ {0}
  BY Sizes
<1>2. q \in Nat /\ s \in 0 .. c - 1 /\ off = c * q + s
  <2> HIDE DEF c
  <2> QED BY <1>1, Divide, DivideNat
<1>3. Start(off) = s /\ FirstBlk(off) = q + (IF s = 0 THEN 0 ELSE 1)
  BY DEF Start, FirstBlk
<1>4. h = IF s = 0 THEN 0 ELSE IF len < c - s THEN len ELSE c - s
  BY DEF HeadLen, Start, Smaller
<1> HIDE DEF c, q, s, h
<1>5. c * q \in Nat /\ c * (q + 1) = c * q + c /\ c * (q + 0) = c * q
  BY <1>1, <1>2
<1>6. CASE s = 0
  BY <1>1, <1>2, <1>3, <1>4, <1>5, <1>6 DEF c, q, s, h
<1>7. CASE s # 0
  <2>1. h \in 1 .. len /\ s + h <= c /\ (h < len => h = c - s)
    BY <1>1, <1>2, <1>4, <1>7
  <2>2. FirstBlk(off) = q + 1
    BY <1>3, <1>7
  <2>3. h < len => c * (q + 1) = off + h
    BY <1>1, <1>2, <1>5, <2>1
  <2> QED BY <1>1, <1>2, <1>3, <2>1, <2>2, <2>3 DEF c, q, s, h
<1> QED BY <1>6, <1>7

\* Each chunk is one.
LEMMA ChunksAre ==
  ASSUME NEW off \in Nat, NEW len \in Nat \ {0}, NEW c \in Chunks(off, len)
  PROVE  IsChunk(c, off, len)
<1> DEFINE s == Start(off)
           h == HeadLen(off, len)
           q == off \div BlkSize
           f == FirstBlk(off)
<1>1. /\ s \in 0 .. BlkSize - 1 /\ q \in Nat /\ off = BlkSize * q + s
      /\ h \in 0 .. len /\ f \in Nat
      /\ s # 0 => h >= 1 /\ s + h <= BlkSize
      /\ h < len => BlkSize * f = off + h
  BY RangeFields
<1>2. BlkSize \in Nat \ {0}
  BY Sizes
<1>3. CASE s # 0 /\ c = HeadChunk(off, len)
  <2>1. c.k = q /\ c.from = s /\ c.to = s + h /\ c.at = 0
    BY <1>3 DEF HeadChunk
  <2> HIDE DEF s, h, q, f
  <2> QED BY <1>1, <1>2, <1>3, <2>1 DEF IsChunk
<1>4. ASSUME NEW j \in 0 .. NBlks(len - h) - 1, c = BlkChunk(off, len, j)
      PROVE  IsChunk(c, off, len)
  <2> DEFINE y == BlkSize * j
  <2>1. len - h \in Nat
    BY <1>1
  <2>2. j \in Nat /\ y \in Nat /\ y < len - h
    <3> HIDE DEF h
    <3>1. j \in Nat /\ j < NBlks(len - h)
      BY <2>1, NBlksBelow
    <3> QED BY <1>2, <2>1, <3>1, NBlksBelow
  <2>3. j * BlkSize = y
    BY <1>2, <2>2
  <2>4. c.k = f + j /\ c.from = 0 /\ c.to = Smaller(BlkSize, len - h - y) /\ c.at = h + y
    BY <1>4, <2>3 DEF BlkChunk
  <2>5. BlkSize * (f + j) = BlkSize * f + y
    BY <1>1, <1>2, <2>2
  <2>6. BlkSize * f = off + h
    BY <1>1, <2>2
  <2>7. c.to \in 1 .. BlkSize /\ c.to <= len - h - y
    <3> HIDE DEF h, y
    <3> QED BY <1>1, <1>2, <2>1, <2>2, <2>4 DEF Smaller
  <2> HIDE DEF s, h, q, f, y
  <2> QED BY <1>1, <1>2, <2>2, <2>4, <2>5, <2>6, <2>7 DEF IsChunk
<1> QED BY <1>3, <1>4, ChunksIs

\* Each byte of the buffer is in a chunk.
LEMMA ChunksCover ==
  ASSUME NEW off \in Nat, NEW len \in Nat \ {0}, NEW p \in 0 .. len - 1
  PROVE  \E c \in Chunks(off, len) : c.at <= p /\ p < c.at + (c.to - c.from)
<1> DEFINE s == Start(off)
           h == HeadLen(off, len)
<1>1. s \in 0 .. BlkSize - 1 /\ h \in 0 .. len
  BY RangeFields
<1>2. BlkSize \in Nat \ {0}
  BY Sizes
<1>3. CASE p < h
  <2> DEFINE c == HeadChunk(off, len)
  <2>1. s # 0
    BY <1>3 DEF HeadLen
  <2>2. c \in Chunks(off, len)
    BY <2>1, ChunksIs
  <2>3. c.at = 0 /\ c.to = s + h /\ c.from = s
    BY DEF HeadChunk
  <2> HIDE DEF s, h, c
  <2> QED BY <1>1, <1>2, <1>3, <2>2, <2>3
<1>4. CASE ~(p < h)
  <2> DEFINE x == p - h
             j == x \div BlkSize
             c == BlkChunk(off, len, j)
             y == BlkSize * j
  <2>1. x \in Nat /\ x < len - h /\ len - h \in Nat
    BY <1>1, <1>4
  <2>2. j \in Nat /\ y \in Nat /\ y <= x /\ x < y + BlkSize
    <3> DEFINE r == x % BlkSize
    <3> HIDE DEF x
    <3>1. j \in Nat /\ r \in 0 .. BlkSize - 1 /\ x = y + r
      <4>1. x \in Int /\ x \in Nat
        BY <2>1
      <4>2. x \div BlkSize \in Nat
        BY <1>2, <4>1, DivideNat
      <4>3. (x % BlkSize) \in 0 .. BlkSize - 1
            /\ x = BlkSize * (x \div BlkSize) + (x % BlkSize)
        BY <1>2, <4>1, Divide
      <4> QED BY <4>2, <4>3
    <3> HIDE DEF j, r
    <3>2. y \in Nat
      BY <1>2, <3>1
    <3> HIDE DEF y
    <3> QED BY <1>2, <3>1, <3>2
  <2>3. j \in 0 .. NBlks(len - h) - 1
    <3> HIDE DEF h, x, j
    <3>1. NBlks(len - h) \in Nat /\ j < NBlks(len - h)
      BY <2>1, <2>2, NBlksBelow
    <3> QED BY <2>2, <3>1
  <2>4. c \in Chunks(off, len)
    BY <2>3, ChunksIs
  <2>5. j * BlkSize = y
    <3> HIDE DEF j
    <3> QED BY <1>2, <2>2
  <2>6. c.at = h + y /\ c.from = 0 /\ c.to = Smaller(BlkSize, len - h - y)
    BY <2>5 DEF BlkChunk
  <2> HIDE DEF s, h, j, c, y
  <2> QED BY <1>1, <1>2, <1>4, <2>1, <2>2, <2>4, <2>6 DEF Smaller
<1> QED BY <1>3, <1>4

-----------------------------------------------------------------------------
(* What a file contains.                                                     *)

DataType == [Block -> [Offset -> Byte]]

\* Byte o of file block k of inode i with the bytes d in the blocks.
At(i, d, k, o) == IF i.blk[k] = NoBlk THEN Hole ELSE d[i.blk[k]][o]

\* Bytes, for any inode and any bytes in the blocks.
Image(i, d) == [n \in 1 .. i.filesize |-> At(i, d, (n - 1) \div BlkSize, (n - 1) % BlkSize)]

\* The bytes of a file are those at the places they have.
LEMMA ImageFields ==
  ASSUME NEW i \in INodeType, NEW d \in DataType
  PROVE  /\ i.filesize \in Nat /\ i.filesize <= MaxBlks * BlkSize
         /\ i.blk \in [FileBlk -> Block \union {NoBlk}]
         /\ Image(i, d) \in Seq(Byte \union {Hole})
         /\ Len(Image(i, d)) = i.filesize
         /\ DOMAIN Image(i, d) = 1 .. i.filesize
         /\ \A n \in 1 .. i.filesize :
              Image(i, d)[n] = At(i, d, (n - 1) \div BlkSize, (n - 1) % BlkSize)
         /\ \A k \in FileBlk, o \in Offset :
              /\ At(i, d, k, o) \in Byte \union {Hole}
              /\ At(i, d, k, o) = Hole <=> i.blk[k] = NoBlk
<1> DEFINE N == i.filesize
           M == MaxBlks * BlkSize
<1>1. M \in Nat /\ N \in 0 .. M /\ i.blk \in [FileBlk -> Block \union {NoBlk}]
  <2>1. M \in Nat
    BY Sizes
  <2> QED BY <2>1 DEF INodeType
<1>2. ASSUME NEW k \in FileBlk, NEW o \in Offset
      PROVE  /\ At(i, d, k, o) \in Byte \union {Hole}
             /\ At(i, d, k, o) = Hole <=> i.blk[k] = NoBlk
  <2>1. i.blk[k] # NoBlk => d[i.blk[k]][o] \in Byte
    BY <1>1 DEF DataType
  <2> QED BY <2>1, ContentAssumption DEF At
<1>3. ASSUME NEW n \in 1 .. N
      PROVE  At(i, d, (n - 1) \div BlkSize, (n - 1) % BlkSize) \in Byte \union {Hole}
  <2>1. n \in 1 .. MaxBlks * BlkSize
    BY <1>1
  <2>2. (n - 1) \div BlkSize \in FileBlk /\ (n - 1) % BlkSize \in Offset
    BY <2>1, PlaceOf
  <2> QED BY <1>2, <2>2
<1>4. Image(i, d) \in [1 .. N -> Byte \union {Hole}]
  BY <1>3 DEF Image
<1>5. N \in Nat /\ N <= M
  BY <1>1
<1> HIDE DEF N
<1>6. Image(i, d) \in Seq(Byte \union {Hole}) /\ Len(Image(i, d)) = N
      /\ DOMAIN Image(i, d) = 1 .. N
  BY <1>4, <1>5
<1> QED BY <1>1, <1>2, <1>5, <1>6 DEF Image, N

\* Files with the same map, and blocks with the same bytes, contain the same.
LEMMA SameImage ==
  ASSUME NEW i \in INodeType, NEW d \in DataType, NEW e \in DataType,
         \A k \in FileBlk : i.blk[k] # NoBlk => d[i.blk[k]] = e[i.blk[k]]
  PROVE  Image(i, d) = Image(i, e)
<1>1. \A n \in 1 .. i.filesize : Image(i, d)[n] = Image(i, e)[n]
  <2> TAKE n \in 1 .. i.filesize
  <2>1. n \in 1 .. MaxBlks * BlkSize
    BY ImageFields, Sizes
  <2>2. (n - 1) \div BlkSize \in FileBlk
    BY <2>1, PlaceOf
  <2> QED BY <2>2, ImageFields DEF At
<1> QED BY <1>1, ImageFields DEF Image

\* A byte that is read.
Plain(x) == IF x = Hole THEN 0 ELSE x

\* What readINodeData returns: the bytes of the file, up to its end.
LEMMA ReadIs ==
  ASSUME NEW i \in INodeType, data \in DataType,
         NEW off \in Nat, NEW len \in Nat, off < i.filesize
  PROVE  ReadINodeData(i, off, len) =
           [p \in 1 .. Cut(i, off, len) |-> Plain(Image(i, data)[off + p])]
<1> DEFINE n == Cut(i, off, len)
           chunks == Chunks(off, n)
           Of(p) == CHOOSE c \in chunks : p \in c.at + 1 .. c.at + c.to - c.from
           Got(p) == ByteAt(i, Of(p).k, Of(p).from + p - Of(p).at - 1)
<1>1. ReadINodeData(i, off, len) = [p \in 1 .. n |-> Plain(Got(p))]
  <2>1. ~(off >= i.filesize)
    BY ImageFields
  <2> QED BY <2>1 DEF ReadINodeData, Plain
<1>2. n \in Nat /\ off + n <= i.filesize
  BY ImageFields DEF Cut, Smaller
<1>3. ASSUME NEW p \in 1 .. n
      PROVE  Got(p) = Image(i, data)[off + p]
  <2> DEFINE c == Of(p)
             x == off + p - 1
             o == c.from + p - c.at - 1
  <2>1. n \in Nat \ {0} /\ p - 1 \in 0 .. n - 1
    BY <1>2
  <2>2. \E z \in chunks : z.at <= p - 1 /\ p - 1 < z.at + (z.to - z.from)
    <3> HIDE DEF n
    <3> QED BY <2>1, ChunksCover
  <2>3. \A z \in chunks : IsChunk(z, off, n)
    <3> HIDE DEF n
    <3> QED BY <2>1, ChunksAre
  <2>4. \E z \in chunks : p \in z.at + 1 .. z.at + z.to - z.from
    <3> HIDE DEF chunks
    <3>1. PICK z \in chunks : z.at <= p - 1 /\ p - 1 < z.at + (z.to - z.from)
      BY <2>2
    <3>2. IsChunk(z, off, n)
      BY <2>3, <3>1
    <3>3. z.at \in Int /\ z.to \in Int /\ z.from \in Int
      BY <3>2 DEF IsChunk
    <3> QED BY <3>1, <3>3
  <2>5. c \in chunks /\ p \in c.at + 1 .. c.at + c.to - c.from
    BY <2>4
  <2>6. IsChunk(c, off, n)
    BY <2>3, <2>5
  <2> HIDE DEF c, chunks, n
  <2>7. o \in 0 .. BlkSize - 1 /\ x = BlkSize * c.k + o /\ c.k \in Nat
    BY <2>5, <2>6, Sizes DEF IsChunk
  <2>8. x \in Int
    BY <2>1
  <2>9. x \div BlkSize = c.k /\ (x % BlkSize) = o
    <3> HIDE DEF x, o
    <3> QED BY <2>7, <2>8, Sizes, Placed
  <2>10. off + p \in 1 .. i.filesize /\ off + p - 1 = x
    BY <1>2, <2>1, ImageFields
  <2>12. Image(i, data)[off + p] = At(i, data, c.k, o)
    <3> DEFINE m == off + p
    <3>1. m \in 1 .. i.filesize /\ m - 1 = x
      BY <2>10
    <3> HIDE DEF m, x, o
    <3>2. Image(i, data)[m] = At(i, data, (m - 1) \div BlkSize, (m - 1) % BlkSize)
      BY <3>1, ImageFields
    <3>3. Image(i, data)[m] = At(i, data, c.k, o)
      BY <2>9, <3>1, <3>2
    <3> QED BY <3>3 DEF m
  <2> QED BY <2>12 DEF c, At, ByteAt
<1> HIDE DEF n, Got
<1>4. [p \in 1 .. n |-> Plain(Got(p))] = [p \in 1 .. n |-> Plain(Image(i, data)[off + p])]
  BY <1>3
<1> QED BY <1>1, <1>4 DEF n

-----------------------------------------------------------------------------
(* The rank of a number in a set.                                            *)

Below(S, k) == {j \in S : j <= k}

\* A set of file blocks is finite, and so are its beginnings.
LEMMA BelowFinite ==
  ASSUME NEW S \in SUBSET FileBlk, NEW k \in FileBlk
  PROVE  /\ IsFiniteSet(S) /\ Cardinality(S) \in Nat
         /\ IsFiniteSet(Below(S, k)) /\ Rank(S, k) = Cardinality(Below(S, k))
         /\ Rank(S, k) \in 0 .. Cardinality(S)
<1>1. IsFiniteSet(FileBlk)
  <2>1. 0 \in Int /\ MaxBlks - 1 \in Int
    BY Sizes
  <2> QED BY <2>1, FS_Interval DEF FileBlk
<1>2. IsFiniteSet(S)
  BY <1>1, FS_Subset
<1>3. Below(S, k) \in SUBSET S
  BY DEF Below
<1>4. IsFiniteSet(Below(S, k)) /\ Cardinality(Below(S, k)) <= Cardinality(S)
  BY <1>2, <1>3, FS_Subset
<1>5. Cardinality(S) \in Nat /\ Cardinality(Below(S, k)) \in Nat
  BY <1>2, <1>4, FS_CardinalityType
<1>6. Rank(S, k) = Cardinality(Below(S, k))
  BY DEF Rank, Below
<1> QED BY <1>2, <1>4, <1>5, <1>6

\* A larger number has a larger rank.
LEMMA RankLess ==
  ASSUME NEW S \in SUBSET FileBlk, NEW k \in S, NEW l \in S, k < l
  PROVE  Rank(S, k) < Rank(S, l)
<1>0. k \in FileBlk /\ l \in FileBlk /\ FileBlk \subseteq Nat
  BY DEF FileBlk
<1>1. Below(S, k) \in SUBSET Below(S, l) /\ l \in Below(S, l) /\ l \notin Below(S, k)
  <2>1. \A j \in S : j <= k => j <= l
    BY <1>0
  <2>2. l <= l /\ ~(l <= k)
    BY <1>0
  <2> QED BY <2>1, <2>2 DEF Below
<1>2. /\ Cardinality(Below(S, k)) <= Cardinality(Below(S, l))
      /\ Cardinality(Below(S, l)) = Cardinality(Below(S, k)) => Below(S, l) = Below(S, k)
  BY <1>0, <1>1, BelowFinite, FS_Subset
<1>3. /\ Rank(S, k) = Cardinality(Below(S, k)) /\ Rank(S, k) \in Int
      /\ Rank(S, l) = Cardinality(Below(S, l)) /\ Rank(S, l) \in Int
  BY <1>0, BelowFinite
<1>4. Rank(S, k) <= Rank(S, l) /\ Rank(S, k) # Rank(S, l)
  BY <1>1, <1>2, <1>3
<1> QED BY <1>3, <1>4

\* The numbers of a set have different ranks, from 1 on.
LEMMA RankFields ==
  ASSUME NEW S \in SUBSET FileBlk
  PROVE  /\ Cardinality(S) \in Nat
         /\ \A k \in S : Rank(S, k) \in 1 .. Cardinality(S)
         /\ \A k, l \in S : Rank(S, k) = Rank(S, l) => k = l
<1>0. \A k \in S : k \in FileBlk /\ k \in Nat
  BY DEF FileBlk
<1>1. Cardinality(S) \in Nat
  <2>1. 0 \in FileBlk
    BY Sizes DEF FileBlk
  <2> QED BY <2>1, BelowFinite
<1>2. ASSUME NEW k \in S PROVE Rank(S, k) \in 1 .. Cardinality(S)
  <2>1. Rank(S, k) \in 0 .. Cardinality(S) /\ Rank(S, k) = Cardinality(Below(S, k))
        /\ IsFiniteSet(Below(S, k))
    BY <1>0, BelowFinite
  <2>2. k \in Below(S, k)
    BY <1>0 DEF Below
  <2>3. Cardinality(Below(S, k)) # 0
    BY <2>1, <2>2, FS_EmptySet
  <2> QED BY <1>1, <2>1, <2>3
<1>3. ASSUME NEW k \in S, NEW l \in S, Rank(S, k) = Rank(S, l) PROVE k = l
  <2>1. Rank(S, k) \in Int /\ Rank(S, l) \in Int
    BY <1>1, <1>2
  <2>2. ~(k < l) /\ ~(l < k)
    BY <1>3, <2>1, RankLess
  <2> QED BY <1>0, <2>2
<1> QED BY <1>1, <1>2, <1>3

\* Each rank up to the size of the set occurs.
LEMMA RankOnto ==
  ASSUME NEW S \in SUBSET FileBlk, NEW n \in 1 .. Cardinality(S)
  PROVE  \E k \in S : Rank(S, k) = n
<1> DEFINE R == 1 .. Cardinality(S)
           f == [k \in S |-> Rank(S, k)]
<1>1. IsFiniteSet(R) /\ Cardinality(R) = Cardinality(S)
  <2>1. 1 \in Int /\ Cardinality(S) \in Nat
    BY RankFields
  <2>2. IsFiniteSet(1 .. Cardinality(S)) /\
        Cardinality(1 .. Cardinality(S)) =
          IF 1 > Cardinality(S) THEN 0 ELSE Cardinality(S) - 1 + 1
    BY SMTT(30), <2>1, FS_Interval
  <2> QED BY <2>1, <2>2
<1>2. f \in [S -> R] /\ \A k, l \in S : f[k] = f[l] => k = l
  BY RankFields
<1>3. f \in Injection(S, R)
  BY <1>2 DEF Injection, IsInjective
<1> HIDE DEF R, f
<1>4. f \in Surjection(S, R)
  BY <1>1, <1>3, FS_Injection
<1>5. \E k \in S : f[k] = n
  BY <1>4 DEF Surjection, R
<1> QED BY <1>5 DEF f

\* The rank in a smaller set is not larger.
LEMMA RankSub ==
  ASSUME NEW S \in SUBSET FileBlk, NEW T \in SUBSET S, NEW k \in FileBlk
  PROVE  Rank(T, k) <= Rank(S, k)
<1>1. T \in SUBSET FileBlk /\ Below(T, k) \in SUBSET Below(S, k)
  BY DEF Below
<1>2. /\ IsFiniteSet(Below(S, k)) /\ Rank(S, k) = Cardinality(Below(S, k))
      /\ Rank(T, k) = Cardinality(Below(T, k))
  BY <1>1, BelowFinite
<1> QED BY <1>1, <1>2, FS_Subset

-----------------------------------------------------------------------------
(* The invariant.                                                            *)

\* No block is in two places of the inodes N and the free list.
Apart(N, fr) ==
  /\ IsInjective(fr)
  /\ \A f, g \in File, k, l \in FileBlk :
       N[f].blk[k] # NoBlk /\ N[f].blk[k] = N[g].blk[l] => f = g /\ k = l
  /\ \A f \in File, k \in FileBlk, n \in DOMAIN fr : N[f].blk[k] # fr[n]

\* Inode i has the size of inode j, and of its blocks all or fewer.
Under(i, j) ==
  /\ i.filesize = j.filesize
  /\ \A k \in FileBlk : i.blk[k] = NoBlk \/ i.blk[k] = j.blk[k]

IInv ==
  /\ free \in Seq(Block) /\ taken \in Block \union {NoBlk}
  /\ inode \in [File -> INodeType] /\ dinode \in [File -> INodeType]
  /\ data \in DataType
  /\ Apart(inode, free)
  /\ \A f \in File : Under(dinode[f], inode[f])

\* What Bytes is.
LEMMA BytesIs == \A i : Bytes(i) = Image(i, data)
BY DEF Bytes, Image, ByteAt, At

\* The invariant says that the types are right.
LEMMA InvType == IInv => TypeOK
<1> SUFFICES ASSUME IInv PROVE TypeOK
  OBVIOUS
<1>1. \A i \in INodes : i \in INodeType
  BY DEF IInv, INodes
<1> QED BY <1>1 DEF IInv, TypeOK, INodeType, DataType

\* It makes a read return the bytes of the file.
LEMMA InvReads == IInv => ReadsContent
<1> SUFFICES ASSUME IInv, NEW f \in File,
                    NEW off \in 0 .. MaxBlks * BlkSize, NEW len \in 0 .. MaxBlks * BlkSize
             PROVE  LET all == Bytes(inode[f])
                    IN  ReadINodeData(inode[f], off, len) =
                          [p \in 1 .. Len(SubSeq(all, off + 1, Smaller(off + len, Len(all)))) |->
                             IF all[off + p] = Hole THEN 0 ELSE all[off + p]]
  BY DEF ReadsContent
<1> DEFINE i == inode[f]
           all == Image(i, data)
           e == Smaller(off + len, Len(all))
           m == Len(SubSeq(all, off + 1, e))
<1>1. i \in INodeType /\ data \in DataType /\ off \in Nat /\ len \in Nat
  BY Sizes DEF IInv
<1>2. all = Bytes(inode[f])
  BY BytesIs
<1> HIDE DEF i
<1>3. i.filesize \in Nat /\ all \in Seq(Byte \union {Hole}) /\ Len(all) = i.filesize
  BY <1>1, ImageFields
<1> HIDE DEF all
<1>4. e \in Nat /\ e <= i.filesize /\ e = IF off + len < i.filesize THEN off + len ELSE i.filesize
  BY <1>1, <1>3 DEF Smaller
<1>5. m = IF off + 1 <= e THEN e - off ELSE 0
  <2>1. off + 1 \in Int /\ e \in Int
    BY <1>1, <1>4
  <2>2. \A n \in off + 1 .. e : all[n] \in Byte \union {Hole}
    BY <1>1, <1>3, <1>4
  <2> HIDE DEF e
  <2>3. m = IF off + 1 <= e THEN e - (off + 1) + 1 ELSE 0
    BY <2>1, <2>2, SubSeqProperties
  <2> HIDE DEF m
  <2> QED BY <1>1, <1>4, <2>3
<1> HIDE DEF e, m
<1>6. CASE off < i.filesize
  <2>1. m = Cut(i, off, len)
    BY <1>1, <1>3, <1>4, <1>5, <1>6 DEF Cut, Smaller
  <2>2. ReadINodeData(i, off, len) = [p \in 1 .. m |-> Plain(all[off + p])]
    BY <1>1, <1>6, <2>1, ReadIs DEF all
  <2> QED BY <1>2, <2>2 DEF Plain, i, m, e
<1>7. CASE ~(off < i.filesize)
  <2>1. m = 0 /\ off >= i.filesize
    BY <1>1, <1>3, <1>4, <1>5, <1>7
  <2>2. ReadINodeData(i, off, len) = <<>>
    BY <2>1 DEF ReadINodeData
  <2>3. [p \in 1 .. m |-> Plain(all[off + p])] = <<>>
    BY <2>1
  <2> QED BY <1>2, <2>2, <2>3 DEF Plain, i, m, e
<1> QED BY <1>6, <1>7

-----------------------------------------------------------------------------
(* Blocks taken from the free list and released to it.                       *)

With(N, f, i) == [N EXCEPT ![f] = i]

\* The inodes after one of them has changed.
LEMMA WithFields ==
  ASSUME NEW N \in [File -> INodeType], NEW f \in File, NEW i \in INodeType
  PROVE  /\ With(N, f, i) \in [File -> INodeType]
         /\ With(N, f, i)[f] = i
         /\ \A g \in File \ {f} : With(N, f, i)[g] = N[g]
BY DEF With

\* The parts of an inode.
LEMMA INodeFields ==
  /\ \A i \in INodeType : /\ i.filesize \in 0 .. MaxBlks * BlkSize
                          /\ i.blk \in [FileBlk -> Block \union {NoBlk}]
  /\ \A s \in 0 .. MaxBlks * BlkSize, b \in [FileBlk -> Block \union {NoBlk}] :
       /\ [filesize |-> s, blk |-> b] \in INodeType
       /\ [filesize |-> s, blk |-> b].filesize = s
       /\ [filesize |-> s, blk |-> b].blk = b
BY DEF INodeType

\* The free list without its first m blocks.
Rest(fr, m) == SubSeq(fr, m + 1, Len(fr))

LEMMA RestFields ==
  ASSUME NEW fr \in Seq(Block), NEW m \in Nat
  PROVE  /\ Rest(fr, m) \in Seq(Block)
         /\ \A n \in DOMAIN Rest(fr, m) : /\ n + m \in DOMAIN fr /\ n + m > m
                                          /\ Rest(fr, m)[n] = fr[n + m]
<1>1. Len(fr) \in Nat /\ DOMAIN fr = 1 .. Len(fr) /\ \A n \in 1 .. Len(fr) : fr[n] \in Block
  BY LenProperties
<1>2. \A n \in m + 1 .. Len(fr) : fr[n] \in Block
  BY <1>1
<1>3. m + 1 \in Int /\ Len(fr) \in Int
  BY <1>1
<1>4. /\ Rest(fr, m) \in Seq(Block)
      /\ Len(Rest(fr, m)) = IF m + 1 <= Len(fr) THEN Len(fr) - (m + 1) + 1 ELSE 0
      /\ \A n \in 1 .. Len(fr) - (m + 1) + 1 : Rest(fr, m)[n] = fr[(m + 1) + n - 1]
  BY <1>2, <1>3, SubSeqProperties DEF Rest
<1>5. DOMAIN Rest(fr, m) = 1 .. Len(Rest(fr, m))
  BY <1>4, LenProperties
<1>6. ASSUME NEW n \in DOMAIN Rest(fr, m)
      PROVE  /\ n + m \in DOMAIN fr /\ n + m > m /\ Rest(fr, m)[n] = fr[n + m]
  <2>1. n \in Nat /\ n >= 1 /\ n + m <= Len(fr) /\ n \in 1 .. Len(fr) - (m + 1) + 1
    BY <1>1, <1>4, <1>5
  <2>2. (m + 1) + n - 1 = n + m
    BY <2>1
  <2>3. Rest(fr, m)[n] = fr[(m + 1) + n - 1]
    BY <1>4, <2>1
  <2>4. Rest(fr, m)[n] = fr[n + m]
    BY <2>2, <2>3
  <2>5. n + m \in DOMAIN fr /\ n + m > m
    BY <1>1, <2>1
  <2> QED BY <2>4, <2>5
<1> QED BY <1>4, <1>6

\* Map blk has what map old has, and for the file blocks in got free blocks, of
\* the first m, each another one.
Taken(blk, old, fr, got, m) ==
  /\ blk \in [FileBlk -> Block \union {NoBlk}]
  /\ \A k \in FileBlk \ got : blk[k] = old[k]
  /\ \A k \in got : /\ old[k] = NoBlk
                    /\ \E n \in DOMAIN fr : n <= m /\ blk[k] = fr[n]
  /\ \A k, l \in got : blk[k] = blk[l] => k = l

\* Free blocks that were taken for one file are in no other place.
LEMMA TakenApart ==
  ASSUME NEW N \in [File -> INodeType], NEW fr \in Seq(Block), Apart(N, fr),
         NEW f \in File, NEW i \in INodeType, NEW got \in SUBSET FileBlk, NEW m \in Nat,
         Taken(i.blk, N[f].blk, fr, got, m)
  PROVE  Apart(With(N, f, i), Rest(fr, m))
<1> DEFINE M == With(N, f, i)
           r == Rest(fr, m)
<1>1. M[f] = i /\ \A g \in File \ {f} : M[g] = N[g]
  BY WithFields
<1>2. \A n \in DOMAIN r : n \in Int /\ n + m \in DOMAIN fr /\ n + m > m /\ r[n] = fr[n + m]
  <2>1. r \in Seq(Block)
    BY RestFields
  <2>2. \A n \in DOMAIN r : n \in Int
    BY <2>1
  <2> QED BY <2>2, RestFields
<1>3. \A n \in DOMAIN fr : n \in Int /\ fr[n] \in Block /\ fr[n] # NoBlk
  BY ContentAssumption
<1>4. \A k, l \in DOMAIN fr : fr[k] = fr[l] => k = l
  BY DEF Apart, IsInjective
<1>5. /\ \A g, h \in File, k, l \in FileBlk :
           N[g].blk[k] # NoBlk /\ N[g].blk[k] = N[h].blk[l] => g = h /\ k = l
      /\ \A g \in File, k \in FileBlk, n \in DOMAIN fr : N[g].blk[k] # fr[n]
  BY DEF Apart
<1> HIDE DEF M, r
\* A block of M is one of N, or was taken.
<1>6. ASSUME NEW g \in File, NEW k \in FileBlk
      PROVE  \/ ~(g = f /\ k \in got) /\ M[g].blk[k] = N[g].blk[k]
             \/ g = f /\ k \in got /\ \E n \in DOMAIN fr : n <= m /\ M[g].blk[k] = fr[n]
  BY <1>1 DEF Taken
<1>7. IsInjective(r)
  <2> SUFFICES ASSUME NEW k \in DOMAIN r, NEW l \in DOMAIN r, r[k] = r[l] PROVE k = l
    BY DEF IsInjective
  <2>1. k + m = l + m
    BY <1>2, <1>4
  <2> QED BY <1>2, <2>1
<1>8. ASSUME NEW g \in File, NEW h \in File, NEW k \in FileBlk, NEW l \in FileBlk,
             M[g].blk[k] # NoBlk, M[g].blk[k] = M[h].blk[l]
      PROVE  g = h /\ k = l
  <2> DEFINE old(e, j) == N[e].blk[j]
             new(e, j) == M[e].blk[j]
  <2>1. \A e, x \in File, j, y \in FileBlk :
          old(e, j) # NoBlk /\ old(e, j) = old(x, y) => e = x /\ j = y
    BY <1>5
  <2>2. \A e \in File, j \in FileBlk, n \in DOMAIN fr : old(e, j) # fr[n]
    BY <1>5
  <2>3. new(g, k) # NoBlk /\ new(g, k) = new(h, l)
    BY <1>8
  <2>4. /\ \/ new(g, k) = old(g, k)
           \/ g = f /\ k \in got /\ \E n \in DOMAIN fr : new(g, k) = fr[n]
        /\ \/ new(h, l) = old(h, l)
           \/ h = f /\ l \in got /\ \E n \in DOMAIN fr : new(h, l) = fr[n]
    BY <1>6
  <2>5. g = f /\ k \in got /\ h = f /\ l \in got => g = h /\ k = l
    BY <1>1, <1>8 DEF Taken
  <2> HIDE DEF old, new
  <2> QED BY <2>1, <2>2, <2>3, <2>4, <2>5
<1>9. ASSUME NEW g \in File, NEW k \in FileBlk, NEW n \in DOMAIN r
      PROVE  M[g].blk[k] # r[n]
  <2>1. n + m \in DOMAIN fr /\ r[n] = fr[n + m]
    BY <1>2
  <2>2. \A x \in DOMAIN fr : x <= m => x # n + m
    BY <1>2, <1>3
  <2> QED BY <1>4, <1>5, <1>6, <2>1, <2>2
<1> QED BY <1>7, <1>8, <1>9 DEF Apart, M, r

\* The sequence gone has the blocks of the file blocks in ks, each once.
IsReleased(gone, old, ks) ==
  /\ gone \in Seq(Block) /\ IsInjective(gone)
  /\ \A n \in DOMAIN gone : \E k \in ks : gone[n] = old[k]

\* What bfree of the file blocks in ks brings to the free list.
LEMMA ReleasedFields ==
  ASSUME NEW N \in [File -> INodeType], NEW fr, Apart(N, fr), NEW f \in File,
         NEW ks \in SUBSET FileBlk
  PROVE  IsReleased(Released(N[f], ks), N[f].blk, ks)
<1> DEFINE i == N[f]
           gone == {k \in ks : i.blk[k] # NoBlk}
           Of(n) == CHOOSE k \in gone : Rank(gone, k) = n
           c == Cardinality(gone)
           r == Released(i, ks)
<1>1. gone \in SUBSET FileBlk /\ gone \subseteq ks
  OBVIOUS
<1>2. i.blk \in [FileBlk -> Block \union {NoBlk}]
  BY INodeFields
<1>3. r = [n \in 1 .. c |-> i.blk[Of(n)]]
  BY DEF Released
<1>4. \A k \in gone : k \in ks /\ k \in FileBlk /\ i.blk[k] \in Block /\ i.blk[k] # NoBlk
  BY <1>1, <1>2
<1>5. \A k, l \in gone : i.blk[k] = i.blk[l] => k = l
  BY <1>4 DEF Apart
<1> HIDE DEF i, gone
<1>6. \A n \in 1 .. c : Of(n) \in gone /\ Rank(gone, Of(n)) = n
  BY <1>1, RankOnto
<1>7. c \in Nat
  BY <1>1, RankFields
<1> HIDE DEF Of, c
<1>8. r \in [1 .. c -> Block]
  BY <1>3, <1>4, <1>6
<1> HIDE DEF r
<1>9. r \in Seq(Block) /\ DOMAIN r = 1 .. c
  BY <1>7, <1>8
<1>10. IsInjective(r)
  <2> SUFFICES ASSUME NEW m \in 1 .. c, NEW n \in 1 .. c, r[m] = r[n] PROVE m = n
    BY <1>9 DEF IsInjective
  <2>1. Of(m) = Of(n)
    BY <1>3, <1>5, <1>6
  <2> QED BY <1>6, <2>1
<1>11. \A n \in DOMAIN r : \E k \in ks : r[n] = i.blk[k]
  BY <1>3, <1>4, <1>6, <1>9
<1> QED BY <1>9, <1>10, <1>11 DEF IsReleased, r, i

\* Blocks that are released are no longer in the file.
LEMMA ReleasedApart ==
  ASSUME NEW N \in [File -> INodeType], NEW fr \in Seq(Block), Apart(N, fr),
         NEW f \in File, NEW i \in INodeType, NEW ks \in SUBSET FileBlk, NEW gone,
         IsReleased(gone, N[f].blk, ks),
         \A k \in FileBlk : i.blk[k] = NoBlk \/ (k \notin ks /\ i.blk[k] = N[f].blk[k])
  PROVE  gone \o fr \in Seq(Block) /\ Apart(With(N, f, i), gone \o fr)
<1> DEFINE M == With(N, f, i)
           s == gone \o fr
           a == Len(gone)
<1>1. M[f] = i /\ \A g \in File \ {f} : M[g] = N[g]
  BY WithFields
<1>2. gone \in Seq(Block) /\ a \in Nat /\ DOMAIN gone = 1 .. a
      /\ Len(fr) \in Nat /\ DOMAIN fr = 1 .. Len(fr)
  BY LenProperties DEF IsReleased
<1>3. /\ s \in Seq(Block) /\ DOMAIN s = 1 .. a + Len(fr)
      /\ \A n \in 1 .. a + Len(fr) : s[n] = IF n <= a THEN gone[n] ELSE fr[n - a]
  BY <1>2
<1>4. ASSUME NEW n \in DOMAIN s
      PROVE  \/ n \in DOMAIN gone /\ s[n] = gone[n]
             \/ n - a \in DOMAIN fr /\ s[n] = fr[n - a]
  BY <1>2, <1>3
<1>5. /\ \A k, l \in DOMAIN fr : fr[k] = fr[l] => k = l
      /\ \A k, l \in DOMAIN gone : gone[k] = gone[l] => k = l
  BY DEF Apart, IsReleased, IsInjective
<1>6. /\ \A g, h \in File, k, l \in FileBlk :
           N[g].blk[k] # NoBlk /\ N[g].blk[k] = N[h].blk[l] => g = h /\ k = l
      /\ \A g \in File, k \in FileBlk, n \in DOMAIN fr : N[g].blk[k] # fr[n]
  BY DEF Apart
<1>7. /\ \A n \in DOMAIN gone : /\ gone[n] # NoBlk
                                /\ \E k \in ks : gone[n] = N[f].blk[k]
      /\ \A n \in DOMAIN fr : fr[n] # NoBlk
  BY <1>2, ContentAssumption DEF IsReleased
<1> HIDE DEF M, s, a
<1>8. ASSUME NEW g \in File, NEW k \in FileBlk, M[g].blk[k] # NoBlk
      PROVE  M[g].blk[k] = N[g].blk[k] /\ ~(g = f /\ k \in ks)
  BY <1>1, <1>8
<1>9. IsInjective(s)
  <2> SUFFICES ASSUME NEW k \in DOMAIN s, NEW l \in DOMAIN s, s[k] = s[l] PROVE k = l
    BY DEF IsInjective
  <2>1. \A m \in DOMAIN gone, n \in DOMAIN fr : gone[m] # fr[n]
    BY <1>6, <1>7
  <2>2. k \in Int /\ l \in Int /\ a \in Int
    BY <1>2, <1>3
  <2>3. CASE k - a \in DOMAIN fr /\ s[k] = fr[k - a] /\ l - a \in DOMAIN fr /\ s[l] = fr[l - a]
    <3>1. k - a = l - a
      BY <1>5, <2>3
    <3> QED BY <2>2, <3>1
  <2>4. CASE k \in DOMAIN gone /\ s[k] = gone[k] /\ l \in DOMAIN gone /\ s[l] = gone[l]
    BY <1>5, <2>4
  <2> QED BY <1>4, <2>1, <2>3, <2>4
<1>10. ASSUME NEW g \in File, NEW h \in File, NEW k \in FileBlk, NEW l \in FileBlk,
              M[g].blk[k] # NoBlk, M[g].blk[k] = M[h].blk[l]
       PROVE  g = h /\ k = l
  <2> DEFINE old(e, j) == N[e].blk[j]
             new(e, j) == M[e].blk[j]
  <2>1. \A e, x \in File, j, y \in FileBlk :
          old(e, j) # NoBlk /\ old(e, j) = old(x, y) => e = x /\ j = y
    BY <1>6
  <2>2. new(g, k) = old(g, k) /\ new(h, l) = old(h, l)
        /\ new(g, k) # NoBlk /\ new(g, k) = new(h, l)
    BY <1>8, <1>10
  <2> HIDE DEF old, new
  <2>3. old(g, k) # NoBlk /\ old(g, k) = old(h, l)
    BY <2>2
  <2> QED BY <2>1, <2>3
<1>11. ASSUME NEW g \in File, NEW k \in FileBlk, NEW n \in DOMAIN s
       PROVE  M[g].blk[k] # s[n]
  <2> SUFFICES ASSUME M[g].blk[k] = s[n] PROVE FALSE
    OBVIOUS
  <2> DEFINE old(e, j) == N[e].blk[j]
  <2>1. old(g, k) = s[n] /\ ~(g = f /\ k \in ks)
    BY <1>4, <1>7, <1>8
  <2>2. /\ \A e, x \in File, j, y \in FileBlk :
             old(e, j) # NoBlk /\ old(e, j) = old(x, y) => e = x /\ j = y
        /\ \A e \in File, j \in FileBlk, m \in DOMAIN fr : old(e, j) # fr[m]
        /\ \A m \in DOMAIN gone : gone[m] # NoBlk /\ \E l \in ks : gone[m] = old(f, l)
    BY <1>6, <1>7
  <2> HIDE DEF old
  <2>3. n \in DOMAIN gone /\ s[n] = gone[n]
    BY <1>4, <2>1, <2>2
  <2>4. PICK l \in ks : gone[n] = old(f, l)
    BY <2>2, <2>3
  <2> QED BY <2>1, <2>2, <2>3, <2>4
<1>12. Apart(M, s)
  <2>1. \A g, h \in File, k, l \in FileBlk :
          M[g].blk[k] # NoBlk /\ M[g].blk[k] = M[h].blk[l] => g = h /\ k = l
    BY <1>10
  <2>2. \A g \in File, k \in FileBlk, n \in DOMAIN s : M[g].blk[k] # s[n]
    BY <1>11
  <2> QED BY <1>9, <2>1, <2>2 DEF Apart
<1> QED BY <1>3, <1>12 DEF M, s

-----------------------------------------------------------------------------
(* What a write stores.                                                      *)

\* Chunk c has byte o of file block k.
Has(c, k, o) == c.k = k /\ c.from <= o /\ o < c.to

\* The chunk that has byte n - 1 of the file is the one with that byte of the
\* range.
LEMMA HasPlace ==
  ASSUME NEW off \in Nat, NEW len \in Nat \ {0}, NEW c \in Chunks(off, len),
         NEW k \in Nat, NEW o \in Offset, NEW x \in Nat, x = BlkSize * k + o
  PROVE  /\ Has(c, k, o) <=> c.at <= x - off /\ x - off < c.at + (c.to - c.from)
         /\ Has(c, k, o) => x - off = c.at + o - c.from /\ off <= x /\ x < off + len
<1>1. IsChunk(c, off, len)
  BY ChunksAre
<1>2. /\ c.k \in Nat /\ c.from \in 0 .. BlkSize - 1 /\ c.to \in c.from + 1 .. BlkSize
      /\ c.at \in 0 .. len - 1 /\ c.at + (c.to - c.from) <= len
      /\ BlkSize * c.k + c.from = off + c.at
  BY <1>1 DEF IsChunk
<1>3. BlkSize \in Nat \ {0} /\ o \in 0 .. BlkSize - 1
  BY Sizes DEF Offset
<1>4. ASSUME Has(c, k, o)
      PROVE  /\ x - off = c.at + o - c.from /\ off <= x /\ x < off + len
             /\ c.at <= x - off /\ x - off < c.at + (c.to - c.from)
  <2>1. c.k = k /\ c.from <= o /\ o < c.to
    BY <1>4 DEF Has
  <2>2. BlkSize * k + c.from = off + c.at /\ BlkSize * k \in Nat
    BY <1>2, <1>3, <2>1
  <2> QED BY <1>2, <1>3, <2>1, <2>2
<1>5. ASSUME c.at <= x - off, x - off < c.at + (c.to - c.from)
      PROVE  Has(c, k, o)
  <2> DEFINE p == c.from + (x - off - c.at)
             b == c.k
             y == BlkSize * b
  <2>1. y \in Nat
    BY <1>2, <1>3
  <2>2. p \in 0 .. BlkSize - 1 /\ x = y + p /\ p >= c.from /\ p < c.to
    <3>1. y + c.from = off + c.at
      BY <1>2
    <3> HIDE DEF y
    <3> QED BY <1>2, <1>3, <1>5, <2>1, <3>1
  <2>3. b \in Nat /\ x \in Int
    BY <1>2
  <2> HIDE DEF p, b
  <2>4. x \div BlkSize = b /\ (x % BlkSize) = p
    BY <1>3, <2>2, <2>3, Placed
  <2>5. x \div BlkSize = k /\ (x % BlkSize) = o
    BY <1>3, <2>3, Placed
  <2> QED BY <2>2, <2>4, <2>5 DEF Has, b
<1> QED BY <1>4, <1>5

\* The blocks that chunks are in are those the range reaches, and blocks of the
\* file.
LEMMA ChunkReach ==
  ASSUME NEW off \in Nat, NEW len \in Nat \ {0}, NEW c \in Chunks(off, len),
         off + len <= MaxBlks * BlkSize
  PROVE  /\ c.k \in FileBlk
         /\ c.k \in off \div BlkSize .. (off + len - 1) \div BlkSize
<1> DEFINE b == c.k
           y == BlkSize * b
           x == off + len - 1
           q == x \div BlkSize
           r == x % BlkSize
           z == BlkSize * q
<1>1. IsChunk(c, off, len)
  BY ChunksAre
<1>2. /\ b \in Nat /\ c.from \in 0 .. BlkSize - 1 /\ c.at \in 0 .. len - 1
      /\ y + c.from = off + c.at
  BY <1>1 DEF IsChunk
<1>3. BlkSize \in Nat \ {0} /\ MaxBlks \in Nat \ {0}
  BY Sizes
<1> HIDE DEF b
<1>4. y \in Nat /\ x \in Nat
  BY <1>2, <1>3
<1>5. q \in Nat /\ r \in 0 .. BlkSize - 1 /\ x = z + r
  <2> HIDE DEF x
  <2>1. x \in Int
    BY <1>4
  <2>2. x \div BlkSize \in Nat
    BY <1>3, <1>4, DivideNat
  <2>3. (x % BlkSize) \in 0 .. BlkSize - 1 /\ x = BlkSize * (x \div BlkSize) + (x % BlkSize)
    BY <1>3, <2>1, Divide
  <2> QED BY <2>2, <2>3
<1> HIDE DEF q, r
<1>6. z \in Nat
  BY <1>3, <1>5
<1>7. y < z + BlkSize
  <2> HIDE DEF y, z
  <2> QED BY <1>2, <1>3, <1>4, <1>5, <1>6
<1>8. b <= q
  BY <1>2, <1>3, <1>5, <1>7, TimesLess
<1>9. off < y + BlkSize
  <2> HIDE DEF y
  <2> QED BY <1>2, <1>3, <1>4
<1>10. off \div BlkSize <= b
  <2>1. off \in Int /\ b \in Int
    BY <1>2
  <2> QED BY <1>3, <1>9, <2>1, DivideAtMost
<1>11. off \div BlkSize \in Nat
  BY <1>3, DivideNat
<1>12. b <= MaxBlks - 1
  <2> DEFINE m == MaxBlks - 1
             w == BlkSize * m
  <2>1. m \in Nat /\ w + BlkSize = MaxBlks * BlkSize /\ w \in Nat
    BY <1>3
  <2> HIDE DEF m, w
  <2>2. y < w + BlkSize
    <3> HIDE DEF y
    <3> QED BY <1>2, <1>3, <1>4, <2>1
  <2>3. b <= m
    BY <1>2, <1>3, <2>1, <2>2, TimesLess DEF w
  <2> QED BY <2>3 DEF m
<1>13. b \in 0 .. MaxBlks - 1
  BY <1>2, <1>3, <1>12
<1>14. b \in off \div BlkSize .. q
  BY <1>2, <1>5, <1>8, <1>10, <1>11
<1> QED BY <1>13, <1>14 DEF FileBlk, b, q

\* A byte of a block is the one that a chunk brings, or what it was.
LEMMA StoredAt ==
  ASSUME NEW bytes \in DataType, NEW blk, NEW off \in Nat, NEW buf \in Buffer,
         NEW chunks \in SUBSET Chunks(off, Len(buf))
  PROVE  /\ Stored(bytes, blk, chunks, buf) \in DataType
         /\ \A b \in Block, o \in Offset :
              \/ /\ \A c \in chunks : ~(blk[c.k] = b /\ c.from <= o /\ o < c.to)
                 /\ Stored(bytes, blk, chunks, buf)[b][o] = bytes[b][o]
              \/ \E c \in chunks :
                   /\ blk[c.k] = b /\ c.from <= o /\ o < c.to
                   /\ Stored(bytes, blk, chunks, buf)[b][o] = buf[c.at + o - c.from + 1]
<1> DEFINE into(b, o) == {c \in chunks : blk[c.k] = b /\ c.from <= o /\ o < c.to}
           one(b, o) == CHOOSE c \in into(b, o) : TRUE
           val(b, o) == IF into(b, o) = {} THEN bytes[b][o]
                        ELSE buf[one(b, o).at + o - one(b, o).from + 1]
           s == Stored(bytes, blk, chunks, buf)
<1>1. s = [b \in Block |-> [o \in Offset |-> val(b, o)]]
  BY DEF Stored
<1>2. Len(buf) \in Nat \ {0} /\ \A n \in 1 .. Len(buf) : buf[n] \in Byte
  BY DEF Buffer
<1>3. ASSUME NEW b \in Block, NEW o \in Offset
      PROVE  /\ val(b, o) \in Byte
             /\ \/ /\ \A c \in chunks : ~(blk[c.k] = b /\ c.from <= o /\ o < c.to)
                   /\ val(b, o) = bytes[b][o]
                \/ \E c \in chunks :
                     /\ blk[c.k] = b /\ c.from <= o /\ o < c.to
                     /\ val(b, o) = buf[c.at + o - c.from + 1]
  <2>1. CASE into(b, o) = {}
    <3>1. val(b, o) = bytes[b][o] /\ bytes[b][o] \in Byte
      BY <2>1 DEF DataType
    <3>2. \A c \in chunks : ~(blk[c.k] = b /\ c.from <= o /\ o < c.to)
      BY <2>1
    <3> QED BY <3>1, <3>2
  <2>2. CASE into(b, o) # {}
    <3> DEFINE c == one(b, o)
    <3>1. c \in chunks /\ blk[c.k] = b /\ c.from <= o /\ o < c.to
      BY <2>2
    <3>2. val(b, o) = buf[c.at + o - c.from + 1]
      BY <2>2
    <3> HIDE DEF c, val
    <3>3. IsChunk(c, off, Len(buf))
      BY <1>2, <3>1, ChunksAre
    <3>4. /\ c.from \in Int /\ c.to \in Int /\ c.at \in Nat /\ o \in Int
          /\ c.at + (c.to - c.from) <= Len(buf)
      BY <3>3, Sizes DEF IsChunk, Offset
    <3>5. c.at + o - c.from + 1 \in 1 .. Len(buf)
      BY SMTT(30), <1>2, <3>1, <3>4
    <3> QED BY <1>2, <3>1, <3>2, <3>5
  <2> QED BY <2>1, <2>2
<1> HIDE DEF val
<1>4. s \in DataType
  BY <1>1, <1>3 DEF DataType
<1>5. \A b \in Block, o \in Offset : s[b][o] = val(b, o)
  BY <1>1
<1> HIDE DEF s
<1>6. \A b \in Block, o \in Offset :
        \/ /\ \A c \in chunks : ~(blk[c.k] = b /\ c.from <= o /\ o < c.to)
           /\ s[b][o] = bytes[b][o]
        \/ \E c \in chunks :
             /\ blk[c.k] = b /\ c.from <= o /\ o < c.to
             /\ s[b][o] = buf[c.at + o - c.from + 1]
  BY <1>3, <1>5
<1> QED BY <1>4, <1>6 DEF s

\* The same, by the places in a file that has each of its blocks once.
LEMMA StoredIn ==
  ASSUME NEW bytes \in DataType, NEW off \in Nat, NEW buf \in Buffer,
         off + Len(buf) <= MaxBlks * BlkSize,
         NEW blk \in [FileBlk -> Block \union {NoBlk}],
         \A k, l \in FileBlk : blk[k] # NoBlk /\ blk[k] = blk[l] => k = l,
         NEW chunks \in SUBSET Chunks(off, Len(buf)),
         NEW new, new = Stored(bytes, blk, chunks, buf)
  PROVE  /\ new \in DataType
         /\ \A k \in FileBlk, o \in Offset : blk[k] # NoBlk =>
              \/ /\ \E c \in chunks : Has(c, k, o)
                 /\ new[blk[k]][o] = buf[BlkSize * k + o - off + 1]
              \/ /\ \A c \in chunks : ~Has(c, k, o)
                 /\ new[blk[k]][o] = bytes[blk[k]][o]
         /\ \A b \in Block : (\A k \in FileBlk : blk[k] # b) => new[b] = bytes[b]
<1>1. /\ new \in DataType
      /\ \A b \in Block, o \in Offset :
           \/ /\ \A c \in chunks : ~(blk[c.k] = b /\ c.from <= o /\ o < c.to)
              /\ new[b][o] = bytes[b][o]
           \/ \E c \in chunks : /\ blk[c.k] = b /\ c.from <= o /\ o < c.to
                                /\ new[b][o] = buf[c.at + o - c.from + 1]
  BY StoredAt
<1>2. Len(buf) \in Nat \ {0}
  BY DEF Buffer
<1>3. \A c \in chunks : c.k \in FileBlk
  BY <1>2, ChunkReach
<1>4. ASSUME NEW k \in FileBlk, NEW o \in Offset, blk[k] # NoBlk
      PROVE  \/ /\ \E c \in chunks : Has(c, k, o)
                /\ new[blk[k]][o] = buf[BlkSize * k + o - off + 1]
             \/ /\ \A c \in chunks : ~Has(c, k, o)
                /\ new[blk[k]][o] = bytes[blk[k]][o]
  <2> DEFINE b == blk[k]
             x == BlkSize * k + o
  <2>1. b \in Block
    BY <1>4
  <2>2. \A c \in chunks : blk[c.k] = b <=> c.k = k
    BY <1>3, <1>4
  <2>3. k \in Nat /\ o \in Int /\ x \in Nat
    BY Sizes DEF FileBlk, Offset
  <2> HIDE DEF b
  <2>4. ASSUME \A c \in chunks : ~(blk[c.k] = b /\ c.from <= o /\ o < c.to)
        PROVE  \A c \in chunks : ~Has(c, k, o)
    BY <2>2, <2>4 DEF Has
  <2>5. ASSUME NEW c \in chunks, blk[c.k] = b, c.from <= o, o < c.to,
               new[b][o] = buf[c.at + o - c.from + 1]
        PROVE  Has(c, k, o) /\ new[b][o] = buf[x - off + 1]
    <3>1. Has(c, k, o)
      BY <2>2, <2>5 DEF Has
    <3>2. x - off = c.at + o - c.from
      <4> HIDE DEF x
      <4>1. x = BlkSize * k + o
        BY DEF x
      <4> QED BY <1>2, <2>3, <3>1, <4>1, HasPlace
    <3> QED BY <2>5, <3>1, <3>2
  <2> HIDE DEF x
  <2>6. \/ (\E c \in chunks : Has(c, k, o)) /\ new[b][o] = buf[x - off + 1]
        \/ (\A c \in chunks : ~Has(c, k, o)) /\ new[b][o] = bytes[b][o]
    BY <1>1, <2>1, <2>4, <2>5
  <2>7. buf[x - off + 1] = buf[BlkSize * k + o - off + 1]
    <3> DEFINE y == BlkSize * k
    <3>1. y \in Int /\ x = y + o
      BY <2>3, Sizes DEF x
    <3> HIDE DEF y
    <3>2. x - off + 1 = y + o - off + 1
      BY <2>3, <3>1
    <3> QED BY <3>2 DEF y
  <2> QED BY <2>6, <2>7 DEF b
<1>5. ASSUME NEW b \in Block, \A k \in FileBlk : blk[k] # b
      PROVE  new[b] = bytes[b]
  <2>1. \A o \in Offset : new[b][o] = bytes[b][o]
    BY <1>1, <1>3, <1>5
  <2>2. new[b] \in [Offset -> Byte] /\ bytes[b] \in [Offset -> Byte]
    BY <1>1 DEF DataType
  <2> QED BY <2>1, <2>2
<1> QED BY <1>1, <1>4, <1>5

-----------------------------------------------------------------------------
(* What a write does to a file.                                              *)

\* Inode i and the bytes d in the blocks become inode j and bytes e: the chunks
\* in done bring the bytes of the buffer; other bytes stay, but for those of
\* blocks that are new.
Moved(i, j, d, e, done, off, buf) ==
  \A k \in FileBlk, o \in Offset :
    /\ (\E c \in done : Has(c, k, o)) => At(j, e, k, o) = buf[BlkSize * k + o - off + 1]
    /\ (\A c \in done : ~Has(c, k, o)) /\ (i.blk[k] # NoBlk
                                           \/ \A c \in Chunks(off, Len(buf)) : c.k # k)
         => At(j, e, k, o) = At(i, d, k, o)

\* Chunk c brings byte p of the buffer, counted from 0.
Brings(c, p) == c.at <= p /\ p < c.at + (c.to - c.from)

LEMMA MovedAt ==
  ASSUME NEW off \in Nat, NEW buf \in Buffer, off + Len(buf) <= MaxBlks * BlkSize,
         NEW i \in INodeType, NEW j \in INodeType, NEW d \in DataType, NEW e \in DataType,
         NEW done \in SUBSET Chunks(off, Len(buf)), Moved(i, j, d, e, done, off, buf),
         NEW n \in 1 .. j.filesize
  PROVE  /\ (\E c \in done : Brings(c, n - 1 - off)) => Image(j, e)[n] = buf[n - off]
         /\ n <= i.filesize /\ (\A c \in done : ~Brings(c, n - 1 - off))
              => Files!Keeps(Image(i, d), Image(j, e), n, off, Len(buf))
<1> DEFINE x == n - 1
           k == x \div BlkSize
           o == x % BlkSize
           y == BlkSize * k
           len == Len(buf)
<1>1. n \in Int /\ n >= 1 /\ n <= MaxBlks * BlkSize /\ x \in Nat /\ j.filesize \in Nat
  <2> DEFINE m == MaxBlks * BlkSize
  <2>1. m \in Int
    BY Sizes
  <2>2. j.filesize \in Nat /\ j.filesize <= m
    BY ImageFields
  <2> HIDE DEF m
  <2>3. n \in Int /\ n >= 1 /\ n <= m /\ x \in Nat
    BY <2>1, <2>2
  <2> QED BY <2>2, <2>3 DEF m
<1>2. len \in Nat \ {0}
  BY DEF Buffer
<1>3. k \in FileBlk /\ o \in Offset /\ x = y + o
  <2>1. n \in 1 .. MaxBlks * BlkSize
    BY <1>1, Sizes
  <2> QED BY <2>1, PlaceOf
<1>4. Image(j, e)[n] = At(j, e, k, o)
  BY ImageFields
<1>5. n <= i.filesize => Image(i, d)[n] = At(i, d, k, o)
  <2> SUFFICES ASSUME n <= i.filesize PROVE Image(i, d)[n] = At(i, d, k, o)
    OBVIOUS
  <2>1. n \in 1 .. i.filesize
    BY <1>1, ImageFields
  <2> QED BY <2>1, ImageFields
<1>6. Files!Keeps(Image(i, d), Image(j, e), n, off, len)
        <=> (Image(i, d)[n] # Hole \/ ~(k \in off \div BlkSize .. (off + len - 1) \div BlkSize)
               => Image(j, e)[n] = Image(i, d)[n])
  BY DEF Files!Keeps, Files!Reaches
<1> HIDE DEF k, o, len
<1>7. k \in Nat /\ o \in Int /\ y \in Int
  BY <1>3, Sizes DEF FileBlk, Offset
<1>8. \A c \in done : Has(c, k, o) <=> Brings(c, x - off)
  <2> TAKE c \in done
  <2>1. c \in Chunks(off, len) /\ x = BlkSize * k + o
    BY <1>3 DEF len
  <2> HIDE DEF x
  <2> QED BY <1>1, <1>2, <1>3, <1>7, <2>1, HasPlace DEF Brings
<1> HIDE DEF y
<1>9. y + o - off + 1 = n - off
  BY <1>1, <1>3, <1>7
<1>10. ASSUME NEW c \in done, Brings(c, x - off)
       PROVE  Image(j, e)[n] = buf[n - off]
  <2>1. Has(c, k, o)
    BY <1>8, <1>10
  <2>2. At(j, e, k, o) = buf[y + o - off + 1]
    BY <1>3, <2>1 DEF Moved, y
  <2> QED BY <1>4, <1>9, <2>2
<1>11. ASSUME n <= i.filesize, \A c \in done : ~Brings(c, x - off),
              Image(i, d)[n] # Hole \/ ~(k \in off \div BlkSize .. (off + len - 1) \div BlkSize)
       PROVE  Image(j, e)[n] = Image(i, d)[n]
  <2>1. \A c \in done : ~Has(c, k, o)
    BY <1>8, <1>11
  <2>2. i.blk[k] # NoBlk \/ \A c \in Chunks(off, len) : c.k # k
    <3>1. Image(i, d)[n] # Hole => i.blk[k] # NoBlk
      BY <1>3, <1>5, <1>11, ImageFields
    <3>2. \A c \in Chunks(off, len) : c.k \in off \div BlkSize .. (off + len - 1) \div BlkSize
      BY <1>2, ChunkReach DEF len
    <3> QED BY <1>11, <3>1, <3>2
  <2>3. At(j, e, k, o) = At(i, d, k, o)
    BY <1>3, <2>1, <2>2 DEF Moved, len
  <2> QED BY <1>4, <1>5, <1>11, <2>3
<1> QED BY <1>6, <1>10, <1>11 DEF len

\* A write that has the blocks for all of its bytes.
LEMMA WrittenAll ==
  ASSUME NEW off \in Nat, NEW buf \in Buffer, off + Len(buf) <= MaxBlks * BlkSize,
         NEW i \in INodeType, NEW j \in INodeType, NEW d \in DataType, NEW e \in DataType,
         Moved(i, j, d, e, Chunks(off, Len(buf)), off, buf),
         j.filesize = Larger(i.filesize, off + Len(buf))
  PROVE  Files!Written(Image(i, d), Image(j, e), off, buf)
<1> DEFINE c == Image(i, d)
           z == Image(j, e)
           len == Len(buf)
           chunks == Chunks(off, len)
<1>1. /\ i.filesize \in Nat /\ Len(c) = i.filesize
      /\ j.filesize \in Nat /\ Len(z) = j.filesize
      /\ len \in Nat \ {0}
  BY ImageFields DEF Buffer
<1>2. j.filesize >= off + len /\ j.filesize >= i.filesize
      /\ j.filesize = IF off + len > i.filesize THEN off + len ELSE i.filesize
  BY <1>1 DEF Larger
<1>3. ASSUME NEW n \in 1 .. j.filesize
      PROVE  /\ (\E x \in chunks : Brings(x, n - 1 - off)) => z[n] = buf[n - off]
             /\ n <= i.filesize /\ (\A x \in chunks : ~Brings(x, n - 1 - off))
                  => Files!Keeps(c, z, n, off, len)
  BY MovedAt
<1> HIDE DEF c, z
<1>4. ASSUME NEW n \in 1 .. len
      PROVE  z[off + n] = buf[n]
  <2> DEFINE m == off + n
  <2>1. m \in 1 .. j.filesize /\ m - 1 - off = n - 1 /\ n - 1 \in 0 .. len - 1 /\ m - off = n
    BY <1>1, <1>2
  <2> HIDE DEF m, len
  <2>2. \E x \in chunks : Brings(x, n - 1)
    BY <1>1, <2>1, ChunksCover DEF Brings
  <2> HIDE DEF chunks
  <2>3. z[m] = buf[n]
    BY <1>3, <2>1, <2>2
  <2> QED BY <2>3 DEF m
<1>5. ASSUME NEW n \in 1 .. i.filesize, ~Files!Covers(n, off, len)
      PROVE  Files!Keeps(c, z, n, off, len)
  <2>1. n \in 1 .. j.filesize /\ n <= i.filesize
    BY <1>1, <1>2
  <2>2. ~(n - 1 - off \in 0 .. len - 1)
    BY <1>1, <1>5 DEF Files!Covers
  <2>3. \A x \in chunks : ~Brings(x, n - 1 - off)
    <3> TAKE x \in chunks
    <3>1. IsChunk(x, off, len)
      BY <1>1, ChunksAre
    <3>2. /\ x.from \in Int /\ x.to \in Int /\ x.at \in 0 .. len - 1
          /\ x.at + (x.to - x.from) <= len
      BY <3>1, Sizes DEF IsChunk
    <3> HIDE DEF len
    <3> QED BY SMTT(30), <1>1, <2>1, <2>2, <3>2 DEF Brings
  <2> QED BY <1>3, <2>1, <2>3
<1>6. Len(z) = IF off + Len(buf) > Len(c) THEN off + Len(buf) ELSE Len(c)
  BY <1>1, <1>2
<1> QED BY <1>1, <1>4, <1>5, <1>6 DEF Files!Written, c, z

\* The chunks before the block k0 of one of them bring the bytes of a beginning
\* of the buffer.
LEMMA BroughtBefore ==
  ASSUME NEW off \in Nat, NEW len \in Nat \ {0}, NEW c0 \in Chunks(off, len),
         NEW p \in Int
  PROVE  (\E c \in Chunks(off, len) : c.k < c0.k /\ Brings(c, p)) <=> p \in 0 .. c0.at - 1
<1> DEFINE y0 == BlkSize * c0.k
<1>1. \A c \in Chunks(off, len) : IsChunk(c, off, len)
  BY ChunksAre
<1>2. BlkSize \in Nat \ {0}
  BY Sizes
<1>3. /\ c0.k \in Nat /\ c0.from \in 0 .. BlkSize - 1 /\ c0.at \in 0 .. len - 1
      /\ y0 + c0.from = off + c0.at /\ (c0.from = 0 \/ c0.at = 0)
  BY <1>1 DEF IsChunk
<1>4. y0 \in Nat
  BY <1>2, <1>3
<1>5. ASSUME NEW c \in Chunks(off, len), Brings(c, p)
      PROVE  c.k < c0.k <=> p < c0.at
  <2> DEFINE y == BlkSize * c.k
             k == c.k
             l == c0.k
  <2>1. /\ k \in Nat /\ c.from \in 0 .. BlkSize - 1 /\ c.to \in c.from + 1 .. BlkSize
        /\ c.at \in 0 .. len - 1 /\ y + c.from = off + c.at
    BY <1>1 DEF IsChunk
  <2>2. y \in Nat /\ c.at <= p /\ p < c.at + (c.to - c.from)
    BY <1>2, <1>5, <2>1 DEF Brings
  <2>3. k < l => y + BlkSize <= y0
    <3> HIDE DEF k, l
    <3>1. k < l => BlkSize * k + BlkSize <= BlkSize * l
      BY <1>2, <1>3, <2>1 DEF l
    <3> QED BY <3>1 DEF k, l
  <2>4. l <= k => y0 <= y
    <3> HIDE DEF k, l
    <3>1. l <= k => BlkSize * l <= BlkSize * k
      BY <1>2, <1>3, <2>1 DEF l
    <3> QED BY <3>1 DEF k, l
  <2> HIDE DEF y, y0, k, l
  <2>5. k < l => p < c0.at
    BY <1>2, <1>3, <1>4, <2>1, <2>2, <2>3
  <2>6. l <= k => c0.at <= p
    BY <1>2, <1>3, <1>4, <2>1, <2>2, <2>4
  <2>7. k \in Int /\ l \in Int
    BY <1>3, <2>1 DEF l
  <2>8. k < l <=> p < c0.at
    BY <1>3, <2>5, <2>6, <2>7
  <2> QED BY <2>8 DEF k, l
<1>6. ASSUME p \in 0 .. c0.at - 1
      PROVE  \E c \in Chunks(off, len) : Brings(c, p)
  <2>1. p \in 0 .. len - 1
    BY <1>3, <1>6
  <2> QED BY <2>1, ChunksCover DEF Brings
<1>7. \A c \in Chunks(off, len) : Brings(c, p) => p >= 0
  <2> TAKE c \in Chunks(off, len)
  <2>1. c.at \in Nat
    BY <1>1 DEF IsChunk
  <2> QED BY <2>1 DEF Brings
<1>8. c0.at \in Nat
  BY <1>3
<1> QED BY <1>5, <1>6, <1>7, <1>8

\* A write that has no block for the part of chunk c0 on.
LEMMA WrittenPart ==
  ASSUME NEW off \in Nat, NEW buf \in Buffer, off + Len(buf) <= MaxBlks * BlkSize,
         NEW i \in INodeType, NEW j \in INodeType, NEW d \in DataType, NEW e \in DataType,
         NEW c0 \in Chunks(off, Len(buf)),
         Moved(i, j, d, e, {c \in Chunks(off, Len(buf)) : c.k < c0.k}, off, buf),
         j.filesize = i.filesize
  PROVE  Files!PartlyWritten(Image(i, d), Image(j, e), off, buf)
<1> DEFINE c == Image(i, d)
           z == Image(j, e)
           len == Len(buf)
           cut == c0.at
           done == {x \in Chunks(off, Len(buf)) : x.k < c0.k}
<1>1. /\ i.filesize \in Nat /\ Len(c) = i.filesize /\ Len(z) = i.filesize
      /\ len \in Nat \ {0}
  BY ImageFields DEF Buffer
<1>2. cut \in 0 .. len - 1
  BY <1>1, ChunksAre DEF IsChunk
<1>3. ASSUME NEW n \in 1 .. j.filesize
      PROVE  /\ (\E x \in done : Brings(x, n - 1 - off)) => z[n] = buf[n - off]
             /\ n <= i.filesize /\ (\A x \in done : ~Brings(x, n - 1 - off))
                  => Files!Keeps(c, z, n, off, len)
  <2>1. done \in SUBSET Chunks(off, Len(buf))
    OBVIOUS
  <2> QED BY <2>1, MovedAt
<1>4. ASSUME NEW n \in 1 .. i.filesize
      PROVE  IF Files!Covers(n, off, cut) THEN z[n] = buf[n - off]
             ELSE Files!Keeps(c, z, n, off, len)
  <2>1. n \in 1 .. j.filesize /\ n <= i.filesize /\ n \in Int /\ n - 1 - off \in Int
    BY <1>1
  <2>2. (\E x \in done : Brings(x, n - 1 - off)) <=> n - 1 - off \in 0 .. cut - 1
    BY <1>1, <2>1, BroughtBefore
  <2>3. Files!Covers(n, off, cut) <=> n - 1 - off \in 0 .. cut - 1
    <3> HIDE DEF cut
    <3> QED BY <1>2, <2>1 DEF Files!Covers
  <2> HIDE DEF done, c, z, cut
  <2> QED BY <1>3, <2>1, <2>2, <2>3
<1> HIDE DEF c, z, cut, done
<1>5. \A n \in 1 .. Len(c) :
        IF Files!Covers(n, off, cut) THEN z[n] = buf[n - off]
        ELSE Files!Keeps(c, z, n, off, len)
  BY <1>1, <1>4
<1>6. Files!PartlyWritten(c, z, off, buf)
  BY <1>1, <1>2, <1>5 DEF Files!PartlyWritten
<1> QED BY <1>6 DEF c, z

\* What a write that fails does to the file on disk.
LEMMA WrittenSome ==
  ASSUME NEW off \in Nat, NEW buf \in Buffer, off + Len(buf) <= MaxBlks * BlkSize,
         NEW i \in INodeType, NEW j \in INodeType, NEW d \in DataType, NEW e \in DataType,
         NEW done \in SUBSET Chunks(off, Len(buf)), Moved(i, j, d, e, done, off, buf),
         j.filesize = i.filesize,
         \A k \in FileBlk : i.blk[k] # NoBlk => j.blk[k] = i.blk[k],
         NEW q \in INodeType, Under(q, i)
  PROVE  Files!SomeWritten(Image(q, d), Image(q, e), off, buf)
<1> DEFINE c == Image(q, d)
           z == Image(q, e)
           len == Len(buf)
<1>1. /\ q.filesize \in Nat /\ Len(c) = q.filesize /\ Len(z) = q.filesize
      /\ len \in Nat \ {0} /\ i.filesize = q.filesize
  BY ImageFields DEF Buffer, Under
<1>2. ASSUME NEW n \in 1 .. q.filesize, z[n] # c[n]
      PROVE  Files!Covers(n, off, len) /\ z[n] = buf[n - off]
  <2> DEFINE k == (n - 1) \div BlkSize
             o == (n - 1) % BlkSize
  <2>1. k \in FileBlk /\ o \in Offset
    <3> DEFINE m == MaxBlks * BlkSize
    <3>1. m \in Int /\ q.filesize <= m
      BY Sizes, ImageFields
    <3> HIDE DEF m
    <3>2. n \in 1 .. m
      BY <1>1, <3>1
    <3> QED BY <3>2, PlaceOf DEF m
  <2>2. z[n] = At(q, e, k, o) /\ c[n] = At(q, d, k, o)
    BY ImageFields
  <2>3. n \in 1 .. j.filesize /\ n \in 1 .. i.filesize /\ n <= i.filesize
    BY <1>1
  <2>4. Image(j, e)[n] = At(j, e, k, o) /\ Image(i, d)[n] = At(i, d, k, o)
    BY <2>3, ImageFields
  <2> HIDE DEF k, o
  <2>5. q.blk[k] # NoBlk
    BY <1>2, <2>2 DEF At
  <2>6. q.blk[k] = i.blk[k] /\ q.blk[k] = j.blk[k]
    BY <2>1, <2>5 DEF Under
  <2>7. z[n] = Image(j, e)[n] /\ c[n] = Image(i, d)[n] /\ c[n] # Hole
    <3>1. c[n] # Hole
      BY <2>1, <2>2, <2>5, ImageFields
    <3> QED BY <2>2, <2>4, <2>6, <3>1 DEF At
  <2>8. /\ (\E x \in done : Brings(x, n - 1 - off)) => Image(j, e)[n] = buf[n - off]
        /\ (\A x \in done : ~Brings(x, n - 1 - off))
             => Files!Keeps(Image(i, d), Image(j, e), n, off, len)
    BY <2>3, MovedAt
  <2>9. PICK x \in done : Brings(x, n - 1 - off)
    BY <1>2, <2>7, <2>8 DEF Files!Keeps
  <2>10. IsChunk(x, off, len)
    BY <1>1, ChunksAre
  <2>11. x.from \in Int /\ x.to \in Int /\ x.at \in Nat /\ x.at + (x.to - x.from) <= len
    BY <2>10, Sizes DEF IsChunk
  <2>12. Files!Covers(n, off, len)
    <3> HIDE DEF len
    <3> QED BY <1>1, <2>3, <2>9, <2>11 DEF Files!Covers, Brings
  <2> QED BY <2>7, <2>8, <2>9, <2>12
<1> HIDE DEF c, z
<1>3. \A n \in 1 .. Len(c) : z[n] # c[n] => Files!Covers(n, off, len) /\ z[n] = buf[n - off]
  BY <1>1, <1>2
<1>4. Files!SomeWritten(c, z, off, buf)
  BY <1>1, <1>3 DEF Files!SomeWritten
<1> QED BY <1>4 DEF c, z

-----------------------------------------------------------------------------
(* l2_write.                                                                 *)

\* The missing file blocks that get a block, as many as are free, get each
\* another one.
LEMMA GotTaken ==
  ASSUME NEW old \in [FileBlk -> Block \union {NoBlk}], NEW fr \in Seq(Block),
         IsInjective(fr), NEW missing \in SUBSET FileBlk, \A k \in missing : old[k] = NoBlk,
         NEW got, got = {k \in missing : Rank(missing, k) <= Len(fr)},
         NEW blk, blk = [k \in FileBlk |-> IF k \in got THEN fr[Rank(got, k)] ELSE old[k]]
  PROVE  /\ Cardinality(got) \in Nat /\ Taken(blk, old, fr, got, Cardinality(got))
         /\ got # {} => Cardinality(got) \in DOMAIN fr
<1>1. got \in SUBSET missing /\ got \in SUBSET FileBlk
  OBVIOUS
<1>2. Cardinality(got) \in Nat /\ \A k \in got : Rank(got, k) \in 1 .. Cardinality(got)
  BY <1>1, RankFields
<1>3. \A k, l \in got : Rank(got, k) = Rank(got, l) => k = l
  BY <1>1, RankFields
<1>4. \A k \in got : Rank(got, k) \in DOMAIN fr /\ Rank(got, k) <= Cardinality(got)
  <2> TAKE k \in got
  <2>1. Rank(got, k) <= Rank(missing, k)
    BY <1>1, RankSub
  <2>2. Rank(missing, k) \in Int /\ Rank(missing, k) <= Len(fr)
    <3>1. k \in missing /\ Rank(missing, k) <= Len(fr)
      OBVIOUS
    <3>2. Rank(missing, k) \in 1 .. Cardinality(missing) /\ Cardinality(missing) \in Nat
      BY <3>1, RankFields
    <3> QED BY <3>1, <3>2
  <2>3. Len(fr) \in Nat /\ DOMAIN fr = 1 .. Len(fr)
    OBVIOUS
  <2> QED BY <1>2, <2>1, <2>2, <2>3
<1>5. \A k \in FileBlk : blk[k] = IF k \in got THEN fr[Rank(got, k)] ELSE old[k]
  OBVIOUS
<1>6. blk \in [FileBlk -> Block \union {NoBlk}]
  BY <1>4
<1>7. \A k, l \in got : blk[k] = blk[l] => k = l
  BY <1>1, <1>3, <1>4, <1>5 DEF IsInjective
<1>8. \A k \in got : \E n \in DOMAIN fr : n <= Cardinality(got) /\ blk[k] = fr[n]
  BY <1>1, <1>4, <1>5
<1>9. got # {} => Cardinality(got) \in DOMAIN fr
  <2> HAVE got # {}
  <2>1. Cardinality(got) \in 1 .. Cardinality(got)
    <3>1. PICK k \in got : TRUE
      OBVIOUS
    <3>2. Rank(got, k) \in 1 .. Cardinality(got)
      BY <1>2, <3>1
    <3> QED BY <1>2, <3>2
  <2>2. PICK k \in got : Rank(got, k) = Cardinality(got)
    BY <1>1, <2>1, RankOnto
  <2> QED BY <1>4, <2>2
<1> QED BY <1>1, <1>2, <1>5, <1>6, <1>7, <1>8, <1>9 DEF Taken

\* The file becomes one with more blocks and the bytes of some chunks, of all
\* or of those before a block that is missing; its other bytes and other files
\* stay.
LEMMA WriteMoves ==
  ASSUME IInv, NEW f \in File, NEW off \in Nat, NEW buf \in Buffer,
         off + Len(buf) <= MaxBlks * BlkSize, Write(f, off, buf)
  PROVE  \E j \in INodeType, done \in SUBSET Chunks(off, Len(buf)) :
           /\ free' \in Seq(Block) /\ taken' \in Block \union {NoBlk}
           /\ inode' = With(inode, f, j) /\ data' \in DataType
           /\ Apart(inode', free')
           /\ \A k \in FileBlk : inode[f].blk[k] # NoBlk => j.blk[k] = inode[f].blk[k]
           /\ Moved(inode[f], j, data, data', done, off, buf)
           /\ \A g \in File \ {f}, k \in FileBlk : inode[g].blk[k] # NoBlk =>
                data'[inode[g].blk[k]] = data[inode[g].blk[k]]
           /\ \/ /\ done = Chunks(off, Len(buf)) /\ dinode' = With(dinode, f, j)
                 /\ j.filesize = Larger(inode[f].filesize, off + Len(buf))
              \/ \E c0 \in Chunks(off, Len(buf)) :
                   /\ done = {c \in Chunks(off, Len(buf)) : c.k < c0.k} /\ dinode' = dinode
                   /\ j.filesize = inode[f].filesize
<1> DEFINE bytes(wiped) == [b \in Block |-> IF b \in wiped THEN Zeros ELSE data[b]]
<1> DEFINE Ends(i, missing, got, blk, done) ==
             /\ free' = SubSeq(free, Cardinality(got) + 1, Len(free))
             /\ taken' = IF got = {} THEN taken ELSE free[Cardinality(got)]
             /\ \E wiped \in SUBSET {blk[k] : k \in got} :
                  data' = Stored(bytes(wiped), blk, done, buf)
             /\ inode' = [inode EXCEPT ![f] =
                  [filesize |-> IF got # missing THEN i.filesize
                                ELSE Larger(i.filesize, off + Len(buf)), blk |-> blk]]
             /\ IF got = missing THEN WriteINode(f) ELSE UNCHANGED dinode
<1>0. PICK i, chunks, missing, got, blk, done :
        /\ i = inode[f] /\ chunks = Chunks(off, Len(buf))
        /\ missing = {c.k : c \in {c \in chunks : i.blk[c.k] = NoBlk}}
        /\ got = {k \in missing : Rank(missing, k) <= Len(free)}
        /\ blk = [k \in FileBlk |-> IF k \in got THEN free[Rank(got, k)] ELSE i.blk[k]]
        /\ done = {c \in chunks : \A k \in missing \ got : c.k < k}
        /\ Ends(i, missing, got, blk, done)
  <2>1. \E i \in {inode[f]}, chunks \in {Chunks(off, Len(buf))} :
        \E missing \in {{c.k : c \in {c \in chunks : i.blk[c.k] = NoBlk}}} :
        \E got \in {{k \in missing : Rank(missing, k) <= Len(free)}} :
        \E blk \in {[k \in FileBlk |-> IF k \in got THEN free[Rank(got, k)] ELSE i.blk[k]]},
           done \in {{c \in chunks : \A k \in missing \ got : c.k < k}} :
          Ends(i, missing, got, blk, done)
    BY DEF Write
  <2> HIDE DEF Ends
  <2> QED BY <2>1
<1> DEFINE size == IF got # missing THEN i.filesize ELSE Larger(i.filesize, off + Len(buf))
           m == Cardinality(got)
           j == [filesize |-> size, blk |-> blk]
<1>1. /\ free' = Rest(free, m) /\ taken' = IF got = {} THEN taken ELSE free[m]
      /\ inode' = [inode EXCEPT ![f] = j]
      /\ IF got = missing THEN dinode' = [dinode EXCEPT ![f] = inode'[f]] ELSE dinode' = dinode
  BY <1>0 DEF WriteINode, Rest
<1>2. PICK wiped \in SUBSET {blk[k] : k \in got} :
        data' = Stored(bytes(wiped), blk, done, buf)
  BY <1>0
<1> HIDE DEF Ends, bytes
<1>3. /\ free \in Seq(Block) /\ inode \in [File -> INodeType]
      /\ dinode \in [File -> INodeType] /\ data \in DataType /\ Apart(inode, free)
      /\ IsInjective(free) /\ taken \in Block \union {NoBlk}
  BY DEF IInv, Apart
<1>4. i \in INodeType /\ i.blk \in [FileBlk -> Block \union {NoBlk}]
      /\ i.filesize \in 0 .. MaxBlks * BlkSize
  BY <1>0, <1>3, INodeFields
<1>5. Len(buf) \in Nat \ {0}
  BY DEF Buffer
<1>6. \A c \in chunks : c.k \in FileBlk
  BY <1>0, <1>5, ChunkReach
<1>7. /\ missing \in SUBSET FileBlk /\ \A k \in missing : i.blk[k] = NoBlk
      /\ \A c \in chunks : i.blk[c.k] = NoBlk => c.k \in missing
      /\ \A k \in missing : \E c \in chunks : c.k = k
  BY <1>0, <1>6
<1>8. /\ got \in SUBSET missing
      /\ \A c \in chunks : c \in done <=> \A k \in missing \ got : c.k < k
      /\ done \in SUBSET chunks
  BY <1>0
<1>9. m \in Nat /\ Taken(blk, i.blk, free, got, m) /\ (got # {} => m \in DOMAIN free)
  <2>1. got = {k \in missing : Rank(missing, k) <= Len(free)}
    BY <1>0
  <2>2. blk = [k \in FileBlk |-> IF k \in got THEN free[Rank(got, k)] ELSE i.blk[k]]
    BY <1>0
  <2> QED BY <1>3, <1>4, <1>7, <2>1, <2>2, GotTaken
<1> HIDE DEF m
<1>10. /\ blk \in [FileBlk -> Block \union {NoBlk}]
       /\ \A k \in FileBlk \ got : blk[k] = i.blk[k]
       /\ \A k \in got : i.blk[k] = NoBlk /\ \E n \in DOMAIN free : blk[k] = free[n]
  BY <1>9 DEF Taken
<1>11. size \in 0 .. MaxBlks * BlkSize
  <2> DEFINE w == MaxBlks * BlkSize
  <2>1. w \in Int
    BY Sizes
  <2> HIDE DEF w
  <2>2. Larger(i.filesize, off + Len(buf)) \in 0 .. w
    <3>1. i.filesize \in 0 .. w /\ off + Len(buf) <= w
      BY <1>4 DEF w
    <3>2. i.filesize \in Int
      BY Sizes, <1>4
    <3> QED BY <1>5, <2>1, <3>1 DEF Larger
  <2> QED BY <1>4, <2>2 DEF w
<1> HIDE DEF size
<1>12. j \in INodeType /\ j.filesize = size /\ j.blk = blk
  BY <1>10, <1>11, INodeFields
<1> HIDE DEF j
<1>13. inode' = With(inode, f, j)
  BY <1>1 DEF With
<1>14. inode'[f] = j /\ \A g \in File \ {f} : inode'[g] = inode[g]
  <2>1. With(inode, f, j)[f] = j /\ \A g \in File \ {f} : With(inode, f, j)[g] = inode[g]
    BY <1>3, <1>12 DEF With
  <2> QED BY <1>13, <2>1
<1>15. free' \in Seq(Block)
  BY <1>1, <1>3, <1>9, RestFields
<1>16. Apart(inode', free')
  <2>1. got \in SUBSET FileBlk /\ Taken(j.blk, inode[f].blk, free, got, m)
    BY <1>0, <1>7, <1>8, <1>9, <1>12
  <2>2. m \in Nat /\ j \in INodeType
    BY <1>9, <1>12
  <2>3. Apart(With(inode, f, j), Rest(free, m))
    BY <1>3, <2>1, <2>2, TakenApart
  <2>4. free' = Rest(free, m)
    BY <1>1
  <2> QED BY <1>13, <2>3, <2>4
<1>17. \A k, l \in FileBlk : blk[k] # NoBlk /\ blk[k] = blk[l] => k = l
  <2>1. inode'[f].blk = blk
    BY <1>12, <1>14
  <2> QED BY <1>16, <2>1 DEF Apart
<1> DEFINE old == bytes(wiped)
<1>18. old \in DataType /\ \A b \in Block \ wiped : old[b] = data[b]
  BY <1>3, ContentAssumption DEF DataType, bytes, Zeros
<1>19. data' = Stored(old, blk, done, buf)
  BY <1>2
<1> HIDE DEF old
<1>20. /\ data' \in DataType
       /\ \A k \in FileBlk, o \in Offset : blk[k] # NoBlk =>
            \/ /\ \E c \in done : Has(c, k, o)
               /\ data'[blk[k]][o] = buf[BlkSize * k + o - off + 1]
            \/ /\ \A c \in done : ~Has(c, k, o)
               /\ data'[blk[k]][o] = old[blk[k]][o]
       /\ \A b \in Block : (\A k \in FileBlk : blk[k] # b) => data'[b] = old[b]
  <2>1. done \in SUBSET Chunks(off, Len(buf))
    BY <1>0, <1>8
  <2> QED BY <1>10, <1>17, <1>18, <1>19, <2>1, StoredIn
\* Blocks that were in a file have not been wiped.
<1>21. ASSUME NEW g \in File, NEW k \in FileBlk, inode[g].blk[k] # NoBlk
       PROVE  inode[g].blk[k] \in Block /\ old[inode[g].blk[k]] = data[inode[g].blk[k]]
  <2> DEFINE b == inode[g].blk[k]
  <2>1. b \in Block
    BY <1>3, <1>21, INodeFields
  <2>2. \A n \in DOMAIN free : b # free[n]
    BY <1>3 DEF Apart
  <2> HIDE DEF b
  <2>3. b \notin wiped
    BY <1>10, <1>2, <1>7, <1>8, <2>2
  <2> QED BY <1>18, <2>1, <2>3 DEF b
<1>22. \A k \in FileBlk : i.blk[k] # NoBlk => j.blk[k] = i.blk[k]
  BY <1>10, <1>12
<1>23. Moved(i, j, data, data', done, off, buf)
  <2> SUFFICES ASSUME NEW k \in FileBlk, NEW o \in Offset
               PROVE  /\ (\E c \in done : Has(c, k, o))
                           => At(j, data', k, o) = buf[BlkSize * k + o - off + 1]
                      /\ (\A c \in done : ~Has(c, k, o))
                         /\ (i.blk[k] # NoBlk \/ \A c \in Chunks(off, Len(buf)) : c.k # k)
                           => At(j, data', k, o) = At(i, data, k, o)
    BY DEF Moved
  <2>1. ASSUME NEW c \in done, Has(c, k, o)
        PROVE  At(j, data', k, o) = buf[BlkSize * k + o - off + 1]
    <3>1. c.k = k /\ c \in chunks /\ k \in Int
      BY <1>8, <2>1 DEF Has, FileBlk
    <3>2. k \in missing => k \in got
      BY <1>8, <3>1
    <3>3. blk[k] # NoBlk
      BY <1>3, <1>7, <1>10, <3>1, <3>2, ContentAssumption
    <3>4. data'[blk[k]][o] = buf[BlkSize * k + o - off + 1]
      BY <1>20, <2>1, <3>3
    <3> QED BY <1>12, <3>3, <3>4 DEF At
  <2>2. ASSUME \A c \in done : ~Has(c, k, o),
               i.blk[k] # NoBlk \/ \A c \in chunks : c.k # k
        PROVE  At(j, data', k, o) = At(i, data, k, o)
    <3>1. k \notin got
      BY <1>7, <1>8, <2>2
    <3>2. j.blk[k] = i.blk[k] /\ blk[k] = i.blk[k]
      BY <1>10, <1>12, <3>1
    <3>3. ASSUME i.blk[k] # NoBlk
          PROVE  data'[blk[k]][o] = old[blk[k]][o] /\ old[i.blk[k]] = data[i.blk[k]]
      <4>1. data'[blk[k]][o] = old[blk[k]][o]
        BY <1>20, <2>2, <3>2, <3>3
      <4>2. i = inode[f]
        BY <1>0
      <4> QED BY <1>21, <3>3, <4>1, <4>2
    <3> QED BY <3>2, <3>3 DEF At
  <2> QED BY <1>0, <2>1, <2>2
<1>24. ASSUME NEW g \in File \ {f}, NEW k \in FileBlk, inode[g].blk[k] # NoBlk
       PROVE  data'[inode[g].blk[k]] = data[inode[g].blk[k]]
  <2> DEFINE b == inode[g].blk[k]
  <2>1. inode'[g].blk[k] = b /\ \A l \in FileBlk : inode'[f].blk[l] = blk[l]
    BY <1>12, <1>14
  <2>2. \A l \in FileBlk : blk[l] # b
    <3>1. b # NoBlk
      BY <1>24
    <3> HIDE DEF b
    <3> QED BY <1>16, <2>1, <3>1 DEF Apart
  <2>3. b \in Block /\ old[b] = data[b]
    BY <1>21, <1>24
  <2> HIDE DEF b
  <2>4. data'[b] = data[b]
    BY <1>20, <2>2, <2>3
  <2> QED BY <2>4 DEF b
<1>27. taken' \in Block \union {NoBlk}
  BY <1>1, <1>3, <1>9
<1>25. CASE got = missing
  <2>1. done = chunks
    BY <1>8, <1>25
  <2>2. dinode' = With(dinode, f, j)
    BY <1>1, <1>14, <1>25 DEF With
  <2>3. size = Larger(i.filesize, off + Len(buf))
    BY <1>25 DEF size
  <2> QED BY <1>0, <1>12, <1>13, <1>15, <1>16, <1>20, <1>22, <1>23, <1>24, <1>27, <2>1, <2>2, <2>3
<1>26. CASE got # missing
  <2>1. dinode' = dinode /\ size = i.filesize
    BY <1>1, <1>26 DEF size
  <2>2. missing \ got \in SUBSET Nat /\ missing \ got # {}
    <3>1. FileBlk \subseteq Nat
      BY DEF FileBlk
    <3>2. missing \ got # {}
      BY <1>8, <1>26
    <3> QED BY <1>7, <3>1, <3>2
  <2>3. PICK k0 \in missing \ got : \A k \in missing \ got : k0 <= k
    BY <2>2, WellOrdered
  <2>4. PICK c0 \in chunks : c0.k = k0
    BY <1>7, <2>3
  <2>5. \A c \in chunks : c.k \in Int
    BY <1>6 DEF FileBlk
  <2>6. \A c \in chunks : c \in done <=> c.k < c0.k
    BY <1>8, <2>2, <2>3, <2>4, <2>5
  <2>7. done = {c \in chunks : c.k < c0.k}
    BY <1>8, <2>6
  <2> QED BY <1>0, <1>12, <1>13, <1>15, <1>16, <1>20, <1>22, <1>23, <1>24, <1>27, <2>1, <2>4, <2>7
<1> QED BY <1>25, <1>26

\* What the files contain, before and after a step.
LEMMA Contents ==
  \A g \in File :
    /\ Bytes(inode[g]) = Image(inode[g], data) /\ Bytes(dinode[g]) = Image(dinode[g], data)
    /\ Bytes(inode[g])' = Image(inode'[g], data') /\ Bytes(dinode[g])' = Image(dinode'[g], data')
BY DEF Bytes, Image, ByteAt, At

\* An inode does not change the bytes of a file if its blocks have the same
\* bytes; nor does the one on disk.
LEMMA SameFile ==
  ASSUME IInv, NEW g \in File, NEW e \in DataType,
         \A k \in FileBlk : inode[g].blk[k] # NoBlk => e[inode[g].blk[k]] = data[inode[g].blk[k]]
  PROVE  Image(inode[g], e) = Image(inode[g], data) /\ Image(dinode[g], e) = Image(dinode[g], data)
<1> DEFINE i == inode[g]
           q == dinode[g]
<1>1. i \in INodeType /\ q \in INodeType /\ data \in DataType /\ Under(q, i)
  BY DEF IInv
<1>2. \A k \in FileBlk : i.blk[k] # NoBlk => e[i.blk[k]] = data[i.blk[k]]
  OBVIOUS
<1> HIDE DEF i, q
<1>3. \A k \in FileBlk : q.blk[k] # NoBlk => e[q.blk[k]] = data[q.blk[k]]
  BY <1>1, <1>2 DEF Under
<1>4. Image(i, e) = Image(i, data)
  BY <1>1, <1>2, SameImage
<1>5. Image(q, e) = Image(q, data)
  BY <1>1, <1>3, SameImage
<1> QED BY <1>4, <1>5 DEF i, q

\* A write keeps the invariant, and is one of ByteFile.
LEMMA WriteStep ==
  ASSUME IInv, NEW f \in File, NEW off \in Nat, NEW buf \in Buffer,
         off + Len(buf) <= MaxBlks * BlkSize, Write(f, off, buf)
  PROVE  IInv' /\ Files!Write(f, off, buf)
<1> DEFINE i == inode[f]
           q == dinode[f]
<1>1. PICK j \in INodeType, done \in SUBSET Chunks(off, Len(buf)) :
        /\ free' \in Seq(Block) /\ taken' \in Block \union {NoBlk}
        /\ inode' = With(inode, f, j) /\ data' \in DataType
        /\ Apart(inode', free')
        /\ \A k \in FileBlk : i.blk[k] # NoBlk => j.blk[k] = i.blk[k]
        /\ Moved(i, j, data, data', done, off, buf)
        /\ \A g \in File \ {f}, k \in FileBlk : inode[g].blk[k] # NoBlk =>
             data'[inode[g].blk[k]] = data[inode[g].blk[k]]
        /\ \/ /\ done = Chunks(off, Len(buf)) /\ dinode' = With(dinode, f, j)
              /\ j.filesize = Larger(i.filesize, off + Len(buf))
           \/ \E c0 \in Chunks(off, Len(buf)) :
                /\ done = {c \in Chunks(off, Len(buf)) : c.k < c0.k} /\ dinode' = dinode
                /\ j.filesize = i.filesize
  BY WriteMoves
<1>2. /\ inode \in [File -> INodeType] /\ dinode \in [File -> INodeType] /\ data \in DataType
      /\ \A g \in File : Under(dinode[g], inode[g])
      /\ i \in INodeType /\ q \in INodeType /\ Under(q, i)
  BY DEF IInv
<1>3. /\ inode' \in [File -> INodeType] /\ inode'[f] = j
      /\ \A g \in File \ {f} : inode'[g] = inode[g]
  <2>1. inode' = With(inode, f, j)
    BY <1>1
  <2> QED BY <1>2, <2>1 DEF With
<1>4. /\ dinode' \in [File -> INodeType] /\ \A g \in File \ {f} : dinode'[g] = dinode[g]
      /\ \/ dinode'[f] = j
         \/ dinode'[f] = q /\ j.filesize = i.filesize
  <2>1. dinode' = With(dinode, f, j) \/ (dinode' = dinode /\ j.filesize = i.filesize)
    BY <1>1
  <2> QED BY <1>2, <2>1 DEF With
<1> HIDE DEF i, q
<1>5. ASSUME NEW g \in File PROVE Under(dinode'[g], inode'[g])
  <2>1. CASE g # f
    BY <1>2, <1>3, <1>4, <2>1
  <2>2. CASE g = f /\ dinode'[f] = j
    BY <1>3, <2>2 DEF Under
  <2>3. CASE g = f /\ dinode'[f] = q /\ j.filesize = i.filesize
    <3>1. Under(q, j)
      BY <1>1, <1>2, <2>3 DEF Under
    <3> QED BY <1>3, <2>3, <3>1
  <2> QED BY <1>4, <2>1, <2>2, <2>3
<1>6. IInv'
  BY <1>1, <1>3, <1>4, <1>5 DEF IInv
<1>7. ASSUME NEW g \in File \ {f}
      PROVE  /\ Bytes(inode[g])' = Bytes(inode[g]) /\ Bytes(dinode[g])' = Bytes(dinode[g])
  <2>1. \A k \in FileBlk : inode[g].blk[k] # NoBlk => data'[inode[g].blk[k]] = data[inode[g].blk[k]]
    BY <1>1
  <2>2. Image(inode[g], data') = Image(inode[g], data)
        /\ Image(dinode[g], data') = Image(dinode[g], data)
    BY <1>1, <2>1, SameFile
  <2> QED BY <1>3, <1>4, <2>2, Contents
<1>8. /\ Bytes(inode[f]) = Image(i, data) /\ Bytes(dinode[f]) = Image(q, data)
      /\ Bytes(inode[f])' = Image(j, data') /\ Bytes(dinode[f])' = Image(dinode'[f], data')
  BY <1>3, Contents DEF i, q
<1>9. \/ /\ Files!Written(Image(i, data), Image(j, data'), off, buf)
         /\ Image(dinode'[f], data') = Image(j, data')
      \/ /\ Files!PartlyWritten(Image(i, data), Image(j, data'), off, buf)
         /\ Files!SomeWritten(Image(q, data), Image(dinode'[f], data'), off, buf)
  <2>1. ASSUME done = Chunks(off, Len(buf)), dinode' = With(dinode, f, j),
               j.filesize = Larger(i.filesize, off + Len(buf))
        PROVE  /\ Files!Written(Image(i, data), Image(j, data'), off, buf)
               /\ Image(dinode'[f], data') = Image(j, data')
    <3>1. dinode'[f] = j
      BY <1>2, <2>1 DEF With
    <3>2. Moved(i, j, data, data', Chunks(off, Len(buf)), off, buf)
      BY <1>1, <2>1
    <3> QED BY <1>1, <1>2, <2>1, <3>1, <3>2, WrittenAll
  <2>2. ASSUME NEW c0 \in Chunks(off, Len(buf)),
               done = {c \in Chunks(off, Len(buf)) : c.k < c0.k}, dinode' = dinode,
               j.filesize = i.filesize
        PROVE  /\ Files!PartlyWritten(Image(i, data), Image(j, data'), off, buf)
               /\ Files!SomeWritten(Image(q, data), Image(dinode'[f], data'), off, buf)
    <3>1. Moved(i, j, data, data', {c \in Chunks(off, Len(buf)) : c.k < c0.k}, off, buf)
      BY <1>1, <2>2
    <3>2. Files!PartlyWritten(Image(i, data), Image(j, data'), off, buf)
      BY <1>1, <1>2, <2>2, <3>1, WrittenPart
    <3>3. Files!SomeWritten(Image(q, data), Image(q, data'), off, buf)
      BY <1>1, <1>2, <2>2, WrittenSome
    <3>4. dinode'[f] = q
      BY <2>2 DEF q
    <3> QED BY <3>2, <3>3, <3>4
  <2> QED BY <1>1, <2>1, <2>2
<1>10. Files!Write(f, off, buf)
  BY <1>7, <1>8, <1>9 DEF Files!Write, Files!OnlyIn
<1> QED BY <1>6, <1>10

-----------------------------------------------------------------------------
(* l2_truncate, l2_unlink, l2_read and a remount.                            *)

\* The file blocks that a cut to "length" releases, of a file of "size" bytes.
CutBlks(size, length) ==
  LET last == NBlks(size) - 1
      more == (last * BlkSize - length) \div BlkSize
  IN  IF length < size /\ NBlks(length) <= last THEN last - more .. last ELSE {}

\* They are blocks of the file, and the bytes that stay are not in them.
LEMMA CutBlksAre ==
  ASSUME NEW size \in 0 .. MaxBlks * BlkSize, NEW length \in 0 .. MaxBlks * BlkSize
  PROVE  /\ CutBlks(size, length) \in SUBSET FileBlk
         /\ \A k \in CutBlks(size, length) : length <= BlkSize * k
<1> DEFINE last == NBlks(size) - 1
           x == last * BlkSize - length
           more == x \div BlkSize
           r == x % BlkSize
           w == BlkSize * last
           y == BlkSize * more
<1>1. BlkSize \in Nat \ {0} /\ MaxBlks \in Nat \ {0}
  BY Sizes
<1>2. size \in Nat /\ length \in Nat /\ size <= BlkSize * MaxBlks
  <2> DEFINE m == MaxBlks * BlkSize
  <2>1. m \in Int /\ BlkSize * MaxBlks = m
    BY <1>1
  <2>2. size \in 0 .. m /\ length \in 0 .. m
    OBVIOUS
  <2> HIDE DEF m
  <2> QED BY <2>1, <2>2
<1>3. /\ NBlks(size) \in Nat /\ NBlks(length) \in Nat
      /\ \A j \in Nat : j < NBlks(size) <=> BlkSize * j < size
      /\ \A j \in Nat : j < NBlks(length) <=> BlkSize * j < length
  BY <1>2, NBlksBelow
<1>4. NBlks(size) <= MaxBlks
  <2>1. ~(BlkSize * MaxBlks < size)
    BY <1>1, <1>2
  <2>2. ~(MaxBlks < NBlks(size))
    BY <1>1, <1>3, <2>1
  <2> QED BY <1>1, <1>3, <2>2
<1> SUFFICES ASSUME length < size, NBlks(length) <= last
             PROVE  /\ last - more .. last \in SUBSET FileBlk
                    /\ \A k \in last - more .. last : length <= BlkSize * k
  BY DEF CutBlks
<1>5. last \in Nat /\ last <= MaxBlks - 1
  BY <1>1, <1>3, <1>4
<1>6. w \in Nat /\ x = w - length
  <2> HIDE DEF last
  <2> QED BY <1>1, <1>5
<1>7. length <= w
  <2>1. ~(last < NBlks(length))
    BY <1>3, <1>5
  <2>2. ~(w < length)
    BY <1>3, <1>5, <2>1
  <2> HIDE DEF w
  <2> QED BY <1>2, <1>6, <2>2
<1>8. x \in Nat /\ x \in Int
  <2> HIDE DEF x, w
  <2> QED BY <1>2, <1>6, <1>7
<1>9. more \in Nat /\ r \in 0 .. BlkSize - 1 /\ x = y + r
  <2> HIDE DEF x
  <2>1. x \div BlkSize \in Nat
    BY <1>1, <1>8, DivideNat
  <2>2. (x % BlkSize) \in 0 .. BlkSize - 1 /\ x = BlkSize * (x \div BlkSize) + (x % BlkSize)
    BY <1>1, <1>8, Divide
  <2> QED BY <2>1, <2>2
<1> HIDE DEF last, x, more, r
<1>10. y \in Nat /\ y + length <= w
  <2>1. y \in Nat
    BY <1>1, <1>9
  <2> HIDE DEF y, w
  <2> QED BY <1>1, <1>2, <1>6, <1>8, <1>9, <2>1
<1>11. more <= last
  <2>1. y < w + BlkSize
    <3> HIDE DEF y, w
    <3> QED BY <1>1, <1>2, <1>6, <1>10
  <2>2. more \in Int /\ last \in Int
    BY <1>5, <1>9
  <2> QED BY <1>1, <2>1, <2>2, TimesLess
<1>12. last - more .. last \in SUBSET FileBlk
  BY <1>1, <1>5, <1>9, <1>11 DEF FileBlk
<1>13. ASSUME NEW k \in last - more .. last PROVE length <= BlkSize * k
  <2> DEFINE z == BlkSize * k
             l == last - more
  <2>1. k \in Nat /\ l \in Nat /\ l <= k
    BY <1>5, <1>9, <1>11
  <2>2. BlkSize * l = w - y
    BY <1>1, <1>5, <1>9
  <2> HIDE DEF l
  <2>3. BlkSize * l <= z /\ z \in Nat
    BY <1>1, <2>1
  <2> HIDE DEF z, w, y
  <2>4. length <= z
    BY <1>2, <1>6, <1>10, <2>2, <2>3
  <2> QED BY <2>4 DEF z
<1> QED BY <1>12, <1>13

\* A file that loses the blocks in ks: the invariant stays, and other files.
LEMMA ReleaseStep ==
  ASSUME IInv, NEW f \in File, NEW j \in INodeType, NEW ks \in SUBSET FileBlk,
         \A k \in FileBlk : j.blk[k] = NoBlk \/ (k \notin ks /\ j.blk[k] = inode[f].blk[k]),
         free' = Released(inode[f], ks) \o free,
         inode' = [inode EXCEPT ![f] = j],
         WriteINode(f), UNCHANGED <<taken, data>>
  PROVE  /\ IInv'
         /\ Files!OnlyIn(f)
         /\ Bytes(inode[f])' = Image(j, data) /\ Bytes(dinode[f])' = Image(j, data)
<1>1. /\ free \in Seq(Block) /\ inode \in [File -> INodeType]
      /\ dinode \in [File -> INodeType] /\ data \in DataType
      /\ Apart(inode, free) /\ \A g \in File : Under(dinode[g], inode[g])
      /\ taken' \in Block \union {NoBlk}
  BY DEF IInv
<1>2. /\ inode' \in [File -> INodeType] /\ inode'[f] = j
      /\ \A g \in File \ {f} : inode'[g] = inode[g]
      /\ inode' = With(inode, f, j)
  BY <1>1 DEF With
<1>3. /\ dinode' \in [File -> INodeType] /\ dinode'[f] = j
      /\ \A g \in File \ {f} : dinode'[g] = dinode[g]
  BY <1>1, <1>2 DEF WriteINode
<1>4. free' \in Seq(Block) /\ Apart(inode', free')
  <2> DEFINE gone == Released(inode[f], ks)
  <2>1. IsReleased(gone, inode[f].blk, ks)
    BY <1>1, ReleasedFields
  <2>2. free' = gone \o free
    OBVIOUS
  <2> HIDE DEF gone
  <2>3. gone \o free \in Seq(Block) /\ Apart(With(inode, f, j), gone \o free)
    BY <1>1, <2>1, ReleasedApart
  <2> QED BY <1>2, <2>2, <2>3
<1>5. \A g \in File : Under(dinode'[g], inode'[g])
  <2> TAKE g \in File
  <2>1. CASE g = f
    BY <1>2, <1>3, <2>1 DEF Under
  <2>2. CASE g # f
    BY <1>1, <1>2, <1>3, <2>2
  <2> QED BY <2>1, <2>2
<1>6. IInv'
  BY <1>1, <1>2, <1>3, <1>4, <1>5 DEF IInv
<1>7. \A g \in File \ {f} : Bytes(inode[g])' = Bytes(inode[g]) /\ Bytes(dinode[g])' = Bytes(dinode[g])
  BY <1>2, <1>3, Contents
<1>8. Bytes(inode[f])' = Image(j, data) /\ Bytes(dinode[f])' = Image(j, data)
  BY <1>2, <1>3, Contents
<1>9. Files!OnlyIn(f)
  BY <1>7 DEF Files!OnlyIn
<1> QED BY <1>6, <1>8, <1>9

LEMMA TruncateStep ==
  ASSUME IInv, NEW f \in File, NEW length \in 0 .. MaxBlks * BlkSize, Truncate(f, length)
  PROVE  IInv' /\ Files!Truncate(f, length)
<1> DEFINE i == inode[f]
           ks == CutBlks(i.filesize, length)
           j == [filesize |-> length, blk |-> Unmapped(i, ks)]
<1>1. i \in INodeType /\ data \in DataType
  BY DEF IInv
<1>2. i.filesize \in 0 .. MaxBlks * BlkSize /\ i.blk \in [FileBlk -> Block \union {NoBlk}]
  BY <1>1, INodeFields
<1>3. /\ free' = Released(i, ks) \o free /\ inode' = [inode EXCEPT ![f] = j]
      /\ WriteINode(f) /\ UNCHANGED <<taken, data>>
  BY DEF Truncate, CutBlks
<1>4. ks \in SUBSET FileBlk /\ \A k \in ks : length <= BlkSize * k
  BY <1>2, CutBlksAre
<1> HIDE DEF ks
<1>5. /\ Unmapped(i, ks) \in [FileBlk -> Block \union {NoBlk}]
      /\ \A k \in FileBlk : Unmapped(i, ks)[k] = IF k \in ks THEN NoBlk ELSE i.blk[k]
  BY <1>2 DEF Unmapped
<1>6. j \in INodeType /\ j.filesize = length /\ j.blk = Unmapped(i, ks)
  BY <1>5, INodeFields
<1> HIDE DEF j
<1>7. \A k \in FileBlk : j.blk[k] = NoBlk \/ (k \notin ks /\ j.blk[k] = inode[f].blk[k])
  BY <1>5, <1>6
<1>8. /\ IInv' /\ Files!OnlyIn(f)
      /\ Bytes(inode[f])' = Image(j, data) /\ Bytes(dinode[f])' = Image(j, data)
  BY <1>3, <1>4, <1>6, <1>7, ReleaseStep
<1> HIDE DEF i
<1>9. /\ Len(Image(j, data)) = length /\ Len(Image(i, data)) = i.filesize
      /\ length \in Nat /\ i.filesize \in Nat
  BY <1>1, <1>6, ImageFields
<1>10. ASSUME NEW n \in 1 .. length, n <= i.filesize
       PROVE  Image(j, data)[n] = Image(i, data)[n]
  <2> DEFINE k == (n - 1) \div BlkSize
             o == (n - 1) % BlkSize
             y == BlkSize * k
  <2>1. n \in 1 .. MaxBlks * BlkSize /\ n \in 1 .. i.filesize
    <3> DEFINE m == MaxBlks * BlkSize
    <3>1. m \in Int /\ length <= m
      BY Sizes
    <3> HIDE DEF m
    <3>2. n \in 1 .. m /\ n \in 1 .. i.filesize
      BY <1>9, <1>10, <3>1
    <3> QED BY <3>2 DEF m
  <2>2. k \in FileBlk /\ o \in Offset /\ n - 1 = y + o
    BY <2>1, PlaceOf
  <2>3. Image(j, data)[n] = At(j, data, k, o) /\ Image(i, data)[n] = At(i, data, k, o)
    BY <1>1, <1>6, <2>1, ImageFields
  <2> HIDE DEF k, o
  <2>4. y < length
    <3>1. y \in Int /\ o >= 0 /\ o \in Int
      BY <2>2, Sizes DEF FileBlk, Offset
    <3> HIDE DEF y
    <3> QED BY <1>9, <2>2, <3>1
  <2>5. k \notin ks
    <3>1. y \in Int
      BY <2>2, Sizes DEF FileBlk
    <3>2. ~(length <= y)
      <4> HIDE DEF y
      <4> QED BY <1>9, <2>4, <3>1
    <3> QED BY <1>4, <3>2
  <2>6. j.blk[k] = i.blk[k]
    BY <1>5, <1>6, <2>2, <2>5
  <2> QED BY <2>3, <2>6 DEF At
<1>11. Bytes(inode[f]) = Image(i, data)
  BY Contents DEF i
<1>12. Files!Resized(Image(i, data), Image(j, data), length)
  BY <1>9, <1>10 DEF Files!Resized
<1> QED BY <1>8, <1>11, <1>12 DEF Files!Truncate

LEMMA UnlinkStep ==
  ASSUME IInv, NEW f \in File, Unlink(f)
  PROVE  IInv' /\ Files!Unlink(f)
<1> DEFINE ks == {k \in FileBlk : k <= NBlks(inode[f].filesize)}
           j == EmptyINode
<1>1. /\ free' = Released(inode[f], ks) \o free /\ inode' = [inode EXCEPT ![f] = j]
      /\ WriteINode(f) /\ UNCHANGED <<taken, data>> /\ ks \in SUBSET FileBlk
  BY DEF Unlink
<1>2. /\ j \in INodeType /\ j.filesize = 0 /\ \A k \in FileBlk : j.blk[k] = NoBlk
  <2>1. 0 \in 0 .. MaxBlks * BlkSize
    BY Sizes
  <2> QED BY <2>1 DEF EmptyINode, INodeType
<1> HIDE DEF ks, j
<1>3. /\ IInv' /\ Files!OnlyIn(f)
      /\ Bytes(inode[f])' = Image(j, data) /\ Bytes(dinode[f])' = Image(j, data)
  BY <1>1, <1>2, ReleaseStep
<1>4. Image(j, data) = <<>>
  BY <1>2 DEF Image
<1> QED BY <1>3, <1>4 DEF Files!Unlink

LEMMA ReadStep ==
  ASSUME IInv, NEW f \in File, Read(f)
  PROVE  IInv' /\ Files!Read(f)
<1>1. /\ dinode' = [dinode EXCEPT ![f] = inode[f]]
      /\ inode' = inode /\ free' = free /\ taken' = taken /\ data' = data
  BY DEF Read, WriteINode
<1>2. /\ inode \in [File -> INodeType] /\ dinode \in [File -> INodeType]
      /\ \A g \in File : Under(dinode[g], inode[g])
  BY DEF IInv
<1>3. /\ dinode' \in [File -> INodeType]
      /\ \A g \in File : dinode'[g] = IF g = f THEN inode[f] ELSE dinode[g]
  BY <1>1, <1>2
<1>4. \A g \in File : Under(dinode'[g], inode'[g])
  BY <1>1, <1>2, <1>3 DEF Under
<1>5. IInv'
  BY <1>1, <1>2, <1>3, <1>4 DEF IInv
<1>6. \A g \in File : /\ Bytes(inode[g])' = Bytes(inode[g])
                      /\ Bytes(dinode[g])' = IF g = f THEN Bytes(inode[f]) ELSE Bytes(dinode[g])
  BY <1>1, <1>3, Contents
<1> QED BY <1>5, <1>6 DEF Files!Read

\* The bytes of a file when block t is cleared: those of one of its blocks are
\* zeros then, if it has block t, else they stay.
LEMMA ClearedBlk ==
  ASSUME NEW i \in INodeType, NEW d \in DataType, NEW t,
         \A k, l \in FileBlk : i.blk[k] # NoBlk /\ i.blk[k] = i.blk[l] => k = l
  PROVE  LET e == [d EXCEPT ![t] = Zeros]
         IN  /\ e \in DataType
             /\ \A k \in FileBlk : i.blk[k] # NoBlk /\ i.blk[k] = t =>
                  Image(i, e) = Files!Cleared(Image(i, d), k)
             /\ (\A k \in FileBlk : i.blk[k] # NoBlk => i.blk[k] # t) =>
                  Image(i, e) = Image(i, d)
<1> DEFINE e == [d EXCEPT ![t] = Zeros]
<1>1. Zeros \in [Offset -> Byte] /\ \A o \in Offset : Zeros[o] = 0
  BY ContentAssumption DEF Zeros
<1>2. e \in DataType /\ \A b \in Block : e[b] = IF b = t THEN Zeros ELSE d[b]
  BY <1>1 DEF DataType
<1> HIDE DEF e
<1>3. i.blk \in [FileBlk -> Block \union {NoBlk}]
  BY ImageFields
<1>4. ASSUME NEW k \in FileBlk, i.blk[k] # NoBlk, i.blk[k] = t
      PROVE  Image(i, e) = Files!Cleared(Image(i, d), k)
  <2>1. ASSUME NEW n \in 1 .. i.filesize
        PROVE  Image(i, e)[n] = IF (n - 1) \div BlkSize = k /\ Image(i, d)[n] # Hole
                                  THEN 0 ELSE Image(i, d)[n]
    <3> DEFINE l == (n - 1) \div BlkSize
               o == (n - 1) % BlkSize
    <3>1. n \in 1 .. MaxBlks * BlkSize
      BY ImageFields, Sizes
    <3>2. l \in FileBlk /\ o \in Offset
      BY <3>1, PlaceOf
    <3>3. Image(i, e)[n] = At(i, e, l, o) /\ Image(i, d)[n] = At(i, d, l, o)
      BY <1>2, ImageFields
    <3>4. At(i, d, l, o) = Hole <=> i.blk[l] = NoBlk
      BY <3>2, ImageFields
    <3> HIDE DEF l, o
    <3>5. CASE l = k
      <4>1. At(i, e, l, o) = 0
        BY <1>1, <1>2, <1>3, <1>4, <3>2, <3>5 DEF At
      <4> QED BY <1>4, <3>3, <3>4, <3>5, <4>1 DEF l
    <3>6. CASE l # k
      <4>1. i.blk[l] # NoBlk => i.blk[l] \in Block /\ i.blk[l] # t
        BY <1>3, <1>4, <3>2, <3>6
      <4>2. At(i, e, l, o) = At(i, d, l, o)
        BY <1>2, <4>1 DEF At
      <4> QED BY <3>3, <3>6, <4>2 DEF l
    <3> QED BY <3>5, <3>6
  <2>2. /\ DOMAIN Image(i, d) = 1 .. i.filesize
        /\ Image(i, e) = [n \in 1 .. i.filesize |-> Image(i, e)[n]]
    BY <1>2, ImageFields DEF Image
  <2>3. Files!Cleared(Image(i, d), k) =
          [n \in 1 .. i.filesize |-> IF (n - 1) \div BlkSize = k /\ Image(i, d)[n] # Hole
                                       THEN 0 ELSE Image(i, d)[n]]
    BY <2>2 DEF Files!Cleared
  <2> QED BY <2>1, <2>2, <2>3
<1>5. ASSUME \A k \in FileBlk : i.blk[k] # NoBlk => i.blk[k] # t
      PROVE  Image(i, e) = Image(i, d)
  <2>1. \A k \in FileBlk : i.blk[k] # NoBlk => e[i.blk[k]] = d[i.blk[k]]
    BY <1>2, <1>3, <1>5
  <2> QED BY <1>2, <2>1, SameImage
<1> QED BY <1>2, <1>4, <1>5 DEF e

\* A remount: what was stored comes back, but for a block of a full disk.
LEMMA RemountStep ==
  ASSUME IInv, Remount
  PROVE  IInv' /\ Files!Remount
<1>1. /\ inode' = dinode /\ free' = free /\ taken' = taken /\ dinode' = dinode
      /\ data' = IF free = <<>> THEN [data EXCEPT ![taken] = Zeros] ELSE data
  BY DEF Remount
<1>2. /\ dinode \in [File -> INodeType] /\ Apart(inode, free) /\ data \in DataType
      /\ taken \in Block \union {NoBlk}
      /\ \A g \in File : Under(dinode[g], inode[g])
  BY DEF IInv
<1>3. ASSUME NEW g \in File, NEW k \in FileBlk
      PROVE  dinode[g].blk[k] = NoBlk \/ dinode[g].blk[k] = inode[g].blk[k]
  BY <1>2 DEF Under
<1>4. Apart(dinode, free)
  <2> DEFINE old(e, x) == inode[e].blk[x]
             new(e, x) == dinode[e].blk[x]
  <2>1. IsInjective(free)
    BY <1>2 DEF Apart
  <2>2. /\ \A g, h \in File, k, l \in FileBlk :
             old(g, k) # NoBlk /\ old(g, k) = old(h, l) => g = h /\ k = l
        /\ \A g \in File, k \in FileBlk, n \in DOMAIN free : old(g, k) # free[n]
    BY <1>2 DEF Apart
  <2>3. \A g \in File, k \in FileBlk : new(g, k) = NoBlk \/ new(g, k) = old(g, k)
    BY <1>3
  <2>4. \A n \in DOMAIN free : free[n] # NoBlk
    BY ContentAssumption DEF IInv
  <2> HIDE DEF old, new
  <2>5. \A g, h \in File, k, l \in FileBlk :
          new(g, k) # NoBlk /\ new(g, k) = new(h, l) => g = h /\ k = l
    BY <2>2, <2>3
  <2>6. \A g \in File, k \in FileBlk, n \in DOMAIN free : new(g, k) # free[n]
    BY <2>2, <2>3, <2>4
  <2> QED BY <2>1, <2>5, <2>6 DEF Apart, new
<1>5. \A g \in File : Under(dinode[g], dinode[g])
  BY DEF Under
<1>6. ASSUME NEW g \in File
      PROVE  /\ dinode[g] \in INodeType
             /\ \A k, l \in FileBlk : dinode[g].blk[k] # NoBlk
                  /\ dinode[g].blk[k] = dinode[g].blk[l] => k = l
  BY <1>2, <1>4 DEF Apart
<1>7. data' \in DataType
  <2>1. Zeros \in [Offset -> Byte]
    BY ContentAssumption DEF Zeros
  <2> QED BY <1>1, <1>2, <2>1 DEF DataType
<1>8. IInv'
  BY <1>1, <1>2, <1>4, <1>5, <1>7 DEF IInv
<1>9. \A g \in File : /\ Bytes(inode[g])' = Image(dinode[g], data')
                      /\ Bytes(dinode[g])' = Image(dinode[g], data')
                      /\ Bytes(dinode[g]) = Image(dinode[g], data)
  BY <1>1, Contents
<1> DEFINE before == [g \in File |-> Bytes(dinode[g])]
           after  == [g \in File |-> Image(dinode[g], data')]
<1>10. \/ after = before
       \/ /\ free = <<>>
          /\ \E f \in File, k \in 0 .. MaxBlks - 1 :
               after = [before EXCEPT ![f] = Files!Cleared(before[f], k)]
  <2>1. CASE free # <<>>
    BY <1>1, <1>9, <2>1
  <2>2. CASE free = <<>> /\ \A g \in File, k \in FileBlk :
               dinode[g].blk[k] # NoBlk => dinode[g].blk[k] # taken
    <3>1. \A g \in File : Image(dinode[g], data') = Image(dinode[g], data)
      BY <1>1, <1>2, <1>6, <2>2, ClearedBlk
    <3> QED BY <1>9, <3>1
  <2>3. ASSUME free = <<>>, NEW f \in File, NEW k \in FileBlk,
               dinode[f].blk[k] # NoBlk, dinode[f].blk[k] = taken
        PROVE  after = [before EXCEPT ![f] = Files!Cleared(before[f], k)]
    <3>0. data' = [data EXCEPT ![taken] = Zeros] /\ dinode[f] \in INodeType
      BY <1>1, <1>6, <2>3
    <3>1. Image(dinode[f], data') = Files!Cleared(Image(dinode[f], data), k)
      BY <1>2, <1>6, <2>3, <3>0, ClearedBlk
    <3>2. ASSUME NEW g \in File \ {f} PROVE Image(dinode[g], data') = Image(dinode[g], data)
      <4>1. \A l \in FileBlk : dinode[g].blk[l] # NoBlk => dinode[g].blk[l] # taken
        BY <1>4, <2>3 DEF Apart
      <4>2. data' = [data EXCEPT ![taken] = Zeros]
        BY <1>1, <2>3
      <4> QED BY <1>2, <1>6, <4>1, <4>2, ClearedBlk
    <3> QED BY <1>9, <3>1, <3>2
  <2> QED BY <2>1, <2>2, <2>3 DEF FileBlk
<1>11. /\ [g \in File |-> Bytes(dinode[g])]' = after
       /\ [g \in File |-> Bytes(inode[g])]' = after
  BY <1>9
<1> HIDE DEF after
<1>12. Files!Remount
  BY <1>10, <1>11 DEF Files!Remount
<1> QED BY <1>8, <1>12

-----------------------------------------------------------------------------
(* The theorems.                                                             *)

LEMMA InitIInv == Init => IInv
<1> SUFFICES ASSUME Init PROVE IInv
  OBVIOUS
<1>1. free \in Seq(Block) /\ IsInjective(free) /\ taken = NoBlk
  BY ContentAssumption DEF Init
<1>2. EmptyINode \in INodeType /\ \A k \in FileBlk : EmptyINode.blk[k] = NoBlk
  <2>1. 0 \in 0 .. MaxBlks * BlkSize
    BY Sizes
  <2> QED BY <2>1 DEF EmptyINode, INodeType
<1>3. /\ inode = [f \in File |-> EmptyINode] /\ dinode = inode
      /\ \A f \in File : inode[f] = EmptyINode /\ dinode[f] = EmptyINode
  BY DEF Init
<1>4. inode \in [File -> INodeType] /\ dinode \in [File -> INodeType]
  BY <1>2, <1>3
<1>5. data \in DataType
  BY DEF Init, DataType
<1>6. Apart(inode, free)
  <2>1. \A f \in File, k \in FileBlk : inode[f].blk[k] = NoBlk
    BY <1>2, <1>3
  <2>2. \A n \in DOMAIN free : free[n] # NoBlk
    BY <1>1, ContentAssumption
  <2> QED BY <1>1, <2>1, <2>2 DEF Apart
<1>7. \A f \in File : Under(dinode[f], inode[f])
  BY <1>3 DEF Under
<1> QED BY <1>1, <1>4, <1>5, <1>6, <1>7 DEF IInv

LEMMA InitFiles == Init => Files!Init
<1> SUFFICES ASSUME Init PROVE Files!Init
  OBVIOUS
<1>1. \A f \in File : Bytes(inode[f]) = <<>> /\ Bytes(dinode[f]) = <<>>
  BY DEF Init, EmptyINode, Bytes
<1>2. (free = <<>>) \in BOOLEAN
  OBVIOUS
<1> QED BY <1>1, <1>2 DEF Files!Init

\* Each step keeps the invariant, and is one of ByteFile.
LEMMA StepIInv == IInv /\ [Next]_vars => IInv' /\ [Files!Next]_(Files!vars)
<1> SUFFICES ASSUME IInv, [Next]_vars PROVE IInv' /\ [Files!Next]_(Files!vars)
  OBVIOUS
<1>1. ASSUME NEW f \in File, NEW w \in Writes, Write(f, w[1], w[2])
      PROVE  IInv' /\ Files!Next
  <2>1. w[1] \in Nat /\ w[2] \in Buffer /\ w[1] + Len(w[2]) <= MaxBlks * BlkSize
    BY ContentAssumption DEF Buffer
  <2>2. IInv' /\ Files!Write(f, w[1], w[2])
    BY <1>1, <2>1, WriteStep
  <2> QED BY <2>2 DEF Files!Next
<1>2. ASSUME NEW f \in File, NEW length \in Lengths, Truncate(f, length)
      PROVE  IInv' /\ Files!Next
  <2>1. length \in 0 .. MaxBlks * BlkSize
    BY ContentAssumption
  <2>2. IInv' /\ Files!Truncate(f, length)
    BY <1>2, <2>1, TruncateStep
  <2> QED BY <2>2 DEF Files!Next
<1>3. ASSUME NEW f \in File, Unlink(f) PROVE IInv' /\ Files!Next
  BY <1>3, UnlinkStep DEF Files!Next
<1>4. ASSUME NEW f \in File, Read(f) PROVE IInv' /\ Files!Next
  BY <1>4, ReadStep DEF Files!Next
<1>5. ASSUME Remount PROVE IInv' /\ Files!Next
  BY <1>5, RemountStep DEF Files!Next
<1>6. ASSUME UNCHANGED vars PROVE IInv' /\ UNCHANGED Files!vars
  <2>1. /\ free' = free /\ taken' = taken /\ inode' = inode
        /\ dinode' = dinode /\ data' = data
    BY <1>6 DEF vars
  <2>2. IInv'
    BY <2>1 DEF IInv
  <2>3. \A g \in File : Bytes(inode[g])' = Bytes(inode[g]) /\ Bytes(dinode[g])' = Bytes(dinode[g])
    BY <2>1, Contents
  <2>4. (free = <<>>)' = (free = <<>>)
    BY <2>1
  <2> QED BY <2>2, <2>3, <2>4 DEF Files!vars
<1> QED BY <1>1, <1>2, <1>3, <1>4, <1>5, <1>6 DEF Next

\* Nothing but blocks comes onto the free list.
THEOREM TypeCorrect == Spec => []TypeOK
<1>1. Init => IInv
  BY InitIInv
<1>2. IInv /\ [Next]_vars => IInv'
  BY StepIInv
<1> QED BY <1>1, <1>2, InvType, PTL DEF Spec

\* A read of readINodeData returns the bytes of the file from its offset on,
\* as many as asked for and there are, with zeros for holes.
THEOREM Reads == Spec => []ReadsContent
<1>1. Init => IInv
  BY InitIInv
<1>2. IInv /\ [Next]_vars => IInv'
  BY StepIInv
<1> QED BY <1>1, <1>2, InvReads, PTL DEF Spec

\* The files are those of ByteFile: a write, a cut or an unlink shows in one
\* file and in the bytes it names, and what a call that succeeds did is there
\* after a remount, but for one block of one file if the disk is full.
THEOREM IsByteFile == Spec => ImplementsByteFile
<1>1. Init => IInv /\ Files!Init
  BY InitIInv, InitFiles
<1>2. IInv /\ [Next]_vars => IInv' /\ [Files!Next]_(Files!vars)
  BY StepIInv
<1> QED BY <1>1, <1>2, PTL DEF Spec, ImplementsByteFile, Files!Spec
=============================================================================
