SPECIFICATION Spec
CONSTANTS
  File = {f1, f2}
  Block = {1, 2, 3}
  NoBlk = NoBlk
  Hole = Hole
  FreeOrders <- Ascending
  BlkSize = 2
  MaxBlks = 3
  Byte = {0, 1, 2}
  Writes <- MCWrites
  Lengths <- MCLengths
VIEW Shape
SYMMETRY Symmetry
INVARIANTS TypeOK ReadsContent
PROPERTY ImplementsByteFile
