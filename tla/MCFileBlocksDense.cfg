CONSTANTS
  File = {f1, f2}
  Block = {1, 2, 3, 4, 5, 6, 7, 8, 9, 10, 11, 12, 13, 14, 15, 16, 17, 18, 19, 20, 21, 22, 23, 24, 25, 26, 27, 28}
  NoBlk = 0
  FreeOrders <- Ascending
  NDirect = 1
  Entries = 2
  BlkSize = 2
  Writes <- DenseWrites
  Lengths <- DenseLengths
SPECIFICATION Spec
INVARIANTS SizeCoversBlocks NoLeak
CONSTRAINT Dense
VIEW Shape
