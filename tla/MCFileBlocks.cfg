CONSTANTS
  File = {f1, f2}
  Block = {b1, b2, b3, b4, b5}
  NoBlk = NoBlk
  FreeOrders <- AnyOrder
  NDirect = 1
  Entries = 2
  BlkSize = 2
  Writes <- MixedWrites
  Lengths <- MixedLengths
SPECIFICATION Spec
VIEW LastTaken
SYMMETRY Symmetry
INVARIANTS TypeOK NoAliasing WipedOnlyIfFailed
PROPERTIES ShrinkExact MappingKept
CHECK_DEADLOCK FALSE
