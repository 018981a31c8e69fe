SPECIFICATION Spec
CONSTANTS
  a = a
  b = b
  INode = {i1, i2, root}
  Root = root
  Zero = zero
  Name = {a, b}
  Path <- MovedPath
  Bin <- OwnBin
  MaxSlots = 2
  MaxOpens = 2
CONSTRAINT OneOddity
INVARIANTS OpenCountsMatch
CHECK_DEADLOCK FALSE
