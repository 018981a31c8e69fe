CONSTANTS
  NINodes = 2
  NDBlks = 3
  SetNum = 2
  BlkSize = 2
  Byte = {0, 1}
SPECIFICATION Spec
CONSTRAINT TwoSuperBlocks
INVARIANTS Coherent SizeExact
PROPERTIES ImplementsBlockStore
