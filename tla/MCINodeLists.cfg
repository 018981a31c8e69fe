SPECIFICATION Spec
CONSTANTS
  other = i4
  INode = {i1, i2, i3, i4}
  Bin <- MCBin
  Entry = {e1, e2, e3, e4}
  NULL = NULL
SYMMETRY Symmetry
INVARIANT ListsInOrder
PROPERTY RunsOnIntoChain
CHECK_DEADLOCK FALSE
