SPECIFICATION Spec
CONSTANTS
  a = a
  b = b
  INode = {i1, i2, root}
  Root = root
  Zero = zero
  Name = {a, b}
  Path <- MCPath
  Bin <- OneBin
  MaxSlots = 2
  MaxOpens = 3
CONSTRAINT Plain
SYMMETRY Symmetry
INVARIANTS TypeOK OpenFilesAgree NewestINode TableOrCache WrittenThrough
CHECK_DEADLOCK FALSE
