SPECIFICATION CrashSpec
CONSTANTS
  a = a
  b = b
  INode = {i1, i2, i3, root}
  Root = root
  Zero = zero
  Name = {a, b}
  Path <- MCPath
  Bin <- OwnBin
  MaxSlots = 2
  MaxOpens = 1
CONSTRAINT Plain
SYMMETRY Symmetry
INVARIANTS Tree Freed CrashImage
PROPERTIES OpenFileStays ImplementsFileTree CrashIsLocal
CHECK_DEADLOCK FALSE
