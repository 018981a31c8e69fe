CONSTANTS
  NINodes = 6
  CacheSize = 2
  UINTSize = 16
SPECIFICATION Spec
INVARIANTS TypeOK FreeCountExact StackSound
PROPERTIES INodeFresh
