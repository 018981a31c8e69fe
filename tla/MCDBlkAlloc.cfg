CONSTANTS
  NDBlks = 5
  CacheSize = 2
  Contents <- MCContents
SPECIFICATION Spec
INVARIANTS TypeOK ChainInv
PROPERTIES AllocFresh AllocatorKeepsClientData ImplementsFreeStack
