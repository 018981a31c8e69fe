CONSTANTS
  NDBlks = 4
  CacheSize = 2
  Contents <- MCContents
SPECIFICATION CrashSpec
INVARIANTS CrashKeepsListSound CrashLosesOnlyFrees
CHECK_DEADLOCK FALSE
