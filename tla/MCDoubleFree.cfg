SPECIFICATION SpecDoubleFree
CONSTANTS
  Pages <- MCPages
  NULL = NULL
  RefMod = 4
  InitialFreeList <- MCInitialFreeList
INVARIANT DoubleFreeIsCaught
CHECK_DEADLOCK FALSE
