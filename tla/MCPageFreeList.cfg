SPECIFICATION Spec
CONSTANTS
  Pages <- MCPages
  NULL = NULL
  RefMod = 4
  InitialFreeList <- MCInitialFreeList
INVARIANTS
  ListThreadsFreePages
  FreePagesUnreferenced
  PpRefCountsReferences
PROPERTIES
  ImplementsPageStore
CHECK_DEADLOCK FALSE
