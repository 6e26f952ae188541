SPECIFICATION MemInitSpec
CONSTANTS
  Machines <- MCMachines
  NULL = NULL
  HEAD = HEAD
  KB = 8
  PGSIZE = 16
  SIZEOF = 2
  IOPHYSMEM = 80
  EXTPHYSMEM = 96
  PTSIZE = 256
  MB16 = 320
  UNIT16 = 2
  KERNBASE = 3584
  ASPACE = 4096
  END = 135
  BOOTSTACK = 96
  KSTKSIZE = 32
INVARIANTS
  NothingLost
  EarlyWritesMapped
  KernelSpace
  UserRights
  HandsOver
PROPERTIES
  StopsOnlyUnbootable
  MemInitEnds
CHECK_DEADLOCK FALSE
