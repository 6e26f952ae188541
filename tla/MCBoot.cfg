SPECIFICATION Spec
CONSTANTS
  SECTSIZE = 2
  HeaderSectors = 2
  ELFHDR = 8
  Megabyte = 16
  MemSize = 64
  start = 4
  PGSIZE = 4
  NPTENTRIES = 16
  KERNBASE = 192
  Images <- MCImages
INVARIANTS
  KernelLoaded
  EntryMapped
PROPERTY
  BootEnds
CHECK_DEADLOCK FALSE
