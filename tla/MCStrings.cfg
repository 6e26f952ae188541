SPECIFICATION StringSpec
CONSTANTS
  Size <- MCSize
  LongHalf = 64
  Pointers <- MCPointers
  Counts <- MCCounts
  Chars <- MCChars
  Bases <- MCBases
  Memories <- MCMemories
INVARIANTS
  MemoryMoved
  StringsAgree
CHECK_DEADLOCK FALSE
