SPECIFICATION Spec
CONSTANTS
  NULL = NULL
  zero = zero
  p1 = p1
  p2 = p2
  p3 = p3
  R = R
  RW = RW
  Pages <- MCPages
  InitialFree <- MCInitialFree
  PAGE0 = zero
  PDXs <- MCPDXs
  PTXs <- MCPTXs
  Perms <- MCPerms
  Writable <- MCWritable
  DataWords <- MCDataWords
  RefMod = 8
SYMMETRY MCSymmetry
INVARIANTS
  PagesSeparate
  TLBCoherent
  CallState
  PpRefCountsMappings
PROPERTIES
  ImplementsAddressSpace
  UsesPageStore
