SPECIFICATION Spec
CONSTANTS
  USIZE_BITS = 16
  Pow2 <- MCPow2
  MemoryMaps <- MCMemoryMaps
  Layouts <- MCLayouts
INVARIANTS
  TypeOK
  Tiled
  HeldBacked
  NoOverlap
  SplitFits
  FirstFit
PROPERTIES
  KeepsContract
  AllocReturns
