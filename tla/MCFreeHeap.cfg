SPECIFICATION Spec
CONSTANTS
  USIZE_BITS = 16
  Pow2 <- MCPow2
  MemoryMaps <- MCMemoryMaps
  Layouts <- MCLayouts
INVARIANT FreeHeapServes
