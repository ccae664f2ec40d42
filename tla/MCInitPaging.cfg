SPECIFICATION Spec
CHECK_DEADLOCK FALSE
CONSTANTS
  ENTRIES = 3
  MIN_END = 16384
  Calls <- MCCalls
  OtherCalls <- MCOtherCalls
  OtherOrders <- MCOtherOrders
  HeapOrders <- MCHeapOrders
  MemoryMaps <- MCMemoryMaps
INVARIANTS
  TypeOK
  TableTree
  WalkOnPath
  SwitchKeepsMemory
PROPERTY
  MapsAsAsked
