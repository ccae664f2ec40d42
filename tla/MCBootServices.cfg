SPECIFICATION Spec
CHECK_DEADLOCK FALSE
CONSTANTS
  PageMaps <- MCPageMaps
  BUFFER_SIZE = 3
  MaxKey = 4
  Comparisons = {TRUE, FALSE}
INVARIANTS
  TypeOK
  ExitedWithCurrentMap
  HeapIsFree
PROPERTY
  BootEnds
