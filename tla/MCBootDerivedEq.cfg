SPECIFICATION Spec
CHECK_DEADLOCK FALSE
CONSTANTS
  PageMaps <- MCPageMaps
  BUFFER_SIZE = 4
  MaxKey = 4
  Comparisons = {TRUE}
INVARIANT LeavesExited
