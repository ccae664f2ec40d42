SPECIFICATION Spec
CHECK_DEADLOCK FALSE
CONSTANTS
  HALF_RADIX = 2
  FIRMWARE_CS = 56
  Machines <- MCMachines
  MIN_END = 2
  TABLE_BLOCKS = 3
  Comparisons = {TRUE, FALSE}
INVARIANTS
  ResetOnlyInWindow
  HandledByItsOwn
  NoOtherReason
 
