SPECIFICATION Spec
CHECK_DEADLOCK FALSE
CONSTANTS
  Programs <- MCPrograms
  ErrorCodes <- MCErrorCodes
  MaxNesting = 2
INVARIANT InfoOfFault
