SPECIFICATION Spec
CHECK_DEADLOCK FALSE
CONSTANTS
  Programs <- MCPrograms
  ErrorCodes <- MCErrorCodes
  MaxNesting = 2
INVARIANTS
  TypeOK
  InfoOfTrap
  Aligned
  OverwrittenFramesDie
PROPERTY
  Resumed
