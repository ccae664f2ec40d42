SPECIFICATION SerialSpec
CHECK_DEADLOCK FALSE
CONSTANTS
  Ports = {"com1", "com2"}
  COM1 = "com1"
  BYTES = 8
  Program <- MCProgram
  Report <- MCReport
  MaxExceptions = 2
INVARIANTS
  OutputInOrder
PROPERTY MachineStops
