SPECIFICATION Spec
CHECK_DEADLOCK FALSE
CONSTANT Suites <- MCSuites
INVARIANTS
  PassMeansAllRan
  FailureIsSeen
PROPERTY HarnessEnds
