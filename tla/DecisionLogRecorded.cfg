SPECIFICATION Spec
CONSTANTS
  MaxLines = 4
CHECK_DEADLOCK FALSE
INVARIANTS
  FailuresAreRecorded
