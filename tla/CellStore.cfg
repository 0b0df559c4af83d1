SPECIFICATION Spec
CONSTANTS
  c1 = c1
  c2 = c2
  c3 = c3
  None = None
  Cells <- MCCells
  Accounted <- MCAccounted
  MaxRuns = 3
  MaxInvalid = 1
  MaxCode = 2
SYMMETRY Symmetry
INVARIANTS OneLiveRun SuccessIsWhole
PROPERTIES MirrorNeverMixes
CHECK_DEADLOCK FALSE
