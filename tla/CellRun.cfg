SPECIFICATION Spec
CONSTANTS
  e1 = e1
  e2 = e2
  r1 = r1
  r2 = r2
  None = None
  Engines <- MCEngines
  Requests <- MCRequests
  Warmups = 2
  MaxFaults = 2
SYMMETRY Symmetry
INVARIANTS ValidIsIsolated ValidIsOneSystem UndisturbedIsValid
CHECK_DEADLOCK FALSE
