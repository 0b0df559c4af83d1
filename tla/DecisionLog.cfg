SPECIFICATION FairSpec
CONSTANTS
  MaxLines = 5
CHECK_DEADLOCK FALSE
INVARIANTS
  BufferedZeroIsComplete
  StoppedHoldsEveryLine
PROPERTIES
  LinesReachTheFile
