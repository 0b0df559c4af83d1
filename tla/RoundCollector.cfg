SPECIFICATION FairSpec
CONSTANTS
  MaxRequests = 7
  MaxCancels = 2
  FleetSize = 3
  Adaptive = TRUE
  Fixed = 2
  Small = 1
  Mid = 2
  Large = 4
INVARIANTS RoundFits
PROPERTIES KeepsPromise EveryRequestGetsARound
CHECK_DEADLOCK FALSE
