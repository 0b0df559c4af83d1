SPECIFICATION FairSpec
CONSTANTS
  r1 = r1
  r2 = r2
  r3 = r3
  Requests <- MCRequests
  MayGo <- MCMayGo
  MaxRound = 2
  MaxConfigs = 2
  LogDirFails = TRUE
INVARIANTS InFlightExact DecidedOnce LoadsCountEveryPick
PROPERTIES KeepsLedger ServedUnderOneConfig EveryRequestIsAnswered
CHECK_DEADLOCK FALSE
