SPECIFICATION Spec
CONSTANTS
  None = None
  Absent = None
  Parts <- MCParts
  Templates <- MCTemplates
  Family <- MCFamily
  Section <- MCSection
  Scopes <- MCScopes
  Pins = {"p"}
  Owner = {"o"}
  Decisions = {"d"}
  Fleets = {"f"}
  MayDecide <- MCMayDecide
  Envs = {"usual", "other threads", "file changed", "override lost", "restarted"}
  Executes <- MCExecutes
  Values <- MCValues
  System <- MCSystem
  Treatment = "routebalance"
  Tolerance = 1
  NoReading = NoReading
  MaxFaults = 1
  MaxRetired = 1
INVARIANTS NextStageIsKept ReportIsSound DriverAgreesWithReport EqualQualityIsFair
 
CHECK_DEADLOCK FALSE
