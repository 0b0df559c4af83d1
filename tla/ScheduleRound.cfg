SPECIFICATION Spec
CONSTANTS
  None = None
  Fleet = 3
  RoundSize = 3
  Slots = 3
  Tier <- MCTier
  Model <- MCModel
  Price <- MCPrice
  Indexes <- MCIndexes
  Distance <- MCDistance
  LabelMax = 9
  Profiles <- MCProfiles
  States <- MCStates
  Configs <- MCConfigs
  ConstantTPOT <- MCConstantTPOT
  CurveTPOT <- MCCurveTPOT
  Booster <- MCBooster
  PrefillLine <- MCPrefillLine
INVARIANTS NeverRefused BudgetHolds GateAcceptsEveryRound
PROPERTIES NoBetterCandidate ShorterTwinWins
CHECK_DEADLOCK FALSE
