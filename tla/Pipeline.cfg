SPECIFICATION PipelineSpec
CONSTANTS
  r1 = r1
  r2 = r2
  r3 = r3
  None = None
  Requests <- MCRequests
  Tokens <- MCRequests
  Instances <- MCInstances
  Documents <- MCDocuments
  Answers <- MCAnswers
  Estimates <- MCEstimates
  Parts = 2
  RequestTokens = 1
  Samples <- MCSamples
  Tiers <- MCTiers
  Hosts <- MCHosts
  Specs <- MCSpecs
  Pool <- MCPool
  Price <- MCPrice
  ModelOf <- MCModelOf
  One = 2
  Window = 2
  TimeoutSample = 3
  MaxReply = 1
  MaxTokens = 2
  ExtendTokens = 1
SYMMETRY MCSymmetry
CHECK_DEADLOCK FALSE
INVARIANTS
  InFlightExact
  RotationIsEven
  ServedWhole
  RoutesAsStated
PROPERTIES
  KeepsTokenLedger
  
  GateAcceptsEveryPick
