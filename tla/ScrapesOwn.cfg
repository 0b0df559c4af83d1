SPECIFICATION Spec
CONSTANTS
  a = a
  b = b
  f1 = f1
  f2 = f2
  Instances <- MCInstances
  Fetchers <- MCFetchers
  MaxScrapes = 5
SYMMETRY MCSymmetry
CHECK_DEADLOCK FALSE
INVARIANTS
  FetchUsesItsOwnScrape
