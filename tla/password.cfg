CONSTANTS
  MaxSubmits = 2
  MaxOpens = 2
  MaxBlips = 1
  MaxRenames = 1
SPECIFICATION FairSpec
INVARIANTS
  FreshProofs
  RetriedOnce
  LeftIsForgotten
PROPERTIES
  SpinnerStops
CHECK_DEADLOCK FALSE
