CONSTANTS
  MaxSubmits = 1
  MaxOpens = 1
  MaxBlips = 0
  MaxRenames = 0
SPECIFICATION FairSpec
PROPERTIES
  NoProofAfterLeft
CHECK_DEADLOCK FALSE
