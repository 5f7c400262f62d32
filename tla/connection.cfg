CONSTANTS
  DCs = {1, 2}
  DefaultDc = 2
  NoDc = 0
  MaxStep = 3
  MaxBad = 3
  MaxKeys = 3
SPECIFICATION FairSpec
INVARIANTS
  NeverStranded
  StoppedStaysStopped
  ClientAgrees
  SessionIsUsable
  SignedInIsStored
PROPERTIES
  BackoffCounts
  Reconnects
  StartSetsBack
