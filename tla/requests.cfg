CONSTANTS
  Reqs = {r1, r2}
  Proofs = {r2}
  CheckReq = check
  None = none
  Ring = 2
  MaxIds = 2
  TooMany = 2
  MaxFaults = 2
  Refusals = {"flood", "bad", "migrate"}
SPECIFICATION FairSpec
INVARIANTS
  AtMostOnce
  HeldUntilSent
  RepliesFindTheirIssuer
  ProofHeldOnlyRenamed
PROPERTIES
  RefusedIsRetried
CHECK_DEADLOCK FALSE
