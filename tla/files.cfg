CONSTANTS
  Downloads = {d1, d2}
  Uploads = {u1}
  Abroad = {d2}
  None = none
  Serials = {1, 2, 3, 4}
  Sizes = {2, 3}
  UploadSize = 3
  MaxFaults = 1
SPECIFICATION FairSpec
INVARIANTS
  DiskIsPrefix
  UploadIsWhole
  ToldOnce
  NeverIdle
PROPERTIES
  TransfersEnd
CHECK_DEADLOCK FALSE
