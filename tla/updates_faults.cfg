CONSTANTS
  Channels = {}
  Common = common
  Ids = {1, 2, 3, 4, 5, 6, 7}
  NoReq = 0
  Counts = {1}
  Stored = {1}
  MaxCommon = 3
  MaxChannel = 1
  KnownChats = TRUE
  MaxSeq = 0
  MaxStale = 1
  MaxPending = 1
  MaxChannelPolls = 1
  Faults = {"rename", "affected", "flood", "decode", "timestamp"}
  Chats <- MCChats
  MaxPts <- MCMaxPts
SPECIFICATION Spec
INVARIANTS
  NeverAhead
PROPERTIES
  FeedIsImplemented
CHECK_DEADLOCK FALSE
