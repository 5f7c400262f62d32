CONSTANTS
  Channels = {c1}
  Common = common
  Ids = {1, 2, 3, 4, 5}
  NoReq = 0
  Counts = {1}
  Stored = {1}
  MaxCommon = 1
  MaxChannel = 3
  KnownChats = FALSE
  MaxSeq = 0
  MaxStale = 1
  MaxPending = 1
  MaxChannelPolls = 1
  Faults = {"disconnect", "restart", "toolong", "rpc", "private", "polldecode", "affected"}
  Chats <- MCChats
  MaxPts <- MCMaxPts
SPECIFICATION Spec
PROPERTIES
  FeedIsImplemented
CHECK_DEADLOCK FALSE
