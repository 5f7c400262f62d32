CONSTANTS
  Channels = {c1}
  Common = common
  Ids = {1, 2, 3, 4, 5}
  NoReq = 0
  Counts = {1}
  Stored = {0, 1}
  MaxCommon = 3
  MaxChannel = 3
  KnownChats = TRUE
  MaxSeq = 0
  MaxStale = 0
  MaxPending = 1
  MaxChannelPolls = 1
  Faults = {"disconnect"}
  Chats <- MCChats
  MaxPts <- MCMaxPts
SPECIFICATION FairSpec
PROPERTIES
  DifferenceCatchesUp
  ParkedIsReleased
  ChannelCatchesUp
