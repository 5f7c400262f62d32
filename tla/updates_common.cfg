CONSTANTS
  Channels = {}
  Common = common
  Ids = {1, 2, 3, 4}
  NoReq = 0
  Counts = {0, 1}
  Stored = {0, 1}
  MaxCommon = 3
  MaxChannel = 1
  KnownChats = TRUE
  MaxSeq = 2
  MaxStale = 1
  MaxPending = 2
  MaxChannelPolls = 1
  Faults = {"disconnect", "restart", "toolong", "rpc"}
  Chats <- MCChats
  MaxPts <- MCMaxPts
SPECIFICATION Spec
INVARIANTS
  TypeOK
  NothingSkippedSilently
  SavedIsDelivered
  ParkedIsTimed
  ParkedMeansGap
