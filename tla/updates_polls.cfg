CONSTANTS
  Channels = {c1, c2}
  Common = common
  Ids = {1, 2, 3, 4}
  NoReq = 0
  Counts = {1}
  Stored = {1}
  MaxCommon = 1
  MaxChannel = 3
  KnownChats = FALSE
  MaxSeq = 0
  MaxStale = 0
  MaxPending = 1
  MaxChannelPolls = 1
  Faults = {"disconnect", "rpc", "private", "rename", "carried"}
  Chats <- MCChats
  MaxPts <- MCMaxPts
SPECIFICATION Spec
INVARIANTS
  Continuity
  PollDiscipline
  SlotsAreAnswerable
SYMMETRY ChannelSymmetry
