CONSTANTS
  Chats = {"user", "supergroup"}
  Batch = 2
  First = 2
  MaxEvents = 5
SPECIFICATION FairSpec
INVARIANTS
  RowsBelong
  NoHole
  ReadWasShown
PROPERTIES
  Settles
CHECK_DEADLOCK FALSE
