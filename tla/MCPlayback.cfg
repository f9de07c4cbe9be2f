SPECIFICATION BotSpec
CONSTANTS
  Files <- Files_
  Maps = {"m1", "m2"}
  ProRanks = {1}
  None = None
  QueueCap = 2
  OrdersMax = 5
INVARIANTS
  BotOnItsMap
  ParsedIsAnnounced
  DeletedIsNotShown
  LastOrderIsShown
CHECK_DEADLOCK FALSE
