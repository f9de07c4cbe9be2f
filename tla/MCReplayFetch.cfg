SPECIFICATION FairSpec
CONSTANTS
  Maps = {m1, m2}
  NoMap = NoMap
  Holdings = {{"pro", "nub"}}
  Stocks = {{}, {"pro", "nub"}}
  RetriesMax = 2
  IncomingCap = 2
  OrdersMax = 2
  TroublesMax = 2
INVARIANTS
  TypeOK
  PendingHasCause
  InfoIsComing
PROPERTY
  WrReplayArrives
CHECK_DEADLOCK FALSE
