SPECIFICATION ClientFairSpec
CONSTANTS
  IncomingCap = 1
  ClientLogCap = 1
  LinesMax = 2
  CommandsMax = 4
  TroublesMax = 4
INVARIANTS
  ClientTypeOK
  DatabaseFollowsLink
  ConnectedIsConnected
PROPERTIES
  RefusalRespected
  StopEnds
  ConnectionComesBack
CHECK_DEADLOCK FALSE
