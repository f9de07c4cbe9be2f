SPECIFICATION FairSpec
CONSTANTS
  main = main
  ws = ws
  r1 = r1
  a1 = a1
  a2 = a2
  b1 = b1
  NoMsg = NoMsg
  NoUid = NoUid
  GameThread = main
  WsThread = ws
  Threads <- MCThreads
  Msgs = {a1, a2, b1}
  Uids <- MCUids
  Saver <- MCSaver
  TableOf <- MCTableOf
  TypeOf <- MCTypeOf
  TextOf <- MCTextOf
  RetriesMax = 0
  DbMayFail = FALSE
  UploadQueueCap = 1
  TasksMayDrop = TRUE
  FaultsMax = 1
  SendsMax = 2
  LossesMax = 1
  CrashesMax = 1
INVARIANTS
  NoReplayLost
  ActiveIsOnItsWay
  OneUploadAtATime
PROPERTIES
  UploadsStayInLine
  UploadsArrive
