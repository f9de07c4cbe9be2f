SPECIFICATION Spec
CONSTANTS
  main = main
  ws = ws
  r1 = r1
  a1 = a1
  a2 = a2
  b1 = b1
  NoMsg = NoMsg
  NoUid = NoUid
  GameThread = main
  WsThread = ws
  Threads <- MCThreads
  Msgs = {a1, b1}
  Uids <- MCUids
  Saver <- MCSaver
  TableOf <- MCTableOf
  TypeOf <- MCTypeOf
  TextOf <- MCTextOf
  RetriesMax = 0
  DbMayFail = FALSE
  UploadQueueCap = 1
  TasksMayDrop = FALSE
  FaultsMax = 0
  SendsMax = 1
  LossesMax = 0
  CrashesMax = 0
PROPERTY
  RejectedUploadIsRetried
