SPECIFICATION Spec
CONSTANTS
  main = main
  writer = writer
  ws = ws
  join = join
  rec = rec
  NoMsg = NoMsg
  GameThread = main
  WsThread = ws
  Threads <- MCThreads
  Msgs = {join, rec}
  Saver <- MCSaver
  TableOf <- MCTableOf
  TypeOf <- MCTypeOf
  TextOf <- MCTextOf
  DbMayFail = FALSE
  QueueCap = 1
  RetriesMax = 0
  TroublesMax = 0
INVARIANT
  PendingRecordsAreStored
