SPECIFICATION FairSpec
CONSTANTS
  main = main
  writer = writer
  ws = ws
  join = join
  rec = rec
  NoMsg = NoMsg
  GameThread = main
  WsThread = ws
  Threads <- MCThreads
  Msgs = {join, rec}
  Saver <- MCSaver
  TableOf <- MCTableOf
  TypeOf <- MCTypeOf
  TextOf <- MCTextOf
  DbMayFail = TRUE
  QueueCap = 1
  RetriesMax = 0
  TroublesMax = 1
INVARIANTS
  TypeOK
  FreshId
  SameIdEverywhere
  KeptUntilAnswered
  AnswersHitTheirMessage
PROPERTY
  KeepsPromise RecordsArrive
