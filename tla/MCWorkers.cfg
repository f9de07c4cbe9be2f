SPECIFICATION FairSpec
CONSTANTS
  Runs = {r1, r2}
  Cap <- Cap_
  LogCap = 1
  Timed <- Timed_
  Faulty = {r1}
  FramesMax = 1
  UploadsMax = 1
INVARIANTS
  NothingLeftBehind
PROPERTIES
  LocalRunsAreArchived
  ShutdownEnds
CHECK_DEADLOCK FALSE
