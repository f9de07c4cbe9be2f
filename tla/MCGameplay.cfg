SPECIFICATION Spec
CONSTANTS
  NoName = ""
  Players = {1}
  Maps <- MCMaps
  Entities <- MCEntities
  Places <- MCPlaces
  ZeroVector = "zero"
  Under <- MCUnder
  Air = air
  Ladder = ladder
  Nowhere = nowhere
  Moving <- MCMoving
  LowPlaces = {"low"}
  Functions = {"checkpoint", "gocheck"}
  Exported = {"checkpoint", "gocheck"}
  KZ_MAX_CHECKPOINT_CACHE = 2
  Short = 1
  Long = 2
  MaxLag = 1
  MaxTime = 4
  MaxCheckpoints = 2
  MaxTeleports = 1
CHECK_DEADLOCK FALSE
INVARIANT TypeOK
INVARIANT OnlyOverlookedAreSkipped
INVARIANT RestIsBounded
PROPERTY ThrowsOffTheBlocks
PROPERTY CheckpointsOffBlocks
PROPERTY GocheckGoesToLatest
