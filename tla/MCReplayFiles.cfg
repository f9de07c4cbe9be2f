SPECIFICATION FilesSpec
CONSTANTS
  Names <- TidyNames
  Limit = 100
  Max = 2
  Triggers = {TRUE, FALSE}
  Game = game
  Ws = ws
CHECK_DEADLOCK FALSE
INVARIANT PruneKeepsTheBest
INVARIANT FolderIsBounded
