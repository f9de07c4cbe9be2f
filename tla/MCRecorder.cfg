SPECIFICATION Spec
CONSTANTS
  Nobody = Nobody
  Slots = {s1, s2}
  p1 = p1
  p2 = p2
  p3 = p3
  Players = {p1, p2, p3}
  Banned = {p3}
  RunsMax = 2
  Scenes <- SceneSet
  FrameSize = 3
  MaskBlocks = 2
  BlockBits = 2
  MaxBody = 64
SYMMETRY Symmetry
INVARIANTS
  TypeOK
  OneRunPerReplay
  CountsMatchReplay
CHECK_DEADLOCK FALSE
