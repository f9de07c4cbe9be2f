SPECIFICATION Spec
CONSTANTS
  Maps = {"kz_a", "kz_b"}
  QueueCap = 2
  RetriesMax = 1
  AsksMax = 3
  ChangesMax = 1
INVARIANT
  HandlersGetTheirMap
CHECK_DEADLOCK FALSE
