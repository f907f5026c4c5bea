SPECIFICATION PagingSpec
CONSTANTS
  Walks <- InOrder
  Limits = {2}
  Chunk = 1
  Loose = {2}
  Start = 3
  MaxMsg = 5
  MaxMoves = 2
  MaxFailures = 1
INVARIANTS MissesNeedChanges
PROPERTIES WalkEnds
CHECK_DEADLOCK FALSE
