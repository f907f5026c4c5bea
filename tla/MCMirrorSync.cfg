SPECIFICATION Spec
CONSTANTS
  Items = {i1, i2}
  Cats = {"a", "b"}
  Tools = {t1}
  PageSize = 1
  SavesFail = TRUE
  MaxChanges = 3
  MaxFaults = 1
  NoRow = NoRow
  NoJob = NoJob
INVARIANTS CoveredIsMirrored GhostsAreInterrupted
PROPERTIES CatchesUp
CHECK_DEADLOCK FALSE
