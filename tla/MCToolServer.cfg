SPECIFICATION Spec
CONSTANTS
  Calls = {k1, k2}
  Conns = {c1}
  Keys = {good, bad}
  ApiKey = good
  NoKey = NoKey
  RequestsPerMinute = 2
  WindowSeconds = 1
  FailureThreshold = 2
  ResetTimeout = 1
  MaxTries = 3
  MaxNow = 2
  MaxTaken = 3
INVARIANTS CleanStream NothingOutlives
PROPERTIES Admits NobodyHangs
CHECK_DEADLOCK FALSE
