SPECIFICATION Spec
CONSTANTS
  Missing = Missing
  Torn = Torn
  Junk = Junk
  MaxCalls = 5
  MaxDays = 3
  MaxFaults = 3
INVARIANTS AcceptedIsWhole GapsShow IntactVerifies
CHECK_DEADLOCK FALSE
