SPECIFICATION Spec
CONSTANTS
  ResetEvery = 3
  MaxOutages = 2
PROPERTIES Recovers NoticesOutage
CHECK_DEADLOCK FALSE
