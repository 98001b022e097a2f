SPECIFICATION Spec
CONSTANTS
  MaxStreams = 1
  MaxTabs = 2
  MaxKeys = 3
  MaxHistory = 1
INVARIANT
  TravelsWithTab
CHECK_DEADLOCK FALSE
