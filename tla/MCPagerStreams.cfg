SPECIFICATION FairSpec
CONSTANTS
  MaxStreams = 2
  MaxTabs = 2
  MaxKeys = 6
  MaxHistory = 2
INVARIANTS
  Fed
  Whole
  OwnScrollback
  ParkedOwned
PROPERTIES
  SnapshotIsTheAskers
  LoadsEnd
CHECK_DEADLOCK FALSE
