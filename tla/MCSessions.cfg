CONSTANTS
    MaxProcs = 3
    MaxTabs = 3
    MaxFiles = 2
    MayFail = {1}
    None = None
    Respawned = Respawned
SPECIFICATION Spec
INVARIANTS
    SavedWhenClean
PROPERTIES
    SavedStay
    NeverSplit
CHECK_DEADLOCK FALSE
