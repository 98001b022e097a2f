CONSTANTS
    a = a
    b = b
    e = e
    Owners <- MCOwners
    Editors <- MCEditors
    Projects <- MCProjects
    Overlap <- MCOverlap
    MaxCalls = 4
SPECIFICATION FairSpec
INVARIANTS
    OwnersOpen
    Exclusive
    ParkedAreBlocked
PROPERTIES
    WaitsEnd
CHECK_DEADLOCK FALSE
