CONSTANTS
    TopLevel <- MCTopLevel
    Nested <- MCNested
    OuterOf <- MCOuterOf
    Columns = {"l", "r"}
    Edited = {"a"}
    MayStick = {"a"}
    Outside = "outside"
    MaxMounts = 2
    MaxReads = 1
    MaxWrites = 1
SPECIFICATION Spec
INVARIANTS
    JoinersServed
    FreshUnlessLeft
    WrittenStays
PROPERTIES
    EvictionSpares
    CleanSpares
CHECK_DEADLOCK FALSE
