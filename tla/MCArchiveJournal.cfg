CONSTANTS
    Names = {"a", "d", "e", "x"}
    Indexes <- MCIndexes
    Paths <- MCPaths
    MaxDepth = 3
    MaxChanges = 4
    MaxCopies = 2
SPECIFICATION JournalSpec
INVARIANTS
    PlanIsTree
    RowsResolve
    ShownIsPlanned
CHECK_DEADLOCK FALSE
