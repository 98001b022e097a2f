CONSTANTS
    Members <- MCMembers
    NewNames <- MCNewNames
    Ops = {o1}
    NoFile = NoFile
    MaxSaves = 2
    MaxWrites = 2
    MaxOpens = 1
SPECIFICATION FairSpec
INVARIANTS
    EditsSurvive
    LocatorsValid
PROPERTIES
    JournalLands
    WriteReturns
CHECK_DEADLOCK FALSE
