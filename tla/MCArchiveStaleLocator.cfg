CONSTANTS
    Members <- MCMembers
    NewNames <- MCNewNames
    Ops = {o1}
    NoFile = NoFile
    MaxSaves = 2
    MaxWrites = 1
    MaxOpens = 1
SPECIFICATION Spec
INVARIANTS
    ExtractedIsTheMember
CHECK_DEADLOCK FALSE
