SPECIFICATION FairSpec
CONSTANTS
    Active = 1
    Quiet = 2
    Window = 1
    Ttl = 2
    WaitTtl = 2
    PendingLimit = 1
    Calls = {c1}
    Kinds = {"codex", "agy"}
    Tells = {"working"}
    Views = {"driven"}
    MaxSends = 2
    MaxKeys = 1
    MaxQueue = 1
PROPERTIES
    FormsShown
CHECK_DEADLOCK FALSE
