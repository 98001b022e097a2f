SPECIFICATION Spec
CONSTANTS
    Active = 1
    Quiet = 1
    Window = 1
    Ttl = 2
    WaitTtl = 2
    PendingLimit = 1
    Calls = {c1, c2}
    Kinds = {"claude", "codex", "agy"}
    Tells = {"blocked", "waiting"}
    Views = {"away", "driven"}
    MaxSends = 3
    MaxKeys = 1
    MaxQueue = 2
SYMMETRY CallSymmetry
INVARIANTS
    NeverStale
    PendingShown
    QuestionsStay
    AsksRung
    DoneShown
CHECK_DEADLOCK FALSE
