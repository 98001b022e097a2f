CONSTANTS
    MaxBytes = 4
    MaxBatches = 2
    Sizes = {1, 5}
    MaxSends = 4
SPECIFICATION FairSpec
INVARIANTS
    CountedBytes
    Bounded
PROPERTIES
    SendReturns
    AcceptedArrives
    OrderedDelivery
CHECK_DEADLOCK FALSE
