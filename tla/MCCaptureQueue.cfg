CONSTANTS
    Items <- TwoItems
    Poison = {2}
    MaxItems = 2
    MaxItemsPerTick = 2
    MaxRecords = 2
    MaxBatchRecords = 2
    MaxBatchesPerTick = 2
    MaxRecent = 1
    MaxFailures = 2
    MaxCrashes = 2
SPECIFICATION FairSpec
INVARIANTS
    TypeOK
    NoLoss
    NoResend
    IsolationEnds
PROPERTIES
    ForgetsOnlyWhenFull
    Delivered
