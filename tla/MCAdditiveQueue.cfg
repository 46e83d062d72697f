SPECIFICATION FairSpec
CONSTANTS
    Key = {1, 2, 3}
    UpdateId = {1, 2, 3}
    MaxUpdates = 3
    MaxBatches = 2
    MaxBatchSize = 1
    MaxFlushes = 2
    None = None
    Update <- Counts
    Row <- Counts
    NoRow <- NoCounts
    Merge <- MergeDeltas
    Apply <- ApplyDeltas
    Fresh <- FreshDeltas
    ReapUpdates = TRUE
    AmbiguousErrors = FALSE
INVARIANTS
    TypeOK
    NoRecordStranded
    FlushWithinLimits
    CleanExitLosesOnlyLate
PROPERTIES
    KeepsPromise
    EveryUpdateIsWritten
    ShutdownEnds
CHECK_DEADLOCK FALSE
