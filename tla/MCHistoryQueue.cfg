SPECIFICATION Spec
CONSTANTS
    Key = {1}
    LastTime = 3
    MaxUpdates = 3
    MaxBatches = 1
    MaxBatchSize = 1
    MaxFlushes = 1
    None = None
    Update <- HistoryUpdate
    Row <- HistoryRow
    NoRow <- NoHistoryRow
    Merge <- MergeHistory
    Apply <- ApplyHistory
    Fresh <- FreshHistory
    ReapUpdates = FALSE
    AmbiguousErrors = FALSE
PROPERTIES
    CompletionIsKept
CHECK_DEADLOCK FALSE
