SPECIFICATION PeerSpec
CONSTANTS
    Key = {1, 2, 3}
    LastTime = 4
    MaxUpdates = 4
    MaxBatches = 2
    MaxBatchSize = 2
    MaxFlushes = 3
    None = None
    Update <- PeerUpdate
    Row <- PeerRow
    NoRow <- NoPeerRow
    Merge <- MergePeer
    Apply <- ApplyPeer
    Fresh <- FreshPeer
    ReapUpdates = FALSE
    AmbiguousErrors = TRUE
INVARIANTS
    CleanExitLosesNothing
CHECK_DEADLOCK FALSE
