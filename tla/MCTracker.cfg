SPECIFICATION FairTracker
CONSTANTS
    Torrent = {t1}
    User = {u1}
    PeerId = {p1}
    Handler = {h1, h2}
    ApiCall = {}
    NoPeer = NoPeer
    Absent = Absent
    NoRecord = NoRecord
    Slots = 1
    MaxPeers = 1
    ActiveTtl = 0
    InactiveTtl = 0
    Connectable = {TRUE}
    ApiCount = {}
    Require = TRUE
    MaxAnnounces = 2
    MaxReloads = 0
    MaxApiCalls = 0
    MaxFailures = 1
    MaxCrashes = 1
INVARIANTS
    TrackerTypeOK
    CountersExact
    UsersNeverUndercounted
    TableFollowsCounters
    RowsFollowPeers
ACTION_CONSTRAINT FirstComesFirst
PROPERTIES
    TablesSettle
CHECK_DEADLOCK FALSE
