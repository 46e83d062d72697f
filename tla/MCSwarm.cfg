SPECIFICATION Spec
CONSTANTS
    Torrent = {t1}
    User = {u1}
    PeerId = {p1, p2}
    Handler = {h1, h2}
    ApiCall = {a1, a2}
    NoPeer = NoPeer
    Absent = Absent
    Slots = 1
    MaxPeers = 2
    ActiveTtl = 1
    InactiveTtl = 2
    Connectable = {TRUE, FALSE}
    ApiCount = {1}
    Require = TRUE
    MaxAnnounces = 2
    MaxReloads = 1
    MaxApiCalls = 2
SYMMETRY Symmetry
INVARIANTS
    TypeOK
    CountersExact
    UsersNeverUndercounted
    QueueFollowsMemory
PROPERTIES
    DriftNeverGrows
    ErasedOnlyWhenStale
CHECK_DEADLOCK FALSE
