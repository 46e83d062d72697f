SPECIFICATION Spec
CONSTANTS
    Torrent = {t1}
    User = {u1}
    PeerId = {p1}
    Handler = {h1, h2}
    ApiCall = {a1}
    NoPeer = NoPeer
    Absent = Absent
    Slots = 1
    MaxPeers = 1
    ActiveTtl = 1
    InactiveTtl = 2
    Connectable = {TRUE}
    ApiCount = {1}
    Require = FALSE
    MaxAnnounces = 3
    MaxReloads = 0
    MaxApiCalls = 0
INVARIANTS
    UserCountsMatch
CHECK_DEADLOCK FALSE
