SPECIFICATION Spec
CONSTANTS
    User = {u1}
    PeerId = {p1, p2}
    Handler = {h1, h2}
    NoPeer = NoPeer
    UploadFactor = {100}
    DownloadFactor = {50}
    MaxTraffic = 2
    MaxRestarts = 1
    MaxAnnounces = 3
SYMMETRY Symmetry
INVARIANTS
    TypeOK
    UserLedgerFollows
    TorrentLedgerFollows
    CreditIsEarned
    HistoryShowsActive
CHECK_DEADLOCK FALSE
