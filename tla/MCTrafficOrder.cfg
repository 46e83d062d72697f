SPECIFICATION Spec
CONSTANTS
    User = {u1}
    PeerId = {p1}
    Handler = {h1, h2}
    NoPeer = NoPeer
    UploadFactor = {100}
    DownloadFactor = {100}
    MaxTraffic = 2
    MaxRestarts = 0
    MaxAnnounces = 4
SYMMETRY Symmetry
INVARIANTS
    CreditNeverExceedsTraffic
CHECK_DEADLOCK FALSE
