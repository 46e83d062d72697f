SPECIFICATION RecoverySpec
CONSTANTS
    User = {u1}
    PeerId = {p1}
    Handler = {h1}
    NoPeer = NoPeer
    UploadFactor = {200}
    DownloadFactor = {0}
    MaxTraffic = 2
    MaxRestarts = 1
    MaxAnnounces = 3
    MaxCrashes = 1
INVARIANTS
    CrashRepeatsOnlyUnwritten
CHECK_DEADLOCK FALSE
