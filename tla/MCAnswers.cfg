CONSTANTS
    Handler = {h1, h2}
    Ttl = 2
    Check = {TRUE, FALSE}
    Require = TRUE
    SeedLimits <- MCSeedLimits
    LeechLimits <- MCLeechLimits
    MostHalvings = 2
    MostPeers = 1
    MaxTime = 2
    MaxAnnounces = 4
SPECIFICATION Spec
INVARIANTS TypeOK RateFollowsRequests GrantsNearLimit ProbesBounded
PROPERTIES VerdictFollowsProbe
SYMMETRY Symmetry
CHECK_DEADLOCK FALSE
