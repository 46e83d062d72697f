SPECIFICATION Spec
CONSTANTS
    User = {u1, u2}
    Passkey = {k1, k2, k3}
    Call = {c1, c2}
    Handler = {h1}
    NoUser = NoUser
    NoPasskey = NoPasskey
    Malformed = Malformed
    MaxCalls = 5
SYMMETRY Symmetry
INVARIANTS
    TypeOK
    StoresFollowSite
    RatesSurvive
CHECK_DEADLOCK FALSE
