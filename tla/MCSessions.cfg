SPECIFICATION Spec
CONSTANTS
    Requests = {r1, r2}
    Logins = {k1, k2}
    MaxRotations = 2
    MaxChanges = 2
    MaxFaults = 1
SYMMETRY MCSymmetry
INVARIANTS
    TypeOK
    CookieFollowsSession
    OnlyRacedSessionsOutlive
CHECK_DEADLOCK FALSE
