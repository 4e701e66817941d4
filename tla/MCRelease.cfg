SPECIFICATION Spec
CONSTANTS
    r1 = r1
    r2 = r2
    k1 = k1
    k2 = k2
    k0 = k0
    None = None
    Runs = {r1, r2}
    Keys = {k1, k2}
    LegacyKey = k0
    MaxCode = 2
    MaxVersions = 5
    MaxFaults = 2
SYMMETRY MCSymmetry
INVARIANTS
    TypeOK
    LeavesOrder
PROPERTIES
    KeepsCredentialsReadable
\* The runs come to an end.
CHECK_DEADLOCK FALSE
