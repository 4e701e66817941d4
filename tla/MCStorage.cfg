SPECIFICATION StoreSpec
CONSTANTS
    k1 = k1
    k2 = k2
    b1 = b1
    b2 = b2
    r1 = r1
    Null = Null
    Keys = {k1, k2}
    Bytes = {b1, b2}
    Readers = {r1}
    MaxPuts = 3
    MaxFailures = 1
SYMMETRY MCSymmetry
INVARIANTS
    LatestIsFound
\* Nothing is left to do when the objects are migrated.
CHECK_DEADLOCK FALSE
