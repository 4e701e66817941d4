SPECIFICATION Spec
CONSTANTS
    g1 = g1
    g2 = g2
    h1 = h1
    h2 = h2
    n1 = n1
    None = None
    Grants = {g1, g2}
    Handlers = {h1, h2}
    Names = {n1}
    MaxRotations = 2
    MaxCalls = 6
    MaxFaults = 2
SYMMETRY MCSymmetry
INVARIANTS
    TypeOK
    SecretsAccountedFor
    StoredTokenWorks
\* A behaviour ends when its calls are used up.
CHECK_DEADLOCK FALSE
