SPECIFICATION DraftSpec
CONSTANTS
    m1 = m1
    d1 = d1
    w1 = w1
    c1 = c1
    c2 = c2
    k1 = k1
    x1 = x1
    Messages = {m1}
    Workers = {w1}
    Dispatchers = {d1}
    Deliveries = {x1}
    Keyed = {m1}
    AttemptLimit = 2
    MaxRetries = 1
    MaxFaults = 1
    Overrun = TRUE
    Clients = {c1, c2}
    Keys = {k1}
    Operations = {"send", "schedule", "cancel", "update", "remove"}
    MaxRequests = 2
SYMMETRY Symmetry
INVARIANTS
    DraftTypeOK
PROPERTIES
    NoLostUpdate
    CancelStopsDelivery
    FailedSendChangesNothing
\* The system rests when every request is answered and every job settled.
CHECK_DEADLOCK FALSE
