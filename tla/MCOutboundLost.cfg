SPECIFICATION FairSpec
CONSTANTS
    m1 = m1
    w1 = w1
    w2 = w2
    d1 = d1
    x1 = x1
    x2 = x2
    Messages = {m1}
    Workers = {w1, w2}
    Dispatchers = {d1}
    Deliveries = {x1, x2}
    Keyed = {m1}
    AttemptLimit = 2
    MaxRetries = 1
    MaxFaults = 0
    Overrun = FALSE
PROPERTIES
    EveryJobSettles
\* The pipeline comes to rest when every job is settled.
CHECK_DEADLOCK FALSE
