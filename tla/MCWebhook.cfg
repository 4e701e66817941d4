SPECIFICATION FairSpec
CONSTANTS
    p1 = p1
    ProviderMessages = {p1}
    Events <- MCEvents
    Reports <- MCReports
    Handlers = {h1, h2}
    Reconcilers = {r1}
    MaxFaults = 1
INVARIANTS
    TypeOK
    SoleImporter
    StatusMatchesPosition
PROPERTIES
    ImplementsRegister
    EventuallyAcknowledged
CHECK_DEADLOCK FALSE
