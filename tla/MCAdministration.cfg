SPECIFICATION Spec
CONSTANTS
    root = root
    u1 = u1
    u2 = u2
    u3 = u3
    m1 = m1
    m2 = m2
    d1 = d1
    c1 = c1
    c2 = c2
    r1 = r1
    k1 = k1
    k2 = k2
    x0 = x0
    x1 = x1
    x2 = x2
    s1 = s1
    s2 = s2
    None = None
    Users = {root, u1, u2, u3}
    Roles = {r1}
    Mailboxes = {m1, m2}
    Domains = {d1}
    DomainOf <- MCDomainOf
    Connections = {c1, c2}
    Secrets = {x0, x1, x2}
    Slots = {s1, s2}
    Keys = {k1, k2}
    Menus <- MCMenus
    Seed <- MCSeed
    MaxUses = 1
    MaxCalls = 4
    MaxFaults = 1
INVARIANTS
    TypeOK
    OnceUndisturbed
    LimitsHold
    UpdatesStick
\* A behaviour ends when its calls are used up.
CHECK_DEADLOCK FALSE
