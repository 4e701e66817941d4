SPECIFICATION FairSpec
CONSTANTS
    Uploads = {u1}
    Mails = {e1}
    Legacy = {l1}
    Requests = {q1, q2}
    a = a
    u1 = u1
    e1 = e1
    q1 = q1
    q2 = q2
    Source <- MCSource
    b = b
    Contents = {a, b}
    Digest <- MCDigest
    Body <- MCBody
    Impatient = FALSE
    CrashBeforeLink = FALSE
    MaxFaults = 1
INVARIANTS
    TypeOK
    
PROPERTY UnreferencedFilesGo
CHECK_DEADLOCK FALSE
