SPECIFICATION Spec
CONSTANTS
    own = own
    shared = shared
    r1 = r1
    r2 = r2
    None = None
    Deleted = Deleted
    Blank = Blank
    Other = Other
    Messages = {1, 2}
    Created <- MCCreated
    Mailboxes = {own, shared}
    Owned = {own}
    To <- MCTo
    Views <- MCViews
    PageSize = 1
    Resources <- MCResources
    Ids = {r1, r2}
    First = r1
    MaxOthers = 1
    MailClicks = 4
    AdminClicks = 4
INVARIANTS
    TypeOK
    PagesComplete
    

    
\* A behaviour ends when its clicks are used up.
CHECK_DEADLOCK FALSE
