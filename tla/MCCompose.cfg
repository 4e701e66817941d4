SPECIFICATION ComposeSpec
CONSTANTS
    Null = Null
    t1 = t1
    t2 = t2
    d1 = d1
    d2 = d2
    o1 = o1
    o2 = o2
    Tabs = {t1, t2}
    Drafts = {d1, d2}
    Saved = {d1}
    Ops = {o1, o2}
    Kinds = {"save", "send", "schedule", "cancel"}
    MaxOpens = 2
    MaxEdits = 2
    MaxLost = 1
CONSTRAINT MCUndoubted
SYMMETRY Symmetry
INVARIANTS
    ComposeTypeOK
PROPERTIES
    ServerGetsTheForm
    WorkingCopiesAdvance
CHECK_DEADLOCK FALSE
