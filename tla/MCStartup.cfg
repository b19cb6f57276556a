SPECIFICATION FairSpec
CONSTANTS
    e1 = e1
    e2 = e2
    Entries = {e1, e2}
    app = app
    shop = shop
    Names = {app, shop}
    web = web
    db = db
    Services = {web, db}
    MaxEvents = 3
    References <- MCReferences
    Words <- MCWords
    Dotted <- MCDotted
    Digests <- MCDigests
    MaxDigests = 2
INVARIANTS
    OwnersSound
    RecoveredBeforeServing
    OverrideCurrent
    NamesReadAsDocker
PROPERTIES
    EventuallyServes
CHECK_DEADLOCK FALSE
