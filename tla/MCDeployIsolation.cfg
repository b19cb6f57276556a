SPECIFICATION Spec
CONSTANTS
    web = web
    db = db
    i1 = i1
    Base = Base
    Tag = Tag
    None = None
    Services = {web, db}
    Images = {i1}
    MaxOps = 2
    HistoryLimit = 1
    MaxCrashes = 1
    MaxFaults = 0
    MaxEdits = 1
    MaxManual = 0
    MaxLen = 1
    Limits = {1}
INVARIANTS
    TypeOK
    PermitExclusive
    UpIsolated
    OverrideSettled
    FullInv
