SPECIFICATION FairSpec
CONSTANTS
    web = web
    i1 = i1
    i2 = i2
    Base = Base
    Tag = Tag
    None = None
    Services = {web}
    Images = {i1, i2}
    MaxOps = 2
    HistoryLimit = 1
    MaxCrashes = 1
    MaxFaults = 0
    MaxEdits = 0
    MaxManual = 1
    MaxLen = 8
    Limits = {1, 2, 3, 4, 5}
INVARIANTS
    TailLongest
PROPERTIES
    PermitReturned
    OperationsFinish
