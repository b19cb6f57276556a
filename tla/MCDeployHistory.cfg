SPECIFICATION Spec
CONSTANTS
    web = web
    i1 = i1
    i2 = i2
    Base = Base
    Tag = Tag
    None = None
    Services = {web}
    Images = {i1, i2}
    MaxOps = 3
    HistoryLimit = 1
    MaxCrashes = 1
    MaxFaults = 1
    MaxEdits = 0
    MaxManual = 0
    MaxLen = 1
    Limits = {1}
SYMMETRY ImageSymmetry
INVARIANTS
    CommitOrder
    OpenRowOwned
    VerifiedBaseline
    RestoredOnSuccess
    HistoryBounded
PROPERTIES
    ImplementsBaselineLog
