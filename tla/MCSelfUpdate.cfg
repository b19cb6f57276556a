SPECIFICATION FairSpec
CONSTANTS
    None = None
    MaxVersion = 2
    Mixups = {0}
    UnitWorks = TRUE
    MaxEvents = 3
INVARIANTS
    BinariesSound
    StatusTruthful
    UpdateExcludesOperations
    ErrorsRestore
PROPERTIES
    MaintenanceEnds
CHECK_DEADLOCK FALSE
