SPECIFICATION FairSpec
CONSTANTS
    None = None
    MaxVersion = 1
    Mixups = {0}
    UnitWorks = FALSE
    MaxEvents = 1
PROPERTIES
    ReleasedWithoutHelper
CHECK_DEADLOCK FALSE
