SPECIFICATION FairSpec
CONSTANTS
    q1 = q1
    q2 = q2
    Slots = {q1, q2}
    MaxAge = 2
    QueryLimit = 2
    Never = Never
    NoStates = NoStates
    MaxChanges = 2
    MaxErrors = 1
    MaxClears = 1
INVARIANTS
    BoundedStaleness
    RereadUnlessRaced
PROPERTIES
    CatchesUp
