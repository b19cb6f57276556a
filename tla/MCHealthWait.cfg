SPECIFICATION Spec
CONSTANTS
    r1 = r1
    r2 = r2
    r3 = r3
    id1 = id1
    id2 = id2
    pinned = pinned
    tag = tag
    None = None
    Wanted = {r1, r2}
    HealthLimit = 3
    CommandLimit = 1
    Pause = 2
    Slots = {r1, r2, r3}
    Artifacts <- MCArtifacts
    ExpectedIds = {id1, None}
    MaxChanges = 2
INVARIANTS
    OkCoversRunning
    WaitBounded
    JudgementsAgree
CHECK_DEADLOCK FALSE
