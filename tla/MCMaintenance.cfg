SPECIFICATION FairSpec
CONSTANTS
    s1 = s1
    s2 = s2
    s3 = s3
    i1 = i1
    i2 = i2
    i3 = i3
    repo = repo
    other = other
    Projects = {1, 2}
    Services = {s1, s3}
    ProjectOf <- MCProjectOf
    RepositoryOf <- MCRepositoryOf
    Images = {i1}
    Cleanups = {c1}
    Updates = {u1, u2}
    Op = Op
    Free = Free
    NoImage = NoImage
    MaxOps = 1
    MaxByHand = 0
INVARIANTS
    MaintenanceExclusive
PROPERTIES
    PermitsReturned
CHECK_DEADLOCK FALSE
