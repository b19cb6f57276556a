SPECIFICATION Spec
CONSTANTS
    s1 = s1
    s2 = s2
    s3 = s3
    i1 = i1
    i2 = i2
    i3 = i3
    repo = repo
    other = other
    Projects = {1, 2}
    Services = {s1, s2}
    ProjectOf <- MCProjectOf
    RepositoryOf <- MCRepositoryOf
    Images = {i1, i2, i3}
    Cleanups = {c1}
    Updates = {}
    Op = Op
    Free = Free
    NoImage = NoImage
    MaxOps = 3
    MaxByHand = 1
PROPERTIES
    OnlyUnneededRemoved
CHECK_DEADLOCK FALSE
