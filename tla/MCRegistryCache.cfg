SPECIFICATION Spec
CONSTANTS
    Deploy = Deploy
    Refresher = Refresher
    Free = Free
    NoSource = NoSource
    Sources = {hub, ghcr}
    Pages = {p1, p2}
    Versions = {v1}
    PageSize = 1
    TTL = 2
    QueryLimit = 1
    MaxRefreshes = 1
    MaxPublications = 1
    MaxCuts = 1
    NoSemver = NoSemver
    Tags <- MCTags
    EmptyTag <- MCEmpty
    MaxTags = 5
SYMMETRY RegistrySymmetry
INVARIANTS
    AdmissionSound
    AnswerCurrent
    ListSound
