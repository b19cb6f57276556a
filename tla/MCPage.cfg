SPECIFICATION FairSpec
CONSTANTS
    web = web
    db = db
    c1 = c1
    c2 = c2
    Services = {web, db}
    Calls = {c1, c2}
    None = None
    MaxOps = 1
    MaxFailures = 1
INVARIANTS
    PollSound
    OfferWithoutOverlap
PROPERTIES
    PageCatchesUp
    PollEnds
