CONSTANTS
    a1 = a1
    a2 = a2
    b1 = b1
    c1 = c1
    A = A
    B = B
    C = C
    TTL = 2
    MaxBuild = 1
    MaxTime = 5
    MaxWrites = 3
    Nothing = Nothing
    Chunks = {a1, a2, b1, c1}
    ParentOf <- MCParentOf
    CandidateK = 3
    RrfK = 1
    L1OutputSize = 3
    Logits = {0, 1}
    Unavailable = Unavailable
    Lines <- MCLines
    TargetSize = 14
    OverlapSize = 5
    MaxLines = 6
SPECIFICATION MCSpec
CHECK_DEADLOCK FALSE
INVARIANTS
    FreshAfterInvalidation
    HowStale
    FusionFollowsLegs
    BestParentsReturned
    LinesKeepTheirPlace
    ChunksFit
