CONSTANTS
    A = A
    B = B
    C = C
    wiki = wiki
    code = code
    docs = docs
    md = md
    void = void
    disk = disk
    b1 = b1
    b2 = b2
    None = None
    Broken = Broken
    Names = {A, B}
    Targets = {wiki, code, void, disk}
    Repo <- MCRepo
    Commit <- MCCommit
    Local = {disk}
    Empty = {void}
    Batches = {b1}
    FaultKinds = {"crash", "sqlite", "dense", "sync"}
    MaxFaults = 2
    MaxEdits = 2
SPECIFICATION FairSpec
CHECK_DEADLOCK FALSE
INVARIANTS
    TypeOK
    OrphanRowsGone
PROPERTIES
    ConfiguredRowsKept
    EventuallyNoOrphanRows
