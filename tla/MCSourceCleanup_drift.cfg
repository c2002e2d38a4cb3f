CONSTANTS
    A = A
    B = B
    C = C
    wiki = wiki
    code = code
    docs = docs
    md = md
    void = void
    disk = disk
    b1 = b1
    b2 = b2
    None = None
    Broken = Broken
    Names = {A, B, C}
    Targets = {wiki, code, docs, void, disk}
    Repo <- MCRepo
    Commit <- MCCommit
    Local = {disk}
    Empty = {void}
    Batches = {b1, b2}
    FaultKinds = {"sync"}
    MaxFaults = 2
    MaxEdits = 2
SPECIFICATION Spec
CHECK_DEADLOCK FALSE
INVARIANTS
    RowsAreConfigured
    VectorsMatchRows
PROPERTIES
    RenamedNotDeleted
