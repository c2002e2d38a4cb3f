CONSTANTS
    a = a
    b = b
    short = short
    long = long
    empty = empty
    Absent = Absent
    Files = {a, b}
    Versions = {short, long}
    Blank = {}
    ChunksOf <- MCChunksOf
    MaxChunk = 2
    Remote = TRUE
    Prefix = {}
    BatchSize = 3
    DenseBatch = 2
    FaultKinds = {"crash", "sqlite", "dense", "parse", "sync", "list", "wipe", "corrupt"}
    MaxFaults = 2
    MaxEdits = 2
SPECIFICATION FairSpec
CHECK_DEADLOCK FALSE
INVARIANTS
    RowsMatchWalk
PROPERTIES
    EventuallyAllRows
    RemovedOnlyFromACheckout
