CONSTANTS
    a = a
    b = b
    short = short
    long = long
    empty = empty
    Absent = Absent
    Files = {a, b}
    Versions = {short, long, empty}
    Blank = {empty}
    ChunksOf <- MCChunksOf
    MaxChunk = 2
    Remote = FALSE
    Prefix <- MCPrefix
    BatchSize = 3
    DenseBatch = 2
    FaultKinds = {"crash", "sqlite", "dense", "parse", "sync", "list", "wipe"}
    MaxFaults = 3
    MaxEdits = 1
SPECIFICATION FairSpec
CHECK_DEADLOCK FALSE
INVARIANTS
    FtsMirrorsDocs
    ParentsMatchWalk
    ForceRepairs
PROPERTIES
    RemovedOnlyWhenUnseen
    ImplementsIndex
    EventuallyIndexed
