CONSTANTS
    a = a
    b = b
    short = short
    long = long
    empty = empty
    Absent = Absent
    Files = {a, b}
    Versions = {short, long}
    Blank = {}
    ChunksOf <- MCChunksOf
    MaxChunk = 2
    Remote = TRUE
    Prefix = {}
    BatchSize = 3
    DenseBatch = 2
    FaultKinds = {"crash"}
    MaxFaults = 1
    MaxEdits = 1
SPECIFICATION FairSpec
CHECK_DEADLOCK FALSE
PROPERTIES
    EventuallyIndexed
