CONSTANTS
    Ticker = tick
    Rescans = {client}
    Tools = {client}
    PollInterval = 1800
    IngestOnStart = TRUE
    MaxWorkers = 2
    MaxLines = 0
SPECIFICATION FairSpec
CHECK_DEADLOCK FALSE
PROPERTIES
    CallsReturn
    EveryCycleEnds
