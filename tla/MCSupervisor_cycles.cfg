CONSTANTS
    Ticker = tick
    Rescans = {client}
    Tools = {client}
    PollInterval = 1800
    IngestOnStart = TRUE
    MaxWorkers = 2
    MaxLines = 1
SPECIFICATION Spec
CHECK_DEADLOCK FALSE
INVARIANTS
    TypeOK
    LiveWorkerIsTracked
    LiveWorkerIsStreamed
    ProgressIsOfAnOpenCycle
    MetricsAreOfACompleteCycle
    StoppedWorkerIsDead
PROPERTIES
    ImplementsSingleFlight
