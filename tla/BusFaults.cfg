\* two replicas; failing attempts and Redis calls, crashes, partial pipelines, trimming, loss of Redis
SPECIFICATION Spec
CONSTANTS
    Workers = {w1, w2}
    Monitors = {}
    MaxMsgs = 2
    MaxDlq = 2
    MaxRestarts = 1
    DlqBatch = 1
    TrimThreshold = 2
    TrimLen = 1
    IngestBatch = 2
    BatchSize = 2
    ClaimCount = 1
    ClaimEvery = 2
    MaxRetries = 2
    MaxStreamLen = 1
    MaxFailures = 3
    Contingencies = {"redis", "fail", "crash", "aged", "xadd", "loss"}
SYMMETRY Symmetry
CHECK_DEADLOCK FALSE
INVARIANTS
    TypeOK
    BusInv
    DeadLettersAreExhausted
