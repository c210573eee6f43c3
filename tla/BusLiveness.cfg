\* two replicas and a DLQ consumer that restarts; attempts fail
SPECIFICATION LiveSpec
CONSTANTS
    Workers = {w1, w2}
    Monitors = {c1}
    MaxMsgs = 2
    MaxDlq = 4
    MaxRestarts = 1
    DlqBatch = 1
    TrimThreshold = 2
    TrimLen = 1
    IngestBatch = 1
    BatchSize = 2
    ClaimCount = 1
    ClaimEvery = 2
    MaxRetries = 2
    MaxStreamLen = 9
    MaxFailures = 3
    Contingencies = {"fail", "restart"}
CHECK_DEADLOCK FALSE
PROPERTIES
    QueuedIsResolved
    DeadLettersAreReported
