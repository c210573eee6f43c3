\* one dispatch to three endpoints among other callers of the breaker, one of them
\* with a failing receiver, two DLQ handlers, every failure
SPECIFICATION LiveSpec
CONSTANTS
    None = None
    t1 = t1
    Tasks = {t1}
    Handlers = {h1, h2}
    Targets <- ThreeTargets
    Flaky = {2}
    Threshold = 2
    Contingencies = {"unwired", "connect", "late", "reject", "db", "crash", "batch"}
CHECK_DEADLOCK FALSE
INVARIANTS
    TypeOK
    BreakerAgrees
    MessagesAreAccounted
PROPERTIES
    FailedIsResent
