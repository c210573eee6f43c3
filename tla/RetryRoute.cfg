\* one dispatch to two endpoints, the first of which fails to take it
SPECIFICATION Spec
CONSTANTS
    None = None
    t1 = t1
    Tasks = {t1}
    Handlers = {}
    Targets <- TwoTargets
    Flaky = {1}
    Threshold = 2
    Contingencies = {}
CHECK_DEADLOCK FALSE
INVARIANTS
    FailedCanBeRetried
