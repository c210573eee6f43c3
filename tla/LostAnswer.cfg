SPECIFICATION Spec
CONSTANTS
    NULL = NULL
    ep1 = ep1
    ep2 = ep2
    Auths = {a1}
    EventIds = {e1, e2}
    Endpoints = {ep1}
    Tasks = {t1, t2}
    Pollers = {}
    Sweepers = {}
    NotifyMode = {}
    Required = 1
    ReorgDepth = 1
    DepthOverride <- DefaultDepths
    MaxHead = 2
    MaxLand = 1
    MaxForks = 0
    BatchLimit = 100
    LeaderLock = "pooled"
    Contingencies = {}
SYMMETRY Symmetry
CHECK_DEADLOCK FALSE
INVARIANTS
    AnsweredPaymentIsRecorded
