\* the migrations applied up to this commit: no poll cycle begins
SPECIFICATION LiveSpec
CONSTANTS
    NULL = NULL
    ep1 = ep1
    ep2 = ep2
    Auths = {a1}
    EventIds = {e1, e2}
    Endpoints = {ep1}
    Tasks = {t1}
    Pollers = {p1}
    Sweepers = {w1}
    NotifyMode = {}
    Required = 1
    ReorgDepth = 1
    DepthOverride <- DefaultDepths
    MaxHead = 3
    MaxLand = 2
    MaxForks = 1
    BatchLimit = 100
    LeaderLock = "dropped"
    Contingencies = {}
CHECK_DEADLOCK FALSE
PROPERTIES
    EveryEventReachesATerminalState
