SPECIFICATION Spec
CONSTANTS
    NULL = NULL
    ep1 = ep1
    ep2 = ep2
    Auths = {a1}
    EventIds = {e1}
    Endpoints = {ep1, ep2}
    Tasks = {t1}
    Pollers = {p1}
    Sweepers = {w1}
    NotifyMode = {ep1}
    Required = 2
    ReorgDepth = 2
    DepthOverride <- ShallowDepth
    MaxHead = 3
    MaxLand = 1
    MaxForks = 1
    BatchLimit = 100
    LeaderLock = "pooled"
    Contingencies = {"rpc", "send", "reject", "unmatched", "archive", "redeliver", "crash", "db"}
SYMMETRY Symmetry
CHECK_DEADLOCK FALSE
INVARIANTS
    FinalityInv
    SafeWebhooksAreDeep
    ReorgedWebhookIsOffChain
PROPERTIES
    DirectEventsMoveForward
