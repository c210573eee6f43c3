\* one log for two triggers, two tasks, every failure
SPECIFICATION LiveSpec
CONSTANTS
    None = None
    l1 = l1
    t1 = t1
    t2 = t2
    e1 = e1
    e2 = e2
    Logs = {l1}
    Triggers = {t1, t2}
    Endpoints = {e1, e2}
    Tasks = {k1, k2}
    LogOf <- MCLogOf
    TriggerOf <- MCTriggerOf
    EndpointOf <- MCEndpointOf
    ChainDepth = 2
    MaxHead = 4
    Contingencies = {"claim", "cut", "rpc", "resolver", "fetch", "send", "db", "edit"}
INVARIANTS
    TypeOK
    ClaimHasOneOwner
    ToldAtMostOnce
    SaidIsDeep
PROPERTIES
    ClaimsAreSettled
