\* concurrent calls of one wallet on one session, one payment proof and its nonces, with every failure
SPECIFICATION Spec
CONSTANTS
    None = None
    Calls = {c1, c2}
    Sessions = {s1}
    Payments = {p1}
    Nonces = {n1}
    MaxTriggers = 1
    MaxEndpoints = 1
    RateLimit = 1
    MaxSlugs = 2
    DefaultBudget = 5
    MaxBudget = 4
    Requests = {None}
    Contingencies = {"redis", "db", "convoy", "resolver", "facilitator", "crash"}
SYMMETRY Symmetry
CHECK_DEADLOCK FALSE
INVARIANTS
    TypeOK
    BudgetConserved
    QuotaOvershoot
    ExclusiveProof
    ProofStaysUsable
    NoOrphans
    GatewayInv
PROPERTIES
    ServiceIsBacked
