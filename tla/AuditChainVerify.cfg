SPECIFICATION FairSpec
CONSTANTS
    d = d
    n = n
    k1 = k1
    x1 = x1
    x2 = x2
    x3 = x3
    Requests = {x1, x2}
    Tenants = {d, n}
    Default = d
    System = System
    Keys = {k1}
    Services = {"broker"}
    Rps = 0
    MaxEvents = 3
    Handlers = {"revoke", "hit", "create"}
    Faults = {"alter"}
CHECK_DEADLOCK FALSE
INVARIANT VerifyExact
INVARIANT JobReports
PROPERTY EveryRequestAnswered
