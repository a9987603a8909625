SPECIFICATION Spec
CONSTANTS
    d = d
    n = n
    k1 = k1
    x1 = x1
    x2 = x2
    x3 = x3
    Requests = {x1, x2}
    Tenants = {d, n}
    Default = d
    System = System
    Keys = {k1}
    Services = {"broker"}
    Rps = 1
    MaxEvents = 3
    Handlers = {"emit", "hit", "revoke", "create", "ack", "verify"}
    Faults = {"abort", "reseed"}
SYMMETRY Slots
CHECK_DEADLOCK FALSE
INVARIANT ChainConsistent
INVARIANT RevokedIffRecorded
INVARIANT AnsweredIsCommitted
