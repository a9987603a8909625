SPECIFICATION Spec
CONSTANTS
    x1 = x1
    x2 = x2
    p1 = p1
    p2 = p2
    Requests = {x1, x2}
    Pods = {p1, p2}
    MaxSessions = 1
    MaxStates = 2
    MaxKeys = 3
    MaxTime = 3
    MaxChanges = 1
    Workloads = {{"use", "change"}, {"again", "rotate"}}
    SessionTTL = 2
    WhoamiTTL = 1
    StateTTL = 1
    JwksTTL = 2
SYMMETRY Slots
CHECK_DEADLOCK FALSE
INVARIANT SessionsConsistent
INVARIANT WhoamiBounded
 
