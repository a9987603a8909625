SPECIFICATION Spec
CONSTANTS
    a = a
    r = r
    p = p
    Texts <- TextsAR
    Refusable <- SetR
    Poison = {}
    Quota <- QuotaAR
    BatchSize = 2
    Concurrency = 2
    MemCap = 1
    InitDelay = 1
    MaxDelay = 1
    Faults = {"append", "torn", "read", "tombstone", "lost", "crash"}
    MaxFaults = 2
CHECK_DEADLOCK FALSE
INVARIANT TypeOK
INVARIANT NoEventLost
INVARIANT NothingVanishes
INVARIANT NoNeedlessDuplicate
