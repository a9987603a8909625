SPECIFICATION FairSpec
CONSTANTS
    a = a
    r = r
    p = p
    Texts <- TextsARP
    Refusable <- SetR
    Poison <- SetP
    Quota <- QuotaARP
    BatchSize = 2
    Concurrency = 2
    MemCap = 3
    InitDelay = 1
    MaxDelay = 1
    Faults = {"append", "tombstone", "deadopen", "lost", "crash"}
    MaxFaults = 1
CHECK_DEADLOCK FALSE
INVARIANT NoLostWakeup
INVARIANT EventsAccounted
PROPERTY EventuallySettled
PROPERTY CloseEndsDrainer
