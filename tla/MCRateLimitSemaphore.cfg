CONSTANTS
    r1 = r1
    r2 = r2
    r3 = r3
    r4 = r4
    r5 = r5
    Requests <- MCRequests
    Limits <- MCLimits
    DefaultMax = 3
    QueueSizes <- MCSizes
    MaxTimers = 2
SPECIFICATION FairSpec
INVARIANTS
    TypeOK
    SlotAccounting
    NoLostWakeup
    NoGateLeak
PROPERTIES
    WaiterServed
    ImplementsPool
    PauseHolds
