CONSTANTS
    r1 = r1
    r2 = r2
    r3 = r3
    r4 = r4
    r5 = r5
    Requests <- MCRequests
    Caps <- MCCaps
    MaxQueueSize = 3
    MaxOldTimers = 1
SPECIFICATION FairSpec
INVARIANTS
    TypeOK
    SlotAccounting
    NoLostWakeup
    NoGateLeak
PROPERTIES
    CapRespected
    WaiterServed
