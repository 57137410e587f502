CONSTANTS
    r1 = r1
    r2 = r2
    r3 = r3
    r4 = r4
    r5 = r5
    Calls <- MCCalls
    Hash <- MCHash
    MaxInflight = 2
SPECIFICATION DedupFairSpec
INVARIANTS
    DedupTypeOK
    OneUpstreamCall
    EntriesInFlight
PROPERTIES
    SharersAnswered
CHECK_DEADLOCK FALSE
