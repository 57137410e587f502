CONSTANTS
    p1 = p1
    p2 = p2
    c1 = c1
    c2 = c2
    None = None
    NullOnDead <- MCNullOnDead
    Callers <- MCCallers
    Connections <- MCSiblings
    Paths <- MCPaths
    Expiries <- MCExpiries
    MaxToken <- MCMaxToken
    MaxAttempts = 2
    DbFailures <- MCDbFailures
SPECIFICATION FairSpec
INVARIANTS
    TypeOK
    LaneExclusive
    OneRefreshPerConnection
PROPERTIES
    DeactivationJustified
    QueueFlowsUnlessNested
\* A spent or deactivated connection is never refreshed again.
CHECK_DEADLOCK FALSE
