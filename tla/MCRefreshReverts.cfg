CONSTANTS
    p1 = p1
    p2 = p2
    c1 = c1
    c2 = c2
    None = None
    NullOnDead <- MCNullOnDead
    Callers <- MCCallers
    Connections <- MCSiblings
    Paths <- MCReactive
    Expiries <- MCExpiries
    MaxToken <- MCMaxToken
    MaxAttempts = 2
    DbFailures = {}
CHECK_DEADLOCK FALSE
SPECIFICATION Spec
PROPERTY TokenNeverReverts
