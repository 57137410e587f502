CONSTANTS
    rateLimit = rateLimit
    r1 = r1
    r2 = r2
    r3 = r3
    Requests <- MCRequests
    Kinds <- MCKinds
    NoKind = NoKind
    EscalationCount = 1
    MaxMultiplier = 2
    MaxAge = 2
    MaxFailures = 6
    Opt <- MCOpt
SPECIFICATION FairSpec
INVARIANTS
    ProbeBudget
    HealthBand
    ClosedIsClean
PROPERTIES
    OpenRecovers
    ProbesConserved
