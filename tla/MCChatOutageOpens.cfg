CONSTANTS
    r1 = r1
    r2 = r2
    a1 = a1
    a2 = a2
    Requests <- MCRequests
    Accounts <- MCOneAccount
    Kinds = {}
    NoKind = NoKind
    NoAccount = NoAccount
    EscalationCount = 1
    MaxMultiplier = 1
    MaxAge = 1
    MaxRetries = 1
    MaxFailures = 3
    Opt <- MCOpt
SPECIFICATION Spec
INVARIANT OutageOpens
