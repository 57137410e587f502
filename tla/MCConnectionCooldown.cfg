CONSTANTS
    c1 = c1
    c2 = c2
    None = None
    Requests <- MCTwo
    Failures <- MCKinds
    MaxBackoff = 1
    MaxMarks = 3
SPECIFICATION FairSpec
INVARIANTS
    TypeOK
    MutexEntriesLive
PROPERTIES
    QuotaClearSeesAll
    MarksProceed
    TerminalRests
\* A terminal or disabled connection is never selected again, so the row rests.
CHECK_DEADLOCK FALSE
