CONSTANTS
    b1 = b1
    Batches <- MCBatch
    Requested <- MCBatch
    NItems = 1
    MaxConcurrent = 1
    MaxRuns = 2
    MaxWrites = 2
    MaxRejections = 1
    MaxCrashes = 1
SPECIFICATION FairSpec
INVARIANTS
    NeverReplayed
    OneRun
    CompletedIsComplete
PROPERTIES
    BatchEnds
