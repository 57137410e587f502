CONSTANTS
    r1 = r1
    r2 = r2
    r3 = r3
    Requests <- MCRequests
    MaxObjects = 3
    MaxStatements = 5
SPECIFICATION Spec
INVARIANTS
    WriteThrough
PROPERTIES
    EvictionKeepsTrips
