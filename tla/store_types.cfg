SPECIFICATION TypedSpec
CONSTANTS
    s1 = s1
    s2 = s2
    k1 = k1
    k2 = k2
    ta = ta
    NULL = NULL
    Session <- Sessions2
    Requests <- TypeRequests
    InitDbs <- TypeDbs
    Key = {k1}
    DbIdx = {0}
    Text = {ta}
    Member = {1, 2}
    MsPerSec = 2
    Backend = "postgres"
    ReadFaults = TRUE
    MaxTime = 1
    MaxLen = 3
    MaxInt = 2
SYMMETRY Symmetry
INVARIANT NoOrphanData
INVARIANT LazyExpiry
PROPERTY ZAddIsConditional
