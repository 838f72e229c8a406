SPECIFICATION Spec
CONSTANTS
    s1 = s1
    s2 = s2
    k1 = k1
    k2 = k2
    ta = ta
    NULL = NULL
    Session <- Sessions2
    Requests <- KeyRequests
    InitDbs <- TwoDbs
    Key = {k1, k2}
    DbIdx = {0, 1}
    Text = {ta}
    Member = {}
    MsPerSec = 2
    Backend = "sqlite"
    ReadFaults = TRUE
    MaxTime = 1
    MaxLen = 2
    MaxInt = 2
SYMMETRY Symmetry
INVARIANT LazyExpiry
PROPERTY NoLostUpdate
PROPERTY LiveKeyStays
PROPERTY DatabasesIsolated
