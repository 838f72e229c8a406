SPECIFICATION Spec
CONSTANTS
    s1 = s1
    s2 = s2
    k1 = k1
    k2 = k2
    ta = ta
    NULL = NULL
    Session <- Sessions2
    Requests <- AtomicRequests
    InitDbs <- CounterDb
    Key = {k1}
    DbIdx = {0}
    Text = {ta}
    Member = {}
    MsPerSec = 2
    Backend = "sqlite"
    ReadFaults = FALSE
    MaxTime = 1
    MaxLen = 2
    MaxInt = 2
SYMMETRY Symmetry
INVARIANT TypeOK
INVARIANT StringHasValue
PROPERTY NoLostUpdate
PROPERTY ConditionHolds
PROPERTY CallsAreAtomic
