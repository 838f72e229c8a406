SPECIFICATION Spec
CONSTANTS
    s1 = s1
    s2 = s2
    k1 = k1
    k2 = k2
    ta = ta
    NULL = NULL
    Session <- Sessions2
    Requests <- CounterRequests
    InitDbs <- CounterDb
    Key = {k1}
    DbIdx = {0}
    Text = {ta}
    Member = {}
    MsPerSec = 2
    Backend = "postgres"
    ReadFaults = FALSE
    MaxTime = 0
    MaxLen = 2
    MaxInt = 2
PROPERTY NoLostUpdate
