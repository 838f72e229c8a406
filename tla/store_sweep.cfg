SPECIFICATION FairSpec
CONSTANTS
    s1 = s1
    s2 = s2
    k1 = k1
    k2 = k2
    ta = ta
    NULL = NULL
    Session <- Sessions2
    Requests <- SweepRequests
    InitDbs <- ExpiryDb
    Key = {k1}
    DbIdx = {0}
    Text = {ta}
    Member = {1, 2}
    MsPerSec = 2
    Backend = "sqlite"
    ReadFaults = FALSE
    MaxTime = 1
    MaxLen = 2
    MaxInt = 2
PROPERTY ExpiredIsSwept
PROPERTY Answered
PROPERTY HSetIsExact
