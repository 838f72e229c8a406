SPECIFICATION ReadingSpec
CONSTANTS
    c1 = c1
    c2 = c2
    ch1 = ch1
    ch2 = ch2
    noname = noname
    EmptyName = noname
    Conn = {c1, c2}
    Channel = {ch1, ch2, noname}
    Sites <- ServerSites
    Resubscribe = FALSE
    BufCap = 1
    MaxQueue = 2
    MaxRan = 3
CHECK_DEADLOCK FALSE
INVARIANT ServerTypeOK
INVARIANT ClosedIsUnsubscribed
INVARIANT ConfirmedGetsMessage
INVARIANT AuthGate
PROPERTY PublisherOrder
PROPERTY ExecRunsAcknowledged
PROPERTY PublishReturns
