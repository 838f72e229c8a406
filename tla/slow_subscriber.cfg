SPECIFICATION FairSpec
CONSTANTS
    c1 = c1
    c2 = c2
    ch1 = ch1
    ch2 = ch2
    noname = noname
    EmptyName = noname
    Conn = {c1, c2}
    Channel = {ch1, noname}
    Sites <- ChatSite
    Resubscribe = FALSE
    BufCap = 1
    MaxQueue = 0
    MaxRan = 0
PROPERTY PublishReturns
CHECK_DEADLOCK FALSE
