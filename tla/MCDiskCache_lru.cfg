SPECIFICATION FairSpec
CONSTANTS
    Threads = {t1, t2}
    NoThread = NoThread
    Keys = {0, 1, 2, 4}
    NoKey = NoKey
    Whole <- MCWhole
    Capacities = {0, 1, 3}
    Pinned = {}
    Faults = {"mkdir", "open", "read", "write"}
    FineClock = TRUE
    MaxClock = 4
    MaxStat = 1
    MaxCrashes = 1
INVARIANTS
    TypeOK
    NoTornBlock
    CapacityBound
PROPERTIES
    KeepsTheMostRecent
    StoreReturns
