SPECIFICATION Spec
CONSTANTS
    Threads = {t1}
    NoThread = NoThread
    Keys = {0, 1}
    NoKey = NoKey
    Whole <- MCWhole
    Capacities = {2}
    Pinned = {}
    Faults = {"close"}
    FineClock = FALSE
    MaxClock = 0
    MaxStat = 0
    MaxCrashes = 0
INVARIANTS
    NoTornBlock
