SPECIFICATION ReaderSpec
CONSTANTS
    Streams = {s1}
    NoThread = NoThread
    NoKey = NoKey
    Size = 3
    MaxOffset = 3
    ReadAhead <- TwoBytes
    MaxAttempts = 1
    Regions = {r1}
    Region = r1
    Home = r1
    PathStyle = TRUE
    Servers = {"always"}
    RelativePastEnd = FALSE
    Deltas <- TellAndBack
    Capacities = {0}
    Pinned = {}
    Faults = {}
    FineClock = FALSE
    MaxClock = 0
    MaxStat = 0
    MaxCrashes = 0
    Counts = {3}
INVARIANTS
    FailuresRaise
