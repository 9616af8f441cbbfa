SPECIFICATION Spec
CONSTANTS
    Streams = {s1, s2}
    NoThread = NoThread
    NoKey = NoKey
    Size = 4
    MaxOffset = 4
    ReadAhead <- MixedReadAhead
    MaxAttempts = 1
    Regions = {r1}
    Region = r1
    Home = r1
    PathStyle = TRUE
    Servers = {"always"}
    RelativePastEnd = FALSE
    Deltas <- Back
    Capacities = {2}
    Pinned = {}
    Faults = {}
    FineClock = FALSE
    MaxClock = 0
    MaxStat = 0
    MaxCrashes = 0
INVARIANTS
    EofHonest
