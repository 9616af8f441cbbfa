SPECIFICATION FairSpec
CONSTANTS
    Streams = {s1, s2}
    NoThread = NoThread
    NoKey = NoKey
    Size = 1
    MaxOffset = 1
    ReadAhead <- UniformReadAhead
    MaxAttempts = 2
    Regions = {r1, r2}
    Region = r1
    Home = r2
    PathStyle = FALSE
    Servers = {"always","never"}
    RelativePastEnd = FALSE
    Deltas = {}
    Capacities = {2}
    Pinned = {}
    Faults = {"open"}
    FineClock = FALSE
    MaxClock = 0
    MaxStat = 0
    MaxCrashes = 1
INVARIANTS
    TypeOK
PROPERTIES
    ReadsTheObject
    UsesTheCache
    CallsReturn
