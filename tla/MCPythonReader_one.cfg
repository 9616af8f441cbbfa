SPECIFICATION FairReaderSpec
CONSTANTS
    Streams = {s1}
    NoThread = NoThread
    NoKey = NoKey
    Size = 5
    MaxOffset = 6
    ReadAhead <- TwoBytes
    MaxAttempts = 2
    Regions = {r1}
    Region = r1
    Home = r1
    PathStyle = TRUE
    Servers = {"always", "never"}
    RelativePastEnd = FALSE
    Deltas <- TellAndBack
    Capacities = {2}
    Pinned = {}
    Faults = {"read", "open", "write"}
    FineClock = FALSE
    MaxClock = 0
    MaxStat = 0
    MaxCrashes = 1
    Counts = {3}
INVARIANTS
    EofMeansEnd
    ReaderTypeOK
    AnswersAreTrue
PROPERTIES
    PythonReturns
    ReadsTheObject
    UsesTheCache
