SPECIFICATION FairSpec
CONSTANTS
    small = small
    other = other
    large = large
    Files <- Tree
    Size <- TwoSizes
    Concurrency = 2
INVARIANTS
    TypeOK
    ReportsAreSerial
    LargestFirst
    ExitTellsTheTruth
PROPERTIES
    UploadsTheDirectory
    DirectoryReturns
