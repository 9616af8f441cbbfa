SPECIFICATION FairSpec
CONSTANTS
    ann = ann
    bob = bob
    Clients = {ann, bob}
    Keys = {1, 2, 3}
    Workloads <- MCWorkloads
    Length <- MCLength
    Ranges <- MCRanges
    MaxU64 = 3
    PageSize = 2
    Retries = 1
    MaxPuts = 3
INVARIANTS
    TypeOK
    OnlyOneWins
    AnswersAreCurrent
    ListsTheBucket
PROPERTIES
    PutsAreAtomic
    ClientReturns
