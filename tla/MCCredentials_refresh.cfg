SPECIFICATION FairSpec
CONSTANTS
    Threads = {t1, t2}
    NoThread = NoThread
    profile = profile
    helper = helper
    imds = imds
    Chain <- ShortChain
    Temporary = {imds}
    Margin = 1
    Backoff = 2
    MaxLife = 2
    MaxTime = 5
INVARIANTS
    TypeOK
    FailureIsExplained
PROPERTIES
    PassesNoneOver
    KeepsWhatItHas
    GetReturns
