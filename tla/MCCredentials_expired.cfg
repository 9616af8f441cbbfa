SPECIFICATION Spec
CONSTANTS
    Threads = {t1}
    NoThread = NoThread
    profile = profile
    helper = helper
    imds = imds
    Chain <- HelperChain
    Temporary = {helper, imds}
    Margin = 1
    Backoff = 2
    MaxLife = 2
    MaxTime = 5
PROPERTIES
    ExpiredAreTheLastResort
