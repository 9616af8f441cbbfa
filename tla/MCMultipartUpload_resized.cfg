SPECIFICATION Spec
CONSTANTS
    Workers = {w1}
    Parts <- MCParts
    Word = 64
    MiB = 2
    MinPartSize = 2
    MaxParts = 3
    Calls <- EveryCall
    Retries = 1
    Lengths <- AnyLength
    MaxChanges = 1
INVARIANTS
    ResizedFileFails
