SPECIFICATION Spec
CONSTANTS
    Tasks = 2
    Concurrency = 2
    Retries = 1
    Bounds <- MCBounds
INVARIANTS
    ConcurrencyIsUsed
