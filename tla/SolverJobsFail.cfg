CONSTANTS
    Jobs = {j1}
    Workers = {w1, w2}
    MaxAttempts = 3
    Lease = 1
    ShortDelay = 1
    LongDelay = 2
    None = None
SPECIFICATION Spec
PROPERTIES
    FailuresAreOwned
CHECK_DEADLOCK FALSE
