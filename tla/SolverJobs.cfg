CONSTANTS
    Jobs = {j1}
    Workers = {w1, w2}
    MaxAttempts = 3
    Lease = 1
    ShortDelay = 1
    LongDelay = 2
    None = None
SPECIFICATION FairSpec
INVARIANTS
    TypeOK
    FencedAttempts
    DistinctAttempts
PROPERTIES
    AttemptsStartFresh
    JobsGetTheirAttempts
CHECK_DEADLOCK FALSE
