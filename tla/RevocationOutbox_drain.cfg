CONSTANTS
    Effects = {1, 2}
    Publishes = {2}
    Workers = {w1, w2}
    BatchSize = 2
    MaxAttempts = 2
    CrashBound = 1
    OverrunBound = 1
SPECIFICATION FairSpec
INVARIANTS
    TypeOK
    LeaseExcludes
    StatusAccounted
PROPERTIES
    EventuallySettled
