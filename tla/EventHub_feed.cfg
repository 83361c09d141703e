CONSTANTS
    Consumers = {c1, c2}
    BufferSize = 2
    MaxQueue = 1
    WireSize = 1
    EventMax = 4
    RestartMax = 1
    DropMax = 1
SPECIFICATION FairSpec
INVARIANTS
    TypeOK
    NoHoleInFlight
PROPERTY
    FeedSpec
    EventuallyInformed
CHECK_DEADLOCK FALSE
