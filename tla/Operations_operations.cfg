SPECIFICATION Spec
CONSTANTS
    Items = {i1}
    Actors = {root, bob}
    Superusers = {root}
    Writers = {w1, w2}
    Purges = {p1, p2}
    Windows = {0, 1}
    Floor = 1
    AuditBatch = 1
    ClockMax = 2
    RowMax = 3
    CutMax = 1
    Users = {u1, u2}
    Sessions = {s1, s2}
    GenMax = 3
    Starts = 1
    Consumers = {k1}
    Clients = {c1, c2}
    Scopes = {event_stream}
    EventStream = event_stream
    TokenLife = 1
    CacheLife = 1
    ServiceLife = 1
    KeyMax = 3
    NowMax = 6
    EditsMax = 3
SYMMETRY Symmetry
CHECK_DEADLOCK FALSE
INVARIANTS
    TypeOK
    TrailAgrees
    PurgeAccounted
    NothingLegacySurvives
    NoVerificationGap
    WithdrawnSoonPowerless
PROPERTIES
    CutoverKeepsSuperusers
