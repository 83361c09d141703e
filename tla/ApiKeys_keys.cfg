CONSTANTS
    Keys = {k1, k2}
    Requests = {r1, r2}
    Flushers = {f1}
    Consumers = {c1}
    Cap = 1
    PurgeBatch = 1
    ClockMax = 2
    ChangeMax = 2
    CrashBound = 1
    Snapshot = FALSE
SPECIFICATION Spec
SYMMETRY Symmetry
INVARIANTS
    TypeOK
    CapExceededOnlyByOverlap
    DisarmedStaysDisarmed
    NotedUseSurvives
CHECK_DEADLOCK FALSE
