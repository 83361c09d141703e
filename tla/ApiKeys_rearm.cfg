CONSTANTS
    Keys = {k1, k2}
    Requests = {r1, r2}
    Flushers = {f1}
    Consumers = {c1}
    Cap = 1
    PurgeBatch = 1
    ClockMax = 2
    ChangeMax = 2
    CrashBound = 1
    Snapshot = TRUE
SPECIFICATION Spec
SYMMETRY Symmetry
INVARIANTS
    DisarmedStaysDisarmed
CHECK_DEADLOCK FALSE
