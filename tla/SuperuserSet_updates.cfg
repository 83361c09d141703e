CONSTANTS
    Users = {u1, u2}
    Requests = {r1, r2}
    TopRole = 1
    GenMax = 3
    Ops = {"update", "create"}
    RetentionCoversRequests = TRUE
SPECIFICATION Spec
SYMMETRY Symmetry
INVARIANTS
    SetNeverEmpty
PROPERTIES
    GenerationFencesChanges
    RosterSpec
CHECK_DEADLOCK FALSE
