CONSTANTS
    Users = {u1, u2}
    Requests = {r1, r2}
    TopRole = 1
    GenMax = 2
    Ops = {"update", "delete", "create"}
    RetentionCoversRequests = TRUE
SPECIFICATION Spec
PROPERTIES
    DeleteKeepsSet
CHECK_DEADLOCK FALSE
