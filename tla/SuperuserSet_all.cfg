CONSTANTS
    Users = {u1, u2}
    Requests = {r1, r2}
    TopRole = 2
    GenMax = 2
    Ops = {"update", "delete", "delete_me", "create"}
    RetentionCoversRequests = TRUE
SPECIFICATION Spec
SYMMETRY Symmetry
INVARIANTS
    IInv
    ConstraintNeverBites
PROPERTIES
    UpdateKeepsSet
    FreshDeleteKeepsSet
    NoSelfPromotion
CHECK_DEADLOCK FALSE
