CONSTANTS
    Requests = {r1, r2, r3}
    Jti = {j1, j2, j3}
    NoJti = NoJti
    GenMax = 2
    Deployments <- Sites
SPECIFICATION Spec
SYMMETRY Symmetry
INVARIANTS
    TypeOK
    LogoutIsFinal
    SnapshotRaceProof
PROPERTIES
    NeverReactivated
    RefreshSignsCurrentClaims
    SingleUse
    ActiveAnswerWasTrue
    SnapshotKeepsLineage
CHECK_DEADLOCK FALSE
