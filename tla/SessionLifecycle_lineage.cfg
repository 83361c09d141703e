CONSTANTS
    Requests = {r1, r2}
    Jti = {j1, j2}
    NoJti = NoJti
    GenMax = 1
    Deployments <- LineageSites
SPECIFICATION Spec
SYMMETRY Symmetry
PROPERTIES
    RefreshExtendsLiveLineage
CHECK_DEADLOCK FALSE
