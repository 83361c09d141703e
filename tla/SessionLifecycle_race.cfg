CONSTANTS
    Requests = {r1, r2, r3}
    Jti = {j1, j2, j3}
    NoJti = NoJti
    GenMax = 2
    Deployments <- RaceSites
SPECIFICATION Spec
SYMMETRY Symmetry
INVARIANTS
    GenerationRaceProof
CHECK_DEADLOCK FALSE
