SPECIFICATION Spec
CONSTANTS
    email = email
    address = address
    prober = prober
    minute = minute
    hour = hour
    Requests = {r1, r2}
    Counters = {email, address, prober, minute, hour}
    Limit <- Limits
    Login <- LoginCounters
    Exchange <- ExchangeCounters
    KeyUse <- KeyCounters
    Traffic <- RoutesApart
    CrashBound = 1
    Clients = {cl1, cl2}
    Identities = {e1}
    States = {s1, s2}
    Grants = {g1, g2}
    AuthCodes = {c1}
    Callbacks = {b1, b2}
    Nobody = Nobody
INVARIANTS
    TypeOK
    TokensOnceToInitiator
    StateOutlivesFailure
    SelfCleaning
CHECK_DEADLOCK FALSE
SYMMETRY Symmetry
