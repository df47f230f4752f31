CONSTANTS
    t1 = t1
    t2 = t2
    Bridge = TRUE
    HttpApi = TRUE
    SpfHint = FALSE
    MaxKeys = 2
    Procs = {p1, p2}
    Tenants = {t1, t2}
    Domains = {1, 2, 3}
    Under <- MCUnder
    MaxDomains = 1
    ViaPostal = TRUE
    AllowUnverified = FALSE
    Start <- MCStart
    MaxRows = 3
    MaxActs = 3
SPECIFICATION Spec
SYMMETRY Interchangeable
INVARIANTS TypeOK OnePrimary ClaimsHoldUntilRemoved BridgeMarkIsEarned DomainCap PagesAgreeWithDispatch
CHECK_DEADLOCK FALSE
