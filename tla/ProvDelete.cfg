SPECIFICATION Spec
CONSTANTS
    Service = {s1}
    Segment <- TwoSegments
    Request = {r1,r2}
    Domain = {d1, d2}
    DomOf <- OwnDomains
    NoConn = NoConn
    g1 = g1  g2 = g2  d1 = d1  d2 = d2
    TimeoutEnabled = FALSE
    CanFail = TRUE
    SettleMayExpire = TRUE
    DeleteMayFail = TRUE
    MaxRedeliveries = 0
    ReportedStatus = {}
    Legal <- MinLegal
CHECK_DEADLOCK FALSE
INVARIANTS
    TypeOK
    UpIsOperational
    ReservationFollows
PROPERTIES
    NoResurrection
    ImplementsLifecycle
