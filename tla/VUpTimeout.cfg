SPECIFICATION Spec
CONSTANTS
    Service = {s1}
    Segment <- TwoSegments
    Request = {}
    Domain = {d1, d2}
    DomOf <- OwnDomains
    NoConn = NoConn
    g1 = g1  g2 = g2  d1 = d1  d2 = d2
    TimeoutEnabled = TRUE
    CanFail = FALSE
    SettleMayExpire = TRUE
    DeleteMayFail = FALSE
    MaxRedeliveries = 0
    ReportedStatus = {}
    Legal <- MinLegal
CHECK_DEADLOCK FALSE
INVARIANT
    UpIsOperational
