SPECIFICATION Spec
CONSTANTS
    Service = {s1}
    Segment <- TwoSegments
    Request = {r1}
    Domain = {d1, d2}
    DomOf <- OwnDomains
    NoConn = NoConn
    g1 = g1  g2 = g2  d1 = d1  d2 = d2
    TimeoutEnabled = TRUE
    CanFail = TRUE
    SettleMayExpire = TRUE
    DeleteMayFail = FALSE
    MaxRedeliveries = 0
    ReportedStatus = {"DOWN"}
    Legal <- MaxLegal
CHECK_DEADLOCK FALSE
INVARIANTS
    UpNeedsEverySegment
