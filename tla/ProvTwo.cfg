SPECIFICATION Spec
CONSTANTS
    Service = {s1, s2}
    Segment <- OneSegment
    Request = {r1}
    Domain = {d1, d2}
    DomOf <- OwnDomains
    NoConn = NoConn
    g1 = g1  g2 = g2  d1 = d1  d2 = d2
    TimeoutEnabled = TRUE
    CanFail = FALSE
    SettleMayExpire = TRUE
    DeleteMayFail = FALSE
    MaxRedeliveries = 1
    ReportedStatus = {}
    Legal <- MaxLegal
CHECK_DEADLOCK FALSE
INVARIANTS
    DeleteTargetsCreated
