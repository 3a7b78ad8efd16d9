SPECIFICATION FairSpec
CONSTANTS
    Service = {s1, s2}
    Segment = {g1, g2}
    Link = {l1, l2}
    Route <- TwoRoutes
    FirstRoute <- Mixed
    s1 = s1  s2 = s2  g1 = g1  g2 = g2  l1 = l1  l2 = l2
    p1 = p1  p2 = p2  p3 = p3
    Port = {p1, p2, p3}
    Ends <- TwoEnds
    Stubborn = {g2}
    Reported <- PortsOfS1
    MaxChanges = 2
    Legal <- RecoveryLegal
CHECK_DEADLOCK FALSE
INVARIANT
    UpHasBothPorts
