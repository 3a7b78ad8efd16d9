SPECIFICATION FairSpec
CONSTANTS
    Domain = {d1, d2}
    Service = {s1, s2}
    d1 = d1  d2 = d2  s1 = s1  s2 = s2
    Segments <- Across
    Request <- BothForms
    Metered = {s1}
    Vlan = {1, 2}
    Announced <- TwoRanges
    MaxAnnounced = 3
    MaxRestarts = 1
    NoOne = NoOne
CHECK_DEADLOCK FALSE
INVARIANTS
    TypeOK
    NoSharedVlan
    UpIsHeld
    NothingInvented
    BothEndsShown
PROPERTIES
    ServesAgain
