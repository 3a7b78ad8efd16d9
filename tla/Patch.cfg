SPECIFICATION FairSpec
CONSTANTS
    Segment = {g1, g2}
    g1 = g1  g2 = g2
    NoConn = NoConn
    MaxPatches = 1
    Plan <- Growing
    MaxLosses = 1
    CanFail = TRUE
    Legal <- PatchLegal
CHECK_DEADLOCK FALSE
INVARIANTS
    TypeOK
    UpMatchesRequest
    PatchSticks
    NoDoubleProvision
    NothingLost
PROPERTIES
    PatchSettles
    ImplementsTransaction
