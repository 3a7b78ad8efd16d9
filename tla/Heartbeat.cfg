SPECIFICATION FairSpec
CONSTANTS
    a = a  b = b
    Domain <- TwoDomains
    MaxQueue = 2
    MaxRestarts = 1
CHECK_DEADLOCK FALSE
INVARIANTS
    StoreFollows
    ListedIsKnown
    NoFalseUnknown
PROPERTIES
    OnlyHeartbeatsRevive
    LcKeepsServing
    SilenceIsNoticed
