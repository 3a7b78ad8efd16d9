SPECIFICATION FairSpec
CONSTANTS
    MaxPublished = 2
    MaxMeasured = 2
    NotJson = {1}
    MaxRestarts = 1
    None = None
CHECK_DEADLOCK FALSE
INVARIANTS
    TypeOK
    Accounted
    KeptOnce
PROPERTIES
    MeasurementsArrive
