SPECIFICATION FairSpec
CONSTANTS
    Renewal = {r1, r2}
    None = None
    MaxSerial = 2
INVARIANTS
    TypeOK
    OwnerAlive
    FinishedMeansNew
    CancelStops
PROPERTIES
    FailedForItself
    RenewalEnds
