SPECIFICATION FairSpec
CONSTANTS
    MaxResizes = 2
    MaxAttempts = 2
INVARIANTS
    TypeOK
    FreedLast
    FaultNeedsOrphan
    SurfaceFresh
PROPERTIES
    KeepsPromise
    CloseEnds
    SyncAnswered
CHECK_DEADLOCK FALSE
