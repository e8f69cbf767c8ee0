SPECIFICATION Spec
CONSTANTS
    MaxEvents = 2
    MaxSessions = 2
    MaxTasks = 2
    MaxConns = 3
    Sizes = {300, 400}
    Size = 300
CHECK_DEADLOCK FALSE
INVARIANTS
    TypeOK
    FaultsKnown
    SourcesKnown
    TransfersPaired
PROPERTIES
    KeepPromises
    ClosesEnd
    WorkEnds
