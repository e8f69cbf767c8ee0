SPECIFICATION FairSpec
CONSTANT MaxTasks = 1
PROPERTIES
    DestroyReturns
CHECK_DEADLOCK FALSE
