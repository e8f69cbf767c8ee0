CONSTANT MaxConns = 1
SPECIFICATION Spec
CHECK_DEADLOCK FALSE
INVARIANT NoticeReachesOwner
