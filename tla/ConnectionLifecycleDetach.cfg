CONSTANTS
    None = None
    Conns = {c1}
SPECIFICATION Spec
CHECK_DEADLOCK FALSE
INVARIANT DetachedInTime
