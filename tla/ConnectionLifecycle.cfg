CONSTANTS
    None = None
    Conns = {c1, c2}
SPECIFICATION Spec
CHECK_DEADLOCK FALSE
INVARIANTS
    TypeOK
    NoFault
    ThreadHasWidget
    ClosedTabSaysSo
PROPERTY NoSilentClose
