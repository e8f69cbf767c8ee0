SPECIFICATION Spec
CONSTANTS
    Tabs = {t1, t2}
    MaxSources = 2
SYMMETRY Symmetry
INVARIANTS
    TypeOK
    NoGrabUnfocused
    GrabNeedsConnection
    SourcesDieWithWindow
    SwitchFindsTab
