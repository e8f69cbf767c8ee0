SPECIFICATION HandlersSpec
CONSTANTS
    Keyvals = {"s", "m"}
    Keycodes = {1, 2}
    VncButtons = {1}
    Codes = {1, 2}
    Chars = {1}
    RdpButtons = {"primary"}
    MaxPressed = 2
    HeldTabs = {"a", "b"}
    MaxHeld = 2
    MaxServer = 5
    MaxWidget = 7
    BarTabs = {"a", "b"}
    Features <- ToolbarFeatures
    SshChains <- TriedChains
    Shells = {"a", "b"}
    MaxChans = 2
    UnlockTimeout = 2
    MaxNow = 7
    MaxUses = 2
    MaxCopies = 2
    MaxLocal = 1
    MaxRequests = 2
    Displays = {1, 2}
    Tasks = {"f", "g"}
    MaxKeys = 2
    MaxLogins = 2
    Texts = {"x", "y"}
CHECK_DEADLOCK FALSE
INVARIANTS
    HandlersTyped
    NothingStuck
    ScreenRight
    LoginsSound
    SessionsSound
