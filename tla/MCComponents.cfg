SPECIFICATION ComponentSpec
CONSTANTS
    Panels = {"p", "q", "r"}
    Profiles = {"a", "b"}
    GroupProfiles = {"b"}
    LockedProfiles = {"b"}
    Windows = {"v", "w"}
    MaxLoops = 2
    Places <- DiscoveryPlaces
    MaxMessages = 3
    Natives = {"rdp"}
    Pythons = {"toy"}
    MaxRequests = 1
    SavedPasswords = {"p"}
    Copies = {1, 2}
    Searched = {"a", "b"}
    Servers = {"x", "y", "z"}
    Texts <- ListTexts
    MaxRows = 2
    Groups <- TreeGroups
    Names = {"name", "b"}
    CopyName <- NameOfCopy
    MaxIds = 2
    ImportFiles = {"f", "g"}
CHECK_DEADLOCK FALSE
INVARIANTS
    ComponentsTyped
    PanelsRight
    StoreSafe
    ListsReturn
    AppSound
