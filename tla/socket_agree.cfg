SPECIFICATION Spec
CONSTANTS
    c1 = c1
    c2 = c2
    c3 = c3
    c4 = c4
    n1 = n1
    n2 = n2
    Client = {c1, c2}
    Note = {n1}
    Big = {}
    MaxSync = 2
    Capacity = 3
    InboxSize = 1
    Asks = {"Hello", "Dismiss", "SetDnd"}
    WireModes = {"DndOn"}
    ConfigModes = {"Total"}
    MaxRequests = 2
    MaxMirrors = 1
    HistoryEnabled = {TRUE}
    MayFail = FALSE
    Reader = {}
    Recording = FALSE
SYMMETRY Symmetric
CHECK_DEADLOCK FALSE
INVARIANTS
    ShellAgreesWithTable
    ShellAgreesOnMode
