SPECIFICATION Spec
CONSTANTS
    c1 = c1
    c2 = c2
    c3 = c3
    c4 = c4
    n1 = n1
    n2 = n2
    Client = {c1}
    Note = {n1}
    Big = {}
    MaxSync = 2
    Capacity = 2
    InboxSize = 1
    Asks = {"Hello", "Dismiss", "MarkRead", "ClearAll", "Query"}
    WireModes = {"DndOn"}
    ConfigModes = {}
    MaxRequests = 3
    MaxMirrors = 0
    HistoryEnabled = {TRUE, FALSE}
    MayFail = TRUE
    Reader = {}
    Recording = FALSE
CHECK_DEADLOCK FALSE
INVARIANTS
    TypeOK
    ShellAgreesWithTable
