SPECIFICATION LateLiveSpec
CONSTANTS
    c1 = c1
    c2 = c2
    c3 = c3
    c4 = c4
    n1 = n1
    n2 = n2
    Client = {c1, c2, c3, c4}
    Note = {n1}
    Big = {n1}
    MaxSync = 2
    Capacity = 1
    InboxSize = 1
    Asks = {"Hello", "InvokeAction", "Query"}
    WireModes = {}
    ConfigModes = {}
    MaxRequests = 1
    MaxMirrors = 0
    HistoryEnabled = {TRUE}
    MayFail = FALSE
    Reader = {c1, c2}
    Recording = TRUE
CHECK_DEADLOCK FALSE
PROPERTIES
    FeedsClients
    EventsArrive
    ConnectionsAccepted
    HelloAnswered
