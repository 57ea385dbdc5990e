SPECIFICATION LiveSpec
CONSTANTS
    App <- MCApp
    Lower <- MCLower
    DayLength = 2
    Call = {c1}
    MaxU32 = 7
    Close = {}
    CloseIds = {}
    Requests <- Fresh
    Configs <- KeepingOnly
    FocusLists <- NoFocus
    Instants = {0}
    FlushLimit = 1
    DbMayFail = FALSE
    MaxRestarts = 0
PROPERTY NothingStranded
