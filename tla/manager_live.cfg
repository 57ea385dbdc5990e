SPECIFICATION LiveSpec
CONSTANTS
    App <- MCApp
    Lower <- MCLower
    DayLength = 2
    Call = {c1, c2}
    MaxU32 = 7
    Close = {}
    CloseIds = {}
    Requests <- WithCritical
    Configs <- ClosedAndForgetful
    FocusLists <- FocusOnMail
    Instants = {0}
    FlushLimit = 1
    DbMayFail = FALSE
    MaxRestarts = 0
INVARIANTS
    VerdictObeyed
    ShownOnce
    FreshIdsDistinct
PROPERTIES
    EveryCallReturns
    ExitReleasesQueue
