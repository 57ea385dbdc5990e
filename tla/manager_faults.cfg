SPECIFICATION Spec
CONSTANTS
    App <- MCApp
    Lower <- MCLower
    DayLength = 2
    Call = {c1, c2}
    MaxU32 = 7
    Close = {k1}
    CloseIds = {1}
    Requests <- Replacing
    Configs <- OpenOnly
    FocusLists <- NoFocus
    Instants = {0}
    FlushLimit = 1
    DbMayFail = TRUE
    MaxRestarts = 1
SYMMETRY CallSymmetry
INVARIANTS
    TypeOK
    StoredBeforeShown
PROPERTIES
    DeliversToasts
    PendingRowsKept
