SPECIFICATION LiveSpec
CONSTANTS
    n1 = n1
    n2 = n2
    n3 = n3
    Call = {n1, n2, n3}
    MaxU32 = 2
    App = {"mail", "game"}
    Sender <- MCSender
    IdOf <- MCIdOf
    Latest = 3
    Size <- MCSize
    MaxMessage = 3
    Limits = {1, 2}
    MaxCounts = {1}
    DbMayFail = TRUE
INVARIANTS
    TypeOK
    MissedOnlyAtTies
PROPERTIES
    PagesDescend
    PagingEnds
