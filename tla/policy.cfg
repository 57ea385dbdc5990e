SPECIFICATION Spec
CONSTANTS
    App <- MCApp
    Lower <- MCLower
    DayLength = 4
    Configs <- MCConfigs
    FocusLists <- MCFocusLists
    Horizon = 9
INVARIANTS
    TypeOK
    WindowLength
    BypassNeverSilenced
PROPERTIES
    FullscreenOnlyDefers
    FocusOnlyDemotes
    ExpiryIsFinal
