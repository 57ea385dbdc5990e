SPECIFICATION IntakeSpec
CONSTANTS
    Char = {"a", "e", "k", "<", "&"}
    Width <- MCWidth
    Markup = {"<", "&"}
    Token <- MCToken
    Meaning <- MCMeaning
    MAX_APP_NAME = 4
    MAX_SUMMARY = 5
    MAX_BODY = 6
    MAX_ICON_LEN = 4
    MAX_ACTIONS = 4
    MAX_IMAGE_DIMENSION = 2
    DataUri <- MCDataUri
    Calls <- MCCalls
    First <- MCFirst
    App <- MCApp
    PER_APP_LIMIT = 2
    GLOBAL_LIMIT = 3
    WINDOW = 2
    Horizon = 4
INVARIANT CapsHold
