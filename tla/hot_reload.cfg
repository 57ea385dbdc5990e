SPECIFICATION LiveSpec
CONSTANTS
    t1 = t1
    broken = broken
    default = default
    Text = {t1, broken}
    Valid = {t1}
    Default = default
    Capacity = 1
    MaxEvents = 1
    MaxChanges = 2
    Topic = {"fullscreen"}
    State = {"off", "on"}
    Off = "off"
    MaxStream = 2
    MayFail = FALSE
PROPERTY HotReload
