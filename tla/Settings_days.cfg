SPECIFICATION FairSpec
CONSTANTS
    KeptKeys = {kept}
    DayKeys = {day}
    Values = {v1}
    Seq = seq
    Procs = {}
    Stores = {s1}
    None = none
    Delay = 1
    MaxRequests = 3
    MaxDay = 2
    MaxClicks = 0
    MaxErrors = 1
INVARIANTS
    TypeOK
    ServerHasSettings
    DaySettingsExpire
PROPERTIES
    SettingsKept
    ChangesRead
