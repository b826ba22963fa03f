SPECIFICATION Spec
CONSTANTS
    KeptKeys = {kept}
    DayKeys = {}
    Values = {v1}
    Seq = seq
    Procs = {}
    Stores = {s1}
    None = none
    Delay = 1
    MaxRequests = 2
    MaxDay = 1
    MaxClicks = 0
    MaxErrors = 1
PROPERTIES
    SetsAvailableState
