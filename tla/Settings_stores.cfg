SPECIFICATION Spec
CONSTANTS
    KeptKeys = {kept}
    DayKeys = {}
    Values = {v1}
    Seq = seq
    Procs = {p1}
    Stores = {s1, s2}
    None = none
    Delay = 2
    MaxRequests = 1
    MaxDay = 1
    MaxClicks = 1
    MaxErrors = 1
SYMMETRY Symmetry
INVARIANTS
    ButtonsKept
    NoChangeForgotten
    ServerHasSettings
