SPECIFICATION FairSpec
CONSTANTS
    Conns = {c1, c2, c3}
    Cookies = {k1, k2}
    SlowHttp = FALSE
    None = none
INVARIANTS
    PagesInOrder
    OneSession
PROPERTIES
    SwitchTakesEffect
    RequestsAnswered
