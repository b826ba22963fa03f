SPECIFICATION Spec
CONSTANTS
    SeqPages = {p1}
    RedirectPages = {}
    StorePages = {s1}
    Logins = {l1}
    Chats = {}
    FirstMVar = first
    Seq = seq
    None = none
    MaxRequests = 2
    MaxErrors = 1
SYMMETRY Symmetry
INVARIANTS
    FreshRef
    NoDoubleFill
    NoOrphan
CHECK_DEADLOCK FALSE
