SPECIFICATION FairSpec
CONSTANTS
    SeqPages = {p1}
    RedirectPages = {r1}
    StorePages = {}
    Logins = {l1}
    Chats = {c1}
    FirstMVar = first
    Seq = seq
    None = none
    MaxRequests = 2
    MaxErrors = 1
INVARIANTS
    TypeOK
    StatusBeforePage
    ProcessSeesOwnPage
    StatusAfterPage
    LogHasDatabase
PROPERTIES
    ChatsAnswered
    RequestsAnswered
    PagesProcessed
CHECK_DEADLOCK FALSE
