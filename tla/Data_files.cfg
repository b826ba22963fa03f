SPECIFICATION MCSpec
CONSTANTS
    Updaters = {start, page}
    First = start
    NumDownloads = 2
    Kept = {3}
    NumFiles = 3
    MadeOf <- ThreeMadeOf
    Uses <- ThreeUses
    Early = {1}
    Late = {2}
    UpdateAge = 2
    AttemptAge = 1
    PageAge = 1
    MaxFaults = 1
    MaxStops = 1
    Chats = {c1, c2}
    Seq = seq
    Proc = proc
    Nobody = nobody
    MaxRequests = 1
INVARIANTS
    LuaTypeOK
    UpdatedWhole
    
PROPERTIES
    AsksRarely
    ChatStateKept
    Repaired
    RequestsEnd
