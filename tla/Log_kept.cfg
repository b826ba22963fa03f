SPECIFICATION FairSpec
CONSTANTS
    Pages = {p1, p2, p3}
    Compressors = {c1, c2}
    Show = show
    None = none
    MaxErrors = 1
    MaxCrashes = 1
INVARIANTS
    LogKept
PROPERTIES
    ShownWhole
    LogCompressed
