SPECIFICATION Spec
CONSTANTS
    Pages = {p1}
    Compressors = {c1}
    Show = show
    None = none
    MaxErrors = 0
    MaxCrashes = 0
PROPERTIES
    CompressedWhole
