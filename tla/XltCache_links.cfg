CONSTANTS
    Units = 6
    MaxAsk = 2
    Words = 4
    PageWords = 4
    LongWords = 2
    Modes = {m1}
    Code <- Loop
    Regions <- NoRegion
SPECIFICATION Spec
INVARIANT UnlinksOnlyLinks
CHECK_DEADLOCK FALSE
