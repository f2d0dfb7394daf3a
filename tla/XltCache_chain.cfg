CONSTANTS
    Units = 6
    MaxAsk = 2
    Words = 4
    PageWords = 4
    LongWords = 2
    Modes = {m1, m2}
    Code <- Plain
    Regions <- NoRegion
SPECIFICATION Spec
INVARIANT OldBlockActive
CHECK_DEADLOCK FALSE
