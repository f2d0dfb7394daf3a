CONSTANTS
    Units = 6
    MaxAsk = 3
    Words = 8
    PageWords = 4
    LongWords = 2
    Modes = {m1}
    Code <- Program
    Regions <- OnePage
SPECIFICATION Spec
INVARIANTS CacheIntact JumpsLead PrivateCodeFresh
CHECK_DEADLOCK FALSE
