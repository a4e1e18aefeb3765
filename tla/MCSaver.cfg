CONSTANTS
    Word = 16
    Nil = Nil
    Keys <- MCKeys
    Leaves <- MCLeaves
    Foreign <- MCForeign
    MaxSaves = 2
    MaxFlush = 1
SPECIFICATION Spec
CHECK_DEADLOCK FALSE
INVARIANTS
    TypeOK
    LoadedPrefix
    RoundTrip
    PanicsExplained
    NilsBalanced
PROPERTIES
    ClosedFileStays
    LoadReturns
