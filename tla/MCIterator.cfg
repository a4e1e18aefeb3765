CONSTANTS
    Cap4 = 2
    Cap16 = 3
    Cap48 = 4
    MaxByte = 5
    Nil = Nil
    Keys <- MCKeys
    Values = {v}
    Starts <- MCStarts
    Ranges <- MCRanges
    MaxChanges = 2
SPECIFICATION Spec
INVARIANTS
    TypeOK
    TreeCanonical
    NothingLost
    InOrder
PROPERTIES
    TreeIsMap
    ReturnsStored
    NextReturns
