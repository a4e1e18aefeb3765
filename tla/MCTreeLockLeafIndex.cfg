SPECIFICATION FairSpec
CONSTANTS
    None = None
    MaxReins = 0
    Goroutines = {g1, g2}
    Keys = {k1}
    Ops = {"Insert", "LeafIndex"}
CHECK_DEADLOCK FALSE
PROPERTIES
    LeafIndexReturns
