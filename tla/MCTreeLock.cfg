SPECIFICATION FairSpec
CONSTANTS
    None = None
    MaxReins = 1
    Goroutines = {g1, g2, g3}
    Keys = {k1, k2}
    Ops = {"Insert", "Remove", "Find", "At", "LeafIndex", "String"}
CHECK_DEADLOCK FALSE
INVARIANTS
    TypeOK WriterAlone ConsistentView SizeRight
PROPERTIES
    CallsReturn
