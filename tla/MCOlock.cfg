SPECIFICATION Spec
CONSTANTS
    None = None
    Threads = {t1, t2}
    Locks = {p, c}
    MaxVersion = 6
    Junk <- MCJunk
CHECK_DEADLOCK FALSE
SYMMETRY Symm
INVARIANTS
    TypeOK LockBit MutualExclusion ReadsValid NoLostUpdate
PROPERTIES
    ObsoleteForever
