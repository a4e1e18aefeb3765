SPECIFICATION AnyKeysSpec
CONSTANTS
    Nil = Nil
    Cap4 = 2
    Cap16 = 3
    Cap48 = 4
    MaxByte = 5
    Keys <- MCZeroKeys
    Queries <- MCZeroKeys
    Values = {v1}
    MaxStale = 2
    MaxReins = 0
INVARIANTS
    AnyKeyFound
