SPECIFICATION Spec
CONSTANTS
    Nil = Nil
    Cap4 = 2
    Cap16 = 3
    Cap48 = 4
    MaxByte = 5
    Keys <- MCFewKeys
    Queries <- MCFewQueries
    Values = {v1}
    MaxStale = 1
    MaxReins = 0
INVARIANTS
    AtNeverPanics
