SPECIFICATION Spec
CONSTANTS
    Nil = Nil
    Cap4 = 2
    Cap16 = 3
    Cap48 = 4
    MaxByte = 6
    Keys <- MCKeys
    Queries <- MCQueries
    Values = {v1}
    MaxStale = 1
    MaxReins = 1
INVARIANTS
    TypeOK WellFormed SizeExact InsertNeverPanics
    AtExact LeafIndexExact FindExactRight
    SearchRight SearchRank
