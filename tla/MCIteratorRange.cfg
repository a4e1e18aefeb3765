CONSTANTS
    Cap4 = 2
    Cap16 = 3
    Cap48 = 4
    MaxByte = 5
    Nil = Nil
    Keys <- MCDocKeys
    Values = {v}
    Starts <- MCDocStarts
    Ranges <- MCDocRanges
    MaxChanges = 0
SPECIFICATION Spec
INVARIANT
    RangeAsDocumented
