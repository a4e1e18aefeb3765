SPECIFICATION Spec
CONSTANTS
    Nil = Nil
    Child = {c1, c2}
    Cap4 = 2
    Cap16 = 3
    Cap48 = 5
    MaxByte = 6
CHECK_DEADLOCK FALSE
INVARIANTS
    TypeOK RepOK SlotAvailable ScansRight
PROPERTIES
    ImplementsByteMap
SYMMETRY Symm
