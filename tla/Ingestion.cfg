SPECIFICATION ReadSpec
CONSTANTS
    MaxOpen = 1
    Values = {a, b}
    a = a
    b = b
    MaxRows = 3
SYMMETRY TextSymmetry
INVARIANTS
    IngestInv
    IssuedHashHolds
PROPERTIES
    KeepsPromise
    CountIsExact
