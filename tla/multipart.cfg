CONSTANTS
    Chars = {"-", "b", "r", "l", "h", "x"}
    Bodies <- MCBodies
    PieceSizes = {0, 1, 3, 8}
    MaxHeaderSize = 6
    SomeMax = 2
    Limit = 2
SPECIFICATION MultipartSpec
INVARIANTS
    DataIsTheBodys
    EndsAsTheBody
PROPERTY CallsReturn
CHECK_DEADLOCK FALSE
