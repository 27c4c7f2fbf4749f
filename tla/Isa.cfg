CONSTANTS
    W = 8
    Words <- AnyWords
SPECIFICATION IsaSpec
INVARIANTS
    Inverse
    Complete
    Division
    Product
    ShiftAndOrder
