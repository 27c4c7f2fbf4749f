CONSTANTS
    W = 8
    Words <- AnyWords
SPECIFICATION IsaSpec
INVARIANT ShiftAmount
