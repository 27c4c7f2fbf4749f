CONSTANTS
    Key <- Keys
    Val <- Vals
    Node <- Nodes
    MaxSize = 3
SPECIFICATION Spec
INVARIANTS
    TypeOK
    Consistent
    MostRecent
PROPERTIES
    ReferencesStable
    ImplementsLRU
CHECK_DEADLOCK FALSE
