SPECIFICATION MCSpec
CONSTANTS
    Top = 5
    v1 = v1
    v2 = v2
    Value <- Values
    None = None
    UNKNOWN_MEMORY = UNKNOWN_MEMORY
    MaxDepth = 3
INVARIANTS
    Sound
    Exact
    Disjoint
    QueriesExact
PROPERTIES MapImplements
CHECK_DEADLOCK FALSE
