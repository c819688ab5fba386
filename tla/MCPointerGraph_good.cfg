SPECIFICATION Spec
CONSTANTS
    Null = Null
    Unknown = Unknown
    UnknownOffset = UnknownOffset
    Missing = Missing
    FieldSensitivity = 2
    MaxNode = 40
    MaxOffset = 2
    MaxInstance = 2
    MaxDepth = 4
    Programs <- MCPrograms
INVARIANTS
    Validates
    FlowExact
    RunCovered
CHECK_DEADLOCK FALSE
