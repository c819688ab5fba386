SPECIFICATION Spec
CONSTANTS
    Block <- Blocks
    Func <- Funcs
    Buffer = {"t", "u"}
    NoBlock = NoBlock
    Programs <- GoodPrograms
    MaxDepth = 3
INVARIANTS Protected WellNested
CHECK_DEADLOCK FALSE
