SPECIFICATION Spec
CONSTANTS
    Block <- Blocks
    Func <- Funcs
    Buffer = {"t", "u"}
    NoBlock = NoBlock
    Programs <- UnprotectedPrograms
    MaxDepth = 3
INVARIANTS Protected
CHECK_DEADLOCK FALSE
