SPECIFICATION FairSpec
CONSTANTS
    Node <- Nodes
    None = None
    Programs <- AllPrograms
    Orders <- AnyOrder
INVARIANT WalkComplete WalkExact AccessesHandled
PROPERTY IsGraphWalk Terminates
CHECK_DEADLOCK FALSE
