SPECIFICATION MCSpec
CONSTANTS
    Programs <- Good
    Top = 2
    Own = Own
    Thread = {1, 2, 3}
    Main = 1
    MaxDepth = 2
    Size = 2
    None = None
INVARIANTS
    FlowsPassed
    NoReturnControls
    RegionsRunWhole
    InterferenceFound
    SynchronisationFound
CHECK_DEADLOCK FALSE
