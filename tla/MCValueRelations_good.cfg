SPECIFICATION MCSpec
CONSTANTS
    MaxInt = 2
    Programs <- MCPrograms
INVARIANTS
    Sound
    Found
PROPERTY
    Terminates
CHECK_DEADLOCK FALSE
