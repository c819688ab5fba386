CONSTANTS
    Pointers <- MCPointers
    UNKNOWN <- MCUNKNOWN
    Kinds <- MCKinds
SPECIFICATION Spec
INVARIANT QuestionsAgree
PROPERTIES ImplementsSimple
CHECK_DEADLOCK FALSE
