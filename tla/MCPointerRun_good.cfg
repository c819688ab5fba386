SPECIFICATION RunSpec
CONSTANTS
    Node = {1, 2, 3, 4, 5, 6, 7, 8, 9, 10, 11, 12, 13, 14, 15, 16}
    Null = Null
    Unknown = Unknown
    UnknownOffset = UnknownOffset
    NoValue = NoValue
    MaxOffset = 2
    Programs <- Good
    Thread = {t1, t2}
    Main = t1
INVARIANTS Sound
PROPERTIES NothingLost Terminates
CHECK_DEADLOCK FALSE
