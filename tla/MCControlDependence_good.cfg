SPECIFICATION SpecOfAll
CONSTANTS
    Node = {1, 2, 3, 4}
    NoNode = NoNode
    Graphs <- Branching
    Jobs = {"NTSCD", "closure", "NTSCD2", "Ranganath", "PDF", "SCD"}
    Seeds <- Pairs
    Programs <- MCPrograms
    Algorithms = {"standard", "NTSCD"}
    Main = "main"
    Requests = 2
    Depth = 3
INVARIANTS SearchExact RelationsExact RanganathExact InterprocExact LegacyExact
PROPERTIES Terminates
\* The analysis ends.
CHECK_DEADLOCK FALSE
