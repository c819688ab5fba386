\* The process stops when startTransaction exits.
CHECK_DEADLOCK FALSE
SPECIFICATION ScenarioSpec
CONSTANTS
    b1 = b1
    b2 = b2
    b3 = b3
    h1 = h1
    f1 = f1
    Buffers = {b1, b2, b3}
    EntryAlloca = {b1, b2}
    SingleReturn = {b2}
    Sizes <- SizesFixed
    Addrs <- Places
    Heap = {h1}
    HeapAddr <- Heap1Addr
    HeapSize <- Heap1Size
    Funcs = {f1}
    Region <- Regions
    MAX_RETRIES = 1
    MaxNest = 3
    MaxCalls = 2
    MaxStack = 3
    MaxAttempts = 5
INVARIANTS LiveCovered NoStaleEntry PreloadCovers TxAccounting GivesUp
PROPERTIES StartEnds
