SPECIFICATION Spec
CONSTANTS
    Proc = {p1, p2}
    maxsz = 12
    PAGING_PAGESZ = 1
    PAGING64_PAGESZ = 1
    Heap <- MCHeap
    IoFrames = {}
    IoFpns = {}
    SwapFrames = 1
    LEVELS = 3
    FANOUT = 2
    BYTE = 4
    FPN_MASK = 15
    MaxRange = 2
    MaxCalls = 3
INVARIANT EntryReadBack
SYMMETRY Processes
CHECK_DEADLOCK FALSE
