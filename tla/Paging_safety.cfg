SPECIFICATION Spec
CONSTANTS
    Proc = {p1, p2}
    maxsz = 6
    PAGING_PAGESZ = 1
    PAGING64_PAGESZ = 1
    Heap <- MCHeap
    IoFrames = {1, 3}
    IoFpns = {0, 3}
    SwapFrames = 1
    LEVELS = 3
    FANOUT = 2
    BYTE = 16
    FPN_MASK = 15
    MaxRange = 2
    MaxCalls = 3
INVARIANT TypeOK
INVARIANT TablesPrivate
INVARIANT PagesAsMapped
INVARIANT FramesAccounted
PROPERTY Isolation
SYMMETRY Processes
CHECK_DEADLOCK FALSE
