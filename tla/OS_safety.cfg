SPECIFICATION OSSpec
CONSTANTS
    Pcb = {p1, p2, p3}
    Cpu = {c1, c2}
    Loader = ld
    MAX_PRIO = 2
    MAX_QUEUE_SIZE = 3
    NULL = NULL
    num_processes = 3
    time_slot = 2
    Start = {0, 1}
    Size = {1, 3}
    MaxTime = 5
SYMMETRY Symmetry
INVARIANTS WholeSlice WorkConserving NothingLeftBehind AddedOnTime
