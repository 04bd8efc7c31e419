SPECIFICATION OSFairSpec
CONSTANTS
    Pcb = {p1, p2}
    Cpu = {c1}
    Loader = ld
    MAX_PRIO = 2
    MAX_QUEUE_SIZE = 2
    NULL = NULL
    num_processes = 2
    time_slot = 2
    Start = {0, 1}
    Size = {1, 3}
    MaxTime = 3
PROPERTY EveryCpuStops
