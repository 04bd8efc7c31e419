SPECIFICATION WaitFairSpec
CONSTANTS
    Pcb = {p1, p2, p3}
    Cpu = {c1}
    MAX_PRIO = 3
    MAX_QUEUE_SIZE = 3
    NULL = NULL
INVARIANTS BoundedWait
PROPERTIES ReadyIsDispatched
