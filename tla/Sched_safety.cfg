SPECIFICATION Spec
CONSTANTS
    Pcb = {p1, p2, p3, p4}
    Cpu = {c1, c2}
    MAX_PRIO = 3
    MAX_QUEUE_SIZE = 4
    NULL = NULL
SYMMETRY Symmetry
INVARIANTS TypeOK Exclusive NoDangling NoneLost DispatchedListed ListedOnce
PROPERTIES LevelFifo LifeSpec
