SPECIFICATION FairSpec
CONSTANTS
    Pcb = {me, p1, p2, p3}
    Me = me
    cpus = 2
    NULL = NULL
    MAX_QUEUE_SIZE = 3
INVARIANTS ArrayIsQueue UnmovedIsFound OnlyLaterTouched
PROPERTY SearchEnds
