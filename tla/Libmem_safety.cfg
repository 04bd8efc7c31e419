SPECIFICATION Spec
CONSTANTS
    Reg = {r1, r2, r3}
    Size = {0, 1, 3}
    CodeSize = 7
INVARIANT TypeOK
INVARIANT NoOverlap
INVARIANT NothingLeaks
INVARIANT NoDeadNodes
PROPERTY HeapSpec
SYMMETRY Registers
CHECK_DEADLOCK FALSE
