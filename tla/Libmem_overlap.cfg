SPECIFICATION Spec
CONSTANTS
    Reg = {r1, r2, r3}
    Size = {0, 1, 3}
    CodeSize = 4
INVARIANT AddressesApart
SYMMETRY Registers
CHECK_DEADLOCK FALSE
