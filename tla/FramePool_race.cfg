SPECIFICATION Spec
CONSTANTS
    Thread = {ld, cpu0, cpu1}
    numfp = 4
INVARIANT NoneSkipped
INVARIANT SoundAlone
CHECK_DEADLOCK FALSE
