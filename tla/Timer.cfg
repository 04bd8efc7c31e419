SPECIFICATION FairSpec
CONSTANTS
    N = 3
    Horizon = 2
INVARIANTS TypeOK Lockstep NoDataRace NoLostWakeup
PROPERTIES NextSlotReturns ShutdownEnds BarrierSpec
