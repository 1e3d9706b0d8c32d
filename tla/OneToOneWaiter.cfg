SPECIFICATION LiveSpec
CONSTANTS
    N = 3
    MaxSets = 10
INVARIANTS
    Accounting
    NoLostWakeup
PROPERTIES
    ImplementsLossyFifo
    EverySetSettled
CHECK_DEADLOCK FALSE
