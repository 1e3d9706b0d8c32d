SPECIFICATION LiveSpec
CONSTANTS
    Dopplers = {d1}
    Consumers = {c1, c2}
    MaxConnections = 1
    PoolSize = 1
    FinderEvents <- StaticFinderEvents
    Nil = Nil
INVARIANTS
    OneStreamPerDoppler
    RefCountExact
    LiveKeepsSlot
    NoDopplerForgotten
PROPERTIES
    EventuallyStreams
    Drained
CHECK_DEADLOCK FALSE
