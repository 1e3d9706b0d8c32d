SPECIFICATION LiveSpec
CONSTANTS
    Streams = {s1, s2}
    MaxStreams = 1
    BufferSize = 1
    BatchSize = 2
    MaxEnvelopes = 2
INVARIANTS
    SubscriptionsExact
    AdmittedBound
    Conservation
    DrainedOnReturn
PROPERTIES
    StopReturns
    ConsumerExits
CHECK_DEADLOCK FALSE
