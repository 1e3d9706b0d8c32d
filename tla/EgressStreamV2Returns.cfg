SPECIFICATION LiveSpec
CONSTANTS
    BufferSize = 2
    BatchSize = 2
    MaxSets = 5
PROPERTY ReturnsIfCancelled
CHECK_DEADLOCK FALSE
