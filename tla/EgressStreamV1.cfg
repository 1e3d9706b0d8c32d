SPECIFICATION LiveSpec
CONSTANTS
    BufferSize = 2
    BatchSize = 2
    MaxSets = 5
INVARIANTS
    Conservation
PROPERTIES
    Returns
CHECK_DEADLOCK FALSE
