SPECIFICATION LiveSpec
CONSTANTS
    BufferSize = 2
    BatchSize = 2
    MaxSets = 5
INVARIANTS
    Conservation
PROPERTIES
    BatchFlushed
    Released
CHECK_DEADLOCK FALSE
