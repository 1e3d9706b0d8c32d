SPECIFICATION LiveSpec
CONSTANTS
    Writers = {w1, w2}
    N = 2
    Modulus = 64
    MaxCalls = 3
    Nil = Nil
PROPERTY AvailableIsRead
CHECK_DEADLOCK FALSE
