SPECIFICATION Spec
CONSTANTS
    Writers = {w1, w2}
    N = 2
    Modulus = 64
    MaxCalls = 3
    Nil = Nil
INVARIANTS
    Accounting
    PerWriterOrder
    NoSilentLoss
PROPERTIES
    ReplacesOlderOnly
CHECK_DEADLOCK FALSE
