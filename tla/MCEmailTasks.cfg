SPECIFICATION Spec
CONSTANTS
    Jobs = {welcome, reset}
    Idempotent = {welcome}
    Workers = {w1, w2}
    MaxRetries = 1
    MaxFaults = 2
    Idle = Idle
INVARIANTS
    TypeOK
    NoSilentLoss
    DuplicatesPaidFor
    RunsBounded
PROPERTY
    EveryJobSettles
CHECK_DEADLOCK FALSE
