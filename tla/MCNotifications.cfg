SPECIFICATION Spec
CONSTANTS
    None = None
    Users = {ann, bob}
    Stamps = {1, 2}
    Times = {1, 2, 3}
    MaxWork = 2
    Sockets = {s1}
    Calls = {q1, q2}
    PageSize = 1
SYMMETRY AllSymmetry
INVARIANTS
    TypeOK
    NothingMissed
    MessagesHaveRows
PROPERTIES
    ErasedAndReadLast
CHECK_DEADLOCK FALSE
