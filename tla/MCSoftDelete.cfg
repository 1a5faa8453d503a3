SPECIFICATION RecordsSpec
CONSTANTS
    Nothing = Nothing
    Users = {ann, bob}
    Records = {r1, r2}
    Handlers = {q1, q2, q3}
SYMMETRY AllSymmetry
INVARIANTS
    RecordsOK
    ColumnsAgree
PROPERTIES
    DeletionsLast
CHECK_DEADLOCK FALSE
