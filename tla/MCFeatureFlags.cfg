SPECIFICATION Spec
CONSTANTS
    None = None
    Calls = {q1, q2}
    Ids = {i1, i2}
    Tenants = {acme, beta}
    Names = {v2}
SYMMETRY AllSymmetry
INVARIANTS
    TypeOK
    AnswersWereInForce
    TogglesDoNotCollide
PROPERTIES
    ImplementsFlagTable
CHECK_DEADLOCK FALSE
