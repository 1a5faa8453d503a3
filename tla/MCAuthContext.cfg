SPECIFICATION Spec
CONSTANTS
    None = None
    t1 = t1
    t2 = t2
    Users = {ann}
    Tenants = {t1, t2}
    RoleIds = {r1}
    Home <- InT1
    Codes = {c1}
    Calls = {q1, q2}
INVARIANTS
    TypeOK
    AnswersWereTrue
    GuardsAgree
PROPERTIES
    LoadingEnds
CHECK_DEADLOCK FALSE
