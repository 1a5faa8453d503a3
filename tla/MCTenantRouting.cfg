SPECIFICATION Spec
CONSTANTS
    old = old
    demo = demo
    shop = shop
    demo_schema = demo_schema
    None = None
    Workers = {w1, w2}
    Hosts = {shop}
    Creators = {c1, c2}
    OldTenants = {}
    DemoTenants = {demo}
    DemoHost <- MCDemoHost
    Schemas = {demo_schema, s}
    OldSchema <- MCOldSchema
    PositiveTTL = 2
    NegativeTTL = 1
    MaxDelay = 1
SYMMETRY AllSymmetry
INVARIANTS
    TypeOK
    ContextIsOwn
    CreationsSettle
PROPERTY
    AnswersAreRecent
CHECK_DEADLOCK FALSE
