SPECIFICATION Spec
CONSTANTS
    t1 = t1
    t2 = t2
    demo = demo
    root = root
    eve = eve
    Nobody = Nobody
    Users = {demo, eve}
    Superusers = {}
    Tenants = {t1}
    Slugs <- MCSlugs
    DefaultSlugs <- MCDefaults
    ManagerSlugs <- MCManagers
    Codes = {"po"}
    MaxEdits = 1
    RoleIds = {1, 2, 3, 4}
    Requests = {q1, q2}
    DemoAdmin = demo
    DemoTenants <- MCDemoTenants
    DemoHome = t1
    DemoGrants <- MCGrants
    DemoRole = "admin"
PROPERTY
    AnsweredAssignIsMade
CHECK_DEADLOCK FALSE
