SPECIFICATION Spec
CONSTANTS
    t1 = t1
    t2 = t2
    demo = demo
    root = root
    eve = eve
    Nobody = Nobody
    Users = {demo, root}
    Superusers = {root}
    Tenants = {t1, t2}
    Slugs <- MCSlugs
    DefaultSlugs <- MCDefaults
    ManagerSlugs <- MCManagers
    Codes = {"po"}
    MaxEdits = 1
    RoleIds = {1, 2, 3, 4, 5}
    Requests = {q1}
    DemoAdmin = demo
    DemoTenants <- MCDemoTenants
    DemoHome = t1
    DemoGrants <- MCGrants
    DemoRole = "admin"
SYMMETRY RequestSymmetry
INVARIANTS
    RolesStayInTenant
PROPERTIES
    OnlyManagersWrite
    ImplementsRoleTable
CHECK_DEADLOCK FALSE
