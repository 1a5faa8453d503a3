SPECIFICATION Spec
CONSTANTS
    flag = flag
    role = role
    owner = owner
    acme = acme
    globex = globex
    None = None
    Writers = {w1, w2}
    Workers = {k1, k2}
    Users = {u}
    Flags = {flag}
    Roles = {role, owner}
    Tenants = {acme, globex}
    TenantOf <- MCTenantOf
    OldTenants = {acme}
    Values = {on, off}
    Ops <- AllOps
    MaxFaults = 1
SYMMETRY AllSymmetry
INVARIANTS
    TypeOK
    QueuedIsEntered
    ChangesAreQueued
    ToggleDiffIsExact
    EntriesPaidFor
CHECK_DEADLOCK FALSE
