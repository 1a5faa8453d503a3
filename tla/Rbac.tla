-------------------------------- MODULE Rbac --------------------------------
(***************************************************************************)
(* Roles, memberships and the requests that write them.                    *)
(*                                                                         *)
(* Every web request runs in a gunicorn worker of its own, in autocommit   *)
(* mode: each database statement commits by itself, except inside          *)
(* assign_role, the collector of a delete and the seeding of a tenant,     *)
(* which are transactions.  An action below is therefore one statement or  *)
(* one transaction of a handler, and requests interleave between them.     *)
(* A request is one call of the HTTP API: it is received, passes the role  *)
(* gate of its view, reads its body, runs its service and is answered, or  *)
(* its worker dies on the way.                                             *)
(***************************************************************************)
EXTENDS Naturals, FiniteSets, Functions

CONSTANTS
    Users,          \* rows of the user table
    Superusers,     \* the users whose is_superuser flag is set
    Tenants,        \* tenants that may be created
    Slugs,          \* role slugs
    DefaultSlugs,   \* the keys of DEFAULT_ROLES: owner, admin, member
    ManagerSlugs,   \* owner and admin
    Codes,          \* permission codes
    RoleIds,        \* primary keys of roles; their number bounds how many
                    \* roles are ever created
    MaxEdits,       \* bound on the forms the admin site saves
    Requests,       \* the requests of a behaviour
    Nobody,         \* "no role"
    DemoAdmin,      \* the user seed_demo makes an admin ...
    DemoTenants,    \* ... the tenants it creates ...
    DemoHome,       \* ... the one it makes that user an admin of ...
    DemoGrants,     \* ... and the codes it grants to each default role
    DemoRole        \* ... as which it assigns the user: admin

Ops == {"assign", "revoke", "create"}

Call == [op : Ops, actor : Users, tenant : Tenants]

ASSUME RbacAssumption ==
    /\ Superusers \subseteq Users
    /\ DefaultSlugs \subseteq Slugs
    /\ ManagerSlugs \subseteq DefaultSlugs
    /\ Nobody \notin RoleIds
    /\ Nobody \notin Slugs
    /\ Nobody \notin Call
    /\ DemoAdmin \in Users
    /\ DemoTenants \subseteq Tenants
    /\ DemoHome \in DemoTenants
    /\ DemoRole \in DefaultSlugs
    /\ DemoGrants \in [DefaultSlugs -> SUBSET Codes]
    /\ MaxEdits \in Nat

Pairs == Users \X Tenants

\* How a request ended.  "forbidden": 403.  "invalid": ValidationError or
\* ValidationServiceError.  "conflict", "notfound": the service's errors.
\* "integrity": IntegrityError.  "broker": the audit task could not be queued.
\* "crashed": the worker died.
Replies == {"none", "ok", "forbidden", "invalid", "conflict", "notfound",
            "integrity", "broker", "crashed"}

Steps == {"new", "gate", "manager", "body", "find", "upsert", "insert",
          "lookup", "grant", "collect", "delete", "done"}

VARIABLES
    \* the database
    tenants,        \* rows of Tenant
    role,           \* rows of Role, by primary key
    spent,          \* primary keys given out so far
    membership,     \* UserTenantRole: <<user, tenant>> -> Role key or Nobody
    registry,       \* rows of Permission
    account,        \* user -> "active", "anonymized" or "deleted"
    \* the requests: where each one is, and its local variables
    pc, call, target, slug, codes, row, doomed, reply,
    \* history, read by properties only
    managers,       \* pairs that have held a manager's role at some time
    dropped,        \* codes whose Permission row was deleted at some time
    edits,          \* how many forms of roles and memberships the admin site saved
    edited,         \* the roles those forms added, changed or deleted ...
    placed          \* ... and the pairs whose membership they did

db == <<tenants, role, spent, membership, registry, account>>
locals == <<pc, call, target, slug, codes, row, doomed, reply>>
byHand == <<edits, edited, placed>>
history == <<managers, dropped, byHand>>
vars == <<db, locals, history>>

RoleRow == [tenant : Tenants, slug : Slugs, is_default : BOOLEAN,
            permissions : SUBSET Codes]

-----------------------------------------------------------------------------
(* Queries *)

\* Role.objects.filter(tenant=t, slug=s)
RolesNamed(t, s) == {r \in DOMAIN role : role[r].tenant = t /\ role[r].slug = s}

\* A lookup that forgets the tenant.
RolesNamedAnywhere(t, s) == {r \in DOMAIN role : role[r].slug = s}

\* The role that role_slug names in assign_role.
AssignableRoles(t, s) == RolesNamed(t, s)

HasRole(u, t, slugs) ==
    \/ u \in Superusers
    \/ /\ membership[<<u, t>>] # Nobody
       /\ role[membership[<<u, t>>]].slug \in slugs

\* A tenant resolution that prefers the X-Tenant-ID header to the URL.
ResolveHeaderFirst(kwarg, header) == header

\* The tenant of the URL wins over the X-Tenant-ID header.
ResolveTenant(kwarg, header) == kwarg

\* HasRolePermission.has_permission
Allowed(u, t, slugs) == t \in tenants /\ HasRole(u, t, slugs)

\* view.required_roles
RequiredRoles(op) == IF op = "create" THEN DefaultSlugs ELSE ManagerSlugs

-----------------------------------------------------------------------------
(* Updates *)

Unspent == RoleIds \ spent

\* New roles whose keys may be given out again.
AddRolesReusingKeys(new) ==
    /\ role' = [r \in DOMAIN role \union DOMAIN new |->
                    IF r \in DOMAIN new THEN new[r] ELSE role[r]]
    /\ spent' = spent

\* New roles under fresh primary keys.
AddRoles(new) ==
    /\ role' = [r \in DOMAIN role \union DOMAIN new |->
                    IF r \in DOMAIN new THEN new[r] ELSE role[r]]
    /\ spent' = spent \union DOMAIN new

\* create_default_roles: the rows of the owner, admin and member roles that tenants
\* lack, under fresh primary keys.
DefaultRows(lacking) ==
    LET key == CHOOSE f \in Injection(lacking, Unspent) : TRUE
        of == [r \in Range(key) |-> CHOOSE d \in DOMAIN key : key[d] = r]
    IN  [r \in Range(key) |->
            [tenant |-> of[r][1], slug |-> of[r][2], is_default |-> TRUE,
             permissions |-> {}]]

\* The rows of UserTenantRole for the pairs gone are deleted.  A collector
\* that had read one of those rows will delete nothing for it: a later row of
\* the same pair has another primary key.
DeleteMemberships(gone) ==
    /\ membership' = [p \in Pairs |-> IF p \in gone THEN Nobody ELSE membership[p]]
    /\ doomed' = [q \in Requests |-> doomed[q] \ gone]

\* The pairs that hold a manager's role.
Managing == {p \in Pairs : /\ membership[p] # Nobody
                           /\ role[membership[p]].slug \in ManagerSlugs}

Goto(q, step) ==
    /\ pc' = [pc EXCEPT ![q] = step]
    /\ UNCHANGED reply

Answer(q, r) ==
    /\ pc' = [pc EXCEPT ![q] = "done"]
    /\ reply' = [reply EXCEPT ![q] = r]

\* Of a request that ends without a role of its own nothing but the reply matters.
Close(q, r) ==
    /\ Answer(q, r)
    /\ call' = [call EXCEPT ![q] = Nobody]
    /\ target' = [target EXCEPT ![q] = Nobody]
    /\ slug' = [slug EXCEPT ![q] = Nobody]
    /\ codes' = [codes EXCEPT ![q] = {}]
    /\ row' = [row EXCEPT ![q] = Nobody]

-----------------------------------------------------------------------------
(* Seeding, erasure and the permission registry: no request is involved *)

\* A Tenant row is created (create_tenant, the admin site); its post_save
\* signal creates the default roles in the same transaction.
Provision(t) ==
    /\ t \notin tenants
    /\ Injection({t} \X DefaultSlugs, Unspent) # {}
    /\ tenants' = tenants \union {t}
    /\ AddRoles(DefaultRows({t} \X DefaultSlugs))
    /\ UNCHANGED <<membership, registry, account, locals, history>>

\* The default roles the demo tenants lack.
Lacking == {d \in DemoTenants \X DefaultSlugs : RolesNamed(d[1], d[2]) = {}}

\* seed_demo, run on every deployment in one transaction: the codes, tenants
\* and default roles it lacks are created, the permissions of the roles of a
\* default slug are set anew and the demo administrator is assigned.  After an
\* erasure it makes another user row, outside Users.
Seed ==
    LET fresh == DefaultRows(Lacking)
        granted(r) ==
            IF r.tenant \in DemoTenants /\ r.slug \in DefaultSlugs
            THEN [r EXCEPT !.permissions = DemoGrants[r.slug]] ELSE r
    IN  /\ Injection(Lacking, Unspent) # {}
        /\ tenants' = tenants \union DemoTenants
        /\ registry' = registry \union UNION {DemoGrants[s] : s \in DefaultSlugs}
        /\ role' = [r \in DOMAIN role \union DOMAIN fresh |->
                      granted(IF r \in DOMAIN fresh THEN fresh[r] ELSE role[r])]
        /\ spent' = spent \union DOMAIN fresh
        /\ membership' =
             IF account[DemoAdmin] # "active" THEN membership
             ELSE [membership EXCEPT ![<<DemoAdmin, DemoHome>>] =
                     CHOOSE r \in DOMAIN role' : /\ role'[r].tenant = DemoHome
                                                 /\ role'[r].slug = DemoRole]
        /\ managers' = managers \union Managing'
        /\ UNCHANGED <<account, locals, dropped, byHand>>

\* create_permission, get_or_create_permission: the unique constraint on code
\* makes both end with one row.
RegisterPermission(c) ==
    /\ c \notin registry
    /\ registry' = registry \union {c}
    /\ UNCHANGED <<tenants, role, spent, membership, account, locals, history>>

\* The admin site deletes a Permission row, which takes it from every role.
DeletePermission(c) ==
    /\ c \in registry
    /\ registry' = registry \ {c}
    /\ role' = [r \in DOMAIN role |->
                  [role[r] EXCEPT !.permissions = @ \ {c}]]
    /\ dropped' = dropped \union {c}
    /\ UNCHANGED <<tenants, spent, membership, account, locals, managers, byHand>>

\* An erasure that leaves the user the roles held.
EraseKeepingRoles(u, state) ==
    /\ account[u] = "active" \/ (account[u] = "anonymized" /\ state = "deleted")
    /\ account' = [account EXCEPT ![u] = state]
    /\ UNCHANGED <<tenants, role, spent, membership, registry, locals, history>>

\* GDPRService.anonymize and hard_delete: one transaction.
Erase(u, state) ==
    /\ account[u] = "active" \/ (account[u] = "anonymized" /\ state = "deleted")
    /\ account' = [account EXCEPT ![u] = state]
    /\ DeleteMemberships({u} \X Tenants)
    /\ UNCHANGED <<tenants, role, spent, registry, history,
                   pc, call, target, slug, codes, row, reply>>

-----------------------------------------------------------------------------
(* The forms of roles and memberships in the admin site, each one transaction *)

SavedByHand(roles, pairs) ==
    /\ edits' = edits + 1
    /\ edited' = edited \union roles
    /\ placed' = placed \union pairs

\* Add or change a role: any tenant, slug and standing that is not another
\* role's.  A role that was deleted while its form was saved is inserted again.
SaveRole(r, new) ==
    /\ SavedByHand({r}, {})
    /\ r \in spent \/ (Unspent # {} /\ r = CHOOSE k \in Unspent : TRUE)
    /\ new.tenant \in tenants
    /\ new.permissions \subseteq registry
    /\ RolesNamed(new.tenant, new.slug) \subseteq {r}
    /\ AddRoles([k \in {r} |-> new])
    /\ UNCHANGED <<tenants, membership, registry, account, locals, dropped>>
    /\ managers' = managers \union Managing'

\* Delete a role, with its memberships.
RemoveRole(r) ==
    /\ SavedByHand({r}, {})
    /\ r \in DOMAIN role
    /\ role' = Restrict(role, DOMAIN role \ {r})
    /\ DeleteMemberships({p \in Pairs : membership[p] = r})
    /\ UNCHANGED <<tenants, spent, registry, account, managers, dropped,
                   pc, call, target, slug, codes, row, reply>>

\* Add a membership of the pair p or change that of the pair from, its user and
\* tenant included.  The role may be any role: no form and no constraint asks for
\* its tenant.  A collector that had read the row will delete it wherever it is.
SaveMembership(from, p, r) ==
    /\ SavedByHand({}, {from, p})
    /\ account[p[1]] # "deleted" /\ p[2] \in tenants /\ r \in DOMAIN role
    /\ from = p \/ (membership[from] # Nobody /\ membership[p] = Nobody)
    /\ membership' = [membership EXCEPT ![from] = Nobody, ![p] = r]
    /\ doomed' = [q \in Requests |->
                     IF from \in doomed[q] THEN (doomed[q] \ {from}) \union {p}
                     ELSE doomed[q]]
    /\ UNCHANGED <<tenants, role, spent, registry, account, dropped,
                   pc, call, target, slug, codes, row, reply>>
    /\ managers' = managers \union Managing'

RemoveMembership(p) ==
    /\ SavedByHand({}, {p})
    /\ membership[p] # Nobody
    /\ DeleteMemberships({p})
    /\ UNCHANGED <<tenants, role, spent, registry, account, managers, dropped,
                   pc, call, target, slug, codes, row, reply>>

-----------------------------------------------------------------------------
(* A request, up to its service *)

\* Authentication reads the account and admits an active one.
Receive(q, op, u, t) ==
    /\ pc[q] = "new"
    /\ account[u] = "active"
    /\ call' = [call EXCEPT ![q] = [op |-> op, actor |-> u, tenant |-> t]]
    /\ Goto(q, "gate")
    /\ UNCHANGED <<db, target, slug, codes, row, doomed, history>>

\* The role gate of the view.
Gate(q) ==
    /\ pc[q] = "gate"
    /\ \E header \in Tenants :
         LET t == ResolveTenant(call[q].tenant, header)
         IN  IF Allowed(call[q].actor, t, RequiredRoles(call[q].op))
             THEN /\ Goto(q, IF call[q].op = "create" THEN "manager" ELSE "body")
                  /\ UNCHANGED <<call, target, slug, codes, row>>
             ELSE Close(q, "forbidden")
    /\ UNCHANGED <<db, doomed, history>>

\* RoleDefinitionListView.post asks again, for owner or admin.
ManagerCheck(q) ==
    /\ pc[q] = "manager"
    /\ IF HasRole(call[q].actor, call[q].tenant, ManagerSlugs)
       THEN Goto(q, "body") /\ UNCHANGED <<call, target, slug, codes, row>>
       ELSE Close(q, "forbidden")
    /\ UNCHANGED <<db, doomed, history>>

\* The serializer of an assignment or revocation fetches the target user.
ReadTarget(q, u) ==
    /\ pc[q] = "body"
    /\ call[q].op # "create"
    /\ IF account[u] # "deleted"
       THEN /\ target' = [target EXCEPT ![q] = u]
            /\ Goto(q, "find")
            /\ UNCHANGED <<call, slug, codes, row>>
       ELSE Close(q, "invalid")
    /\ UNCHANGED <<db, doomed, history>>

\* create_role begins with the question whether the slug is taken.
ExistsCheck(q, s, cs) ==
    /\ pc[q] = "body"
    /\ call[q].op = "create"
    /\ IF RolesNamed(call[q].tenant, s) = {}
       THEN /\ slug' = [slug EXCEPT ![q] = s]
            /\ codes' = [codes EXCEPT ![q] = cs]
            /\ Goto(q, "insert")
            /\ UNCHANGED <<call, target, row>>
       ELSE Close(q, "conflict")
    /\ UNCHANGED <<db, doomed, history>>

-----------------------------------------------------------------------------
(* assign_role and revoke_role *)

\* assign_role's transaction begins: it reads the role.
FindRole(q, s) ==
    /\ pc[q] = "find"
    /\ call[q].op = "assign"
    /\ LET found == AssignableRoles(call[q].tenant, s)
       IN  IF found = {}
           THEN Close(q, "notfound")
           ELSE /\ slug' = [slug EXCEPT ![q] = s]
                /\ row' = [row EXCEPT ![q] = CHOOSE r \in found : TRUE]
                /\ Goto(q, "upsert")
                /\ UNCHANGED <<call, target, codes>>
    /\ UNCHANGED <<db, doomed, history>>

\* The foreign keys are checked when the transaction commits.
AssignKeysValid(q) ==
    /\ row[q] \in DOMAIN role
    /\ account[target[q]] # "deleted"
    /\ account[call[q].actor] # "deleted"

\* update_or_create of the membership, the audit row, and commit.  The row of
\* a pair that already has one is updated in place.
AssignCommit(q) ==
    /\ pc[q] = "upsert"
    /\ IF AssignKeysValid(q)
       THEN /\ Close(q, "ok")
            /\ membership' = [membership EXCEPT
                                ![<<target[q], call[q].tenant>>] = row[q]]
       ELSE Close(q, "integrity") /\ UNCHANGED membership
    /\ UNCHANGED <<tenants, role, spent, registry, account, doomed, dropped, byHand>>
    /\ managers' = managers \union Managing'

\* The transaction is rolled back.  Either queueing the audit of the change
\* raised, and the caller hears of it; or the database refused the audit row:
\* AuditService.log swallows the error, and the enclosing atomic block, marked
\* for rollback, undoes the assignment without a word.
AssignRollback(q) ==
    /\ pc[q] = "upsert"
    /\ Close(q, "broker") \/ Close(q, "ok")
    /\ UNCHANGED <<db, doomed, history>>

\* revoke_role; the audit of the deleted row is queued inside its transaction.
Revoke(q) ==
    /\ pc[q] = "find"
    /\ call[q].op = "revoke"
    /\ \/ /\ Close(q, "ok")
          /\ DeleteMemberships({<<target[q], call[q].tenant>>})
       \/ /\ membership[<<target[q], call[q].tenant>>] # Nobody
          /\ Close(q, "broker")
          /\ UNCHANGED <<membership, doomed>>
    /\ UNCHANGED <<tenants, role, spent, registry, account, history>>

-----------------------------------------------------------------------------
(* create_role: no transaction encloses its statements *)

CustomRow(q) == [tenant |-> call[q].tenant, slug |-> slug[q],
                 is_default |-> FALSE, permissions |-> {}]

\* An insert no unique constraint guards.
InsertUnguarded(q) ==
    /\ pc[q] = "insert"
    /\ Unspent # {}
    /\ LET id == CHOOSE r \in Unspent : TRUE
       IN  /\ AddRoles([r \in {id} |-> CustomRow(q)])
           /\ row' = [row EXCEPT ![q] = id]
    /\ IF codes[q] = {} THEN Answer(q, "ok") ELSE Goto(q, "lookup")
    /\ UNCHANGED <<tenants, registry, account, membership,
                   call, target, slug, codes, doomed, history>>

\* Role.objects.create: the row commits before post_save queues its audit.
InsertRole(q) ==
    /\ pc[q] = "insert"
    /\ IF RolesNamed(call[q].tenant, slug[q]) # {}
       THEN Answer(q, "integrity") /\ UNCHANGED <<role, spent, row>>
       ELSE /\ Unspent # {}
            /\ LET id == CHOOSE r \in Unspent : TRUE
               IN  /\ AddRoles([r \in {id} |-> CustomRow(q)])
                   /\ row' = [row EXCEPT ![q] = id]
            /\ \/ Answer(q, "broker")
               \/ codes[q] = {} /\ Answer(q, "ok")
               \/ codes[q] # {} /\ Goto(q, "lookup")
    /\ UNCHANGED <<tenants, registry, account, membership,
                   call, target, slug, codes, doomed, history>>

\* Are all the requested codes registered?
LookupCodes(q) ==
    /\ pc[q] = "lookup"
    /\ Goto(q, IF codes[q] \subseteq registry THEN "grant" ELSE "collect")
    /\ UNCHANGED <<db, call, target, slug, codes, row, doomed, history>>

\* role.permissions.set evaluates the query again, then inserts the links.  A
\* role or a permission that has gone by then fails the foreign key.
GrantCodes(q) ==
    LET granted == codes[q] \intersect registry
    IN  /\ pc[q] = "grant"
        /\ \/ /\ row[q] \in DOMAIN role
              /\ role' = [role EXCEPT ![row[q]].permissions = granted]
              /\ Answer(q, "ok")
           \/ row[q] \notin DOMAIN role /\ granted = {} /\ Answer(q, "ok") /\ UNCHANGED role
           \/ /\ row[q] \notin DOMAIN role \/ codes[q] \intersect dropped # {}
              /\ Answer(q, "integrity")
              /\ UNCHANGED role
        /\ UNCHANGED <<tenants, spent, registry, account, membership,
                       call, target, slug, codes, row, doomed, history>>

\* role.delete() first collects the memberships that point at the role ...
CollectRole(q) ==
    /\ pc[q] = "collect"
    /\ doomed' = [doomed EXCEPT ![q] = {p \in Pairs : membership[p] = row[q]}]
    /\ Goto(q, "delete")
    /\ UNCHANGED <<db, call, target, slug, codes, row, history>>

\* A cleanup that deletes every role of the tenant left without permissions.
DeleteBareRoles(q) ==
    LET bare == {r \in DOMAIN role : /\ role[r].tenant = call[q].tenant
                                     /\ role[r].permissions = {}}
    IN  /\ pc[q] = "delete"
        /\ DeleteMemberships({p \in Pairs : membership[p] \in bare})
        /\ role' = Restrict(role, DOMAIN role \ bare)
        /\ Answer(q, "invalid")
        /\ UNCHANGED <<tenants, spent, registry, account,
                       call, target, slug, codes, row, history>>

\* A cleanup whose failure is swallowed.
DeleteSwallowing(q) ==
    /\ pc[q] = "delete"
    /\ Answer(q, "invalid")
    /\ IF {p \in Pairs : membership[p] = row[q]} \subseteq doomed[q]
       THEN DeleteMemberships(doomed[q]) /\ role' = Restrict(role, DOMAIN role \ {row[q]})
       ELSE UNCHANGED <<membership, doomed, role>>
    /\ UNCHANGED <<tenants, spent, registry, account,
                   call, target, slug, codes, row, history>>

\* ... then, in a transaction, deletes those rows by primary key and the role.
\* A membership that has come to point at the role since fails the commit; so
\* does a broker that refuses the audits.
DeleteRole(q) ==
    /\ pc[q] = "delete"
    /\ \/ /\ {p \in Pairs : membership[p] = row[q]} \subseteq doomed[q]
          /\ DeleteMemberships(doomed[q])
          /\ role' = Restrict(role, DOMAIN role \ {row[q]})
          /\ Answer(q, "invalid")
       \/ /\ ~ ({p \in Pairs : membership[p] = row[q]} \subseteq doomed[q])
          /\ Answer(q, "integrity")
          /\ UNCHANGED <<membership, doomed, role>>
       \/ Answer(q, "broker") /\ UNCHANGED <<membership, doomed, role>>
    /\ UNCHANGED <<tenants, spent, registry, account,
                   call, target, slug, codes, row, history>>

\* The worker is killed; what its statements committed stays.
Crash(q) ==
    /\ pc[q] \notin {"new", "done"}
    /\ Close(q, "crashed")
    /\ doomed' = [doomed EXCEPT ![q] = {}]
    /\ UNCHANGED <<db, history>>

-----------------------------------------------------------------------------
Init ==
    /\ tenants = {}
    /\ role = [r \in {} |-> [tenant |-> Nobody, slug |-> Nobody,
                             is_default |-> FALSE, permissions |-> {}]]
    /\ spent = {}
    /\ membership = [p \in Pairs |-> Nobody]
    /\ registry = {}
    /\ account = [u \in Users |-> "active"]
    /\ pc = [q \in Requests |-> "new"]
    /\ call = [q \in Requests |-> Nobody]
    /\ target = [q \in Requests |-> Nobody]
    /\ slug = [q \in Requests |-> Nobody]
    /\ codes = [q \in Requests |-> {}]
    /\ row = [q \in Requests |-> Nobody]
    /\ doomed = [q \in Requests |-> {}]
    /\ reply = [q \in Requests |-> "none"]
    /\ managers = {}
    /\ dropped = {}
    /\ edits = 0 /\ edited = {} /\ placed = {}

\* The steps of the request q.
Handle(q) ==
    \/ \E op \in Ops, u \in Users, t \in Tenants : Receive(q, op, u, t)
    \/ Gate(q)
    \/ ManagerCheck(q)
    \/ \E u \in Users : ReadTarget(q, u)
    \/ \E s \in Slugs, cs \in SUBSET Codes : ExistsCheck(q, s, cs)
    \/ \E s \in Slugs : FindRole(q, s)
    \/ AssignCommit(q)
    \/ AssignRollback(q)
    \/ Revoke(q)
    \/ InsertRole(q)
    \/ LookupCodes(q)
    \/ GrantCodes(q)
    \/ CollectRole(q)
    \/ DeleteRole(q)
    \/ Crash(q)

\* Steps of the system around the requests.
Surroundings ==
    \/ \E t \in Tenants : Provision(t)
    \/ Seed
    \/ \E c \in Codes : RegisterPermission(c) \/ DeletePermission(c)
    \/ \E u \in Users, state \in {"anonymized", "deleted"} : Erase(u, state)

\* The forms, MaxEdits of them.
AdminSite ==
    /\ edits < MaxEdits
    /\ \/ \E r \in RoleIds : RemoveRole(r) \/ \E new \in RoleRow : SaveRole(r, new)
       \/ \E p \in Pairs : RemoveMembership(p)
       \/ \E from, p \in Pairs, r \in RoleIds : SaveMembership(from, p, r)

Next == Surroundings \/ AdminSite \/ \E q \in Requests : Handle(q)

Spec == Init /\ [][Next]_vars
-----------------------------------------------------------------------------
(* Properties *)

\* The tables and the locals of the requests hold values of their columns'
\* types: a membership points at a role's primary key, a request past its
\* receipt has its call, one past FindRole or InsertRole has its role.
TypeOK ==
    /\ tenants \subseteq Tenants
    /\ spent \subseteq RoleIds
    /\ DOMAIN role \subseteq spent
    /\ role \in [DOMAIN role -> RoleRow]
    /\ membership \in [Pairs -> RoleIds \union {Nobody}]
    /\ registry \subseteq Codes
    /\ account \in [Users -> {"active", "anonymized", "deleted"}]
    /\ pc \in [Requests -> Steps]
    /\ call \in [Requests -> Call \union {Nobody}]
    /\ target \in [Requests -> Users \union {Nobody}]
    /\ slug \in [Requests -> Slugs \union {Nobody}]
    /\ codes \in [Requests -> SUBSET Codes]
    /\ row \in [Requests -> spent \union {Nobody}]
    /\ doomed \in [Requests -> SUBSET Pairs]
    /\ reply \in [Requests -> Replies]
    /\ managers \subseteq Pairs
    /\ dropped \subseteq Codes
    /\ edits \in 0 .. MaxEdits
    /\ edited \subseteq spent
    /\ placed \subseteq Pairs

\* "Roles do NOT transfer across tenants" (UserTenantRole): a membership points
\* at a role that exists, its user still exists, and the role belongs to the
\* membership's own tenant although the table only has a foreign key to Role.
\* Memberships an administrator placed and roles an administrator edited by hand
\* are the exceptions: no form compares the two tenants.
RolesStayInTenant ==
    \A p \in Pairs : membership[p] # Nobody =>
        /\ membership[p] \in DOMAIN role
        /\ account[p[1]] # "deleted"
        /\ \/ role[membership[p]].tenant = p[2]
           \/ p \in placed \/ membership[p] \in edited

\* Role.objects.get(tenant=..., slug=...) never finds two rows, however many
\* create_role calls passed their exists() check together.
SlugNamesOneRole ==
    \A r1, r2 \in DOMAIN role :
        (role[r1].tenant = role[r2].tenant /\ role[r1].slug = role[r2].slug)
        => r1 = r2

\* "System-seeded roles that should not be deleted" (Role.is_default): default roles
\* stay, under the same key, slug and tenant, whatever create_role cleans up after
\* itself and whatever an administrator did to other roles.  Only the form of the
\* role itself deletes, renames or moves one: it does not ask for is_default.
\* (Tenants are not deleted here: the admin site refuses it once the audit log has
\* an entry of theirs, such as that of a default role.)
DefaultRolesStay ==
    [][\A r \in DOMAIN role \ edited' : role[r].is_default =>
         /\ r \in DOMAIN role'
         /\ role'[r].tenant = role[r].tenant
         /\ role'[r].slug = role[r].slug
         /\ role'[r].is_default]_vars

\* A request changes memberships and role definitions of the tenant in its URL
\* only, and only for a caller who is a superuser or has at some time held
\* owner or admin there, however stale its gate is by the time it writes.  A
\* creation whose role an administrator moved meanwhile writes it where it is, and
\* a membership placed in another tenant goes with its role.
OnlyManagersWrite ==
    [][\A q \in Requests : pc'[q] # pc[q] =>
         LET t == call[q].tenant
             touched == {p \in Pairs : membership'[p] # membership[p]}
             changed == {role[r].tenant : r \in {x \in DOMAIN role :
                             x \notin DOMAIN role' \/ role'[x] # role[x]}}
                        \union {role'[r].tenant : r \in DOMAIN role' \ DOMAIN role}
         IN  (touched # {} \/ changed # {}) =>
               /\ \/ call[q].op = "create" /\ row[q] \in edited
                  \/ /\ \A p \in touched \ placed : p[2] = t
                     /\ changed \subseteq {t}
               /\ call[q].actor \in Superusers \/ <<call[q].actor, t>> \in managers]_vars

\* What create_role answered is what it left: after success the role exists and
\* grants every requested code whose Permission row was not deleted since, and
\* no other; after "unknown permission" nothing of the role is left.  Nobody
\* promises that of a role an administrator edited meanwhile, nor of one that takes
\* the slug of a default role that such an edit removed: the seeding grants to it.
AnsweredCreateIsSettled ==
    \A q \in Requests :
        (call[q] # Nobody /\ call[q].op = "create"
           /\ row[q] \notin edited /\ slug[q] \notin DefaultSlugs) =>
        /\ reply[q] = "ok" =>
              /\ row[q] \in DOMAIN role
              /\ codes[q] \ dropped \subseteq role[row[q]].permissions
              /\ role[row[q]].permissions \subseteq codes[q]
        /\ reply[q] = "invalid" => row[q] \notin DOMAIN role

-----------------------------------------------------------------------------
(* The inductive invariant behind the properties above *)

\* Where a request is, its locals have been read.
LocalsRead ==
    \A q \in Requests :
        /\ pc[q] \notin {"new", "done"} => call[q] \in Call
        /\ (pc[q] = "done") <=> (reply[q] # "none")
        /\ pc[q] \in {"find", "upsert"} => target[q] \in Users
        /\ pc[q] = "upsert" => call[q].op = "assign" /\ slug[q] \in Slugs
        /\ pc[q] \in {"manager", "insert", "lookup", "grant", "collect", "delete"}
             => call[q].op = "create"
        /\ pc[q] = "insert" => slug[q] \in Slugs
        /\ pc[q] \in {"new", "gate", "manager", "body", "insert"} => row[q] = Nobody

\* Every role belongs to an existing tenant.
RolesOfTenants == \A r \in DOMAIN role : role[r].tenant \in tenants

\* The role that assign_role read is gone, edited, or still answers to its lookup.
FoundRole ==
    \A q \in Requests :
        (pc[q] = "upsert" /\ row[q] \in DOMAIN role \ edited) =>
            role[row[q]].tenant = call[q].tenant

\* The role a create_role made is its own and, unless edited, its tenant's and no
\* default one.  It exists as long as the request works on it.
IsCreator(q) == call[q] # Nobody /\ call[q].op = "create" /\ row[q] # Nobody

OwnRole ==
    \A q \in Requests : IsCreator(q) =>
        /\ row[q] \in spent
        /\ row[q] \in DOMAIN role \ edited =>
              /\ role[row[q]].tenant = call[q].tenant
              /\ role[row[q]].slug = slug[q]
              /\ ~ role[row[q]].is_default
        /\ \A o \in Requests : (IsCreator(o) /\ row[o] = row[q]) => o = q

UnfinishedRole ==
    \A q \in Requests :
        /\ pc[q] \in {"lookup", "grant", "collect", "delete"} =>
              row[q] \in spent /\ (row[q] \notin edited => row[q] \in DOMAIN role)
        /\ pc[q] = "grant" => codes[q] \ dropped \subseteq registry
        /\ pc[q] = "delete" /\ row[q] \notin edited =>
              \A p \in doomed[q] \ placed : p[2] = call[q].tenant

\* Who holds a manager's role has held one; a request past the gate of its
\* view is a superuser's or one of a manager of an existing tenant.
Authority ==
    /\ Managing \subseteq managers
    /\ \A q \in Requests :
         pc[q] \in {"body", "find", "upsert", "insert", "lookup", "grant",
                    "collect", "delete"} =>
            /\ call[q].tenant \in tenants
            /\ call[q].actor \in Superusers
               \/ <<call[q].actor, call[q].tenant>> \in managers
    /\ \A q \in Requests : pc[q] = "manager" => call[q].tenant \in tenants

\* Nothing is edited by hand without a form.
Counted == edited # {} => edits > 0

IInv ==
    /\ TypeOK
    /\ Counted
    /\ LocalsRead
    /\ RolesOfTenants
    /\ RolesStayInTenant
    /\ SlugNamesOneRole
    /\ FoundRole
    /\ OwnRole
    /\ UnfinishedRole
    /\ Authority
    /\ AnsweredCreateIsSettled

-----------------------------------------------------------------------------
(* Statements of the repository the code does not live up to *)

\* "audit must never break the happy path" (AuditService.log): an assignment
\* that is answered with success has been made.
AnsweredAssignIsMade ==
    [][\A q \in Requests :
         (reply[q] = "none" /\ reply'[q] = "ok" /\ call[q].op = "assign")
         => membership'[<<target[q], call[q].tenant>>] = row[q]]_vars

-----------------------------------------------------------------------------
(* Rbac implements RoleTable *)

\* The roles that no form of the admin site has touched.
Untouched == DOMAIN role \ edited

NamesOf(roles) == {<<role[r].tenant, role[r].slug>> : r \in roles}

Table == INSTANCE RoleTable WITH
    defined <- NamesOf(Untouched),
    default <- NamesOf({r \in Untouched : role[r].is_default}),
    holds <- [p \in Pairs |-> IF p \in placed \/ membership[p] \notin Untouched
                              THEN Nobody ELSE role[membership[p]].slug],
    erased <- {u \in Users : account[u] # "active"}

\* The tables, seen through the slugs they relate and without what was edited by
\* hand, behave as RoleTable promises.
ImplementsRoleTable == Table!Spec

=============================================================================
