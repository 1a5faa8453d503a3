# A verification of the RBAC, audit and task core of godown-rbac-system

TLA+ modules that model the multi-tenant RBAC back end in `src/`, TLC
configurations that check them on small instances, and proofs checked by TLAPS.
The first part is the inventory of the system, the second what is modelled and
how it corresponds to the code, then the runs, the proofs, the limits and the
plan.

## 1. Inventory

The system is a Django 5 / DRF application. Web requests run in gunicorn workers
in **autocommit mode** (no `ATOMIC_REQUESTS`): unless a service opens a
transaction, every statement commits by itself. Background work runs in Celery
workers that share the database, the Redis cache and the Redis broker with the
web processes. Nothing else is shared; there are no locks in the code except
those of the database.

| Component | State | Operations | Meets | Hard behaviour |
|---|---|---|---|---|
| RBAC (`services/rbac`, `apps/rbac`) | `Permission`, `Role`, `UserTenantRole` | create role, assign, revoke, gate of views, forms of the admin site | audit signals, GDPR erasure, seeding, admin site | check-then-act across statements, cleanup of a half-made role, gates that are stale by the time of the write |
| Audit (`apps/audit`, `services/audit`) | `AuditLog`, thread-local context | signals of saves and deletes, `write_audit_log`, `AuditService.log` | every audited model, broker, users, tenants | a message sent inside a transaction, at-least-once delivery without idempotency, a task that is never retried, swallowed errors |
| Mail tasks (`apps/*/tasks.py`, `services/common`) | stored results in the cache, messages in the broker | send, retry, skip | users, notifications, SMTP | redelivery, worker loss, lost answers, retry chains |
| GDPR (`services/users/gdpr_service.py`) | user rows and what hangs on them | anonymize, hard delete | RBAC, audit, tokens, mails | runs beside requests that already read the user |
| Seeding (`services/demo`) | demo tenants, roles, administrator | seed, on every deployment | RBAC | repeated on a database in use |
| Provisioning (`services/tenants`) | `Tenant`, `Domain` | create tenant | default roles, audit | check-then-act on names; messages before the commit |
| Tenant routing (`apps/tenants/middleware.py`) | cached hosts | resolve | every request | stale cache entries that nothing invalidates |
| Feature flags (`services/features`) | `FeatureFlag` | set, evaluate | audit | uniqueness not enforced for global flags |
| Accounts (`services/users`, `services/auth`) | `User`, reset and JWT tokens | register, request and confirm reset, log in | mails, erasure | check-then-act on email, tokens used twice |
| Notifications (`apps/notifications`, `services/notifications`) | `Notification`, channel groups, sockets | create, list, mark read, stream, forms of the admin site | mails, sockets, erasure | row against broadcast, joining a group beside a broadcast, pages of a list that changes |
| Auth context (`RBACService`, `examples/frontend`, `dashboard.html`) | memberships, roles, codes; the provider's state | `/me/`, `has_permission`, fetches and guards | the API, the admin site | one answer from two queries, answers out of order |
| Soft-deleted records (`apps/common`) | three columns of a row | delete, restore, purge, admin form | erasure of the deleter | instances read before and saved after a deletion |
| Configuration, health, logging, throttling | none of the program's own | | | |

What makes each of them correct:

* **RBAC**: a membership points at a role of its own tenant; a slug names one
  role of a tenant; default roles stay; of requests, only those of somebody with a
  manager's role write; what a request answered is what it left; a form of the admin
  site breaks these for the rows it writes and no others.
* **Audit**: what commits is recorded, what is recorded took place, with the
  right before-state, actor and tenant.
* **Mail tasks**: no mail is lost silently, duplicates have a cause, retries end.
* **Accounts**: one account per email, a reset token works once, an erased account
  stays erased.
* **Routing**: a request is served for the tenant its host names now.
* **Flags**: an override wins over the global flag, one flag per name and tenant.
* **Notifications**: a client that lists and listens misses nothing; a message has
  its row; what was erased or read stays so.
* **Auth context**: an answer was true when it was put together; guards and server
  agree; loading ends.
* **Records**: the columns tell one story; a deletion lasts.

## 2. Modules

| Module | Models | Extends or uses |
|---|---|---|
| `RoleTable` | what the RBAC tables promise: who holds which role, what may change at once | abstract |
| `Rbac` | requests, erasure, seeding, the permission registry and the admin site over the RBAC tables | refines `RoleTable` |
| `Accounts` | the table of users: registration, password reset, erasure, seeding of the administrator | |
| `TenantRouting` | hosts, their cache and the workers that resolve them; creation of tenants | |
| `FlagTable` | what the overrides promise to whoever toggles them: one write of one cell, or none | abstract |
| `FeatureFlags` | the flags, their evaluation, listing and toggling, the admin site | refines `FlagTable` |
| `AuditTrail` | a change of an audited row, its message, its entry | |
| `EmailTasks` | at-least-once delivery, retries, `IdempotencyService` | |
| `Notifications` | rows, broadcasts, sockets, pages and marks as read, forms of the admin site | |
| `AuthContext` | the context a user is told of, the React provider that shows it, every edit that makes it untrue | |
| `SoftDelete` | the columns of a soft deletion and the instances that write them | |
| `RbacProofs`, `AccountsProofs`, `TenantRoutingProofs`, `FeatureFlagsProofs`, `AuditTrailProofs`, `EmailTasksProofs`, `NotificationsProofs`, `AuthContextProofs` | theorems | extend their module (`AccountsProofs` also `SoftDelete`) and TLAPS |
| `MC` and the name of a module | instances for TLC | extend their module |

The modules meet at interfaces that each of them leaves open: an erasure is
`Accounts.Anonymize`/`HardDelete` for the row of the user, `Rbac.Erase` for the
memberships, `AuditTrail.EraseUser` for the actors of entries, `EmailTasks.Remove` for
mails still to be sent, `Notifications.Erase` for the notifications and
`SoftDelete.DeleteUser` for the deleters of records. The welcome and reset mails that
`Accounts` queues are the jobs of `EmailTasks`.

### Rbac

State: the rows of `Tenant`, `Role`, `UserTenantRole`, `Permission`, the state of
each account, and per request its position (`pc`) and locals (`call`, `target`,
`slug`, `codes`, `row`, `doomed`, `reply`). Primary keys are never reused
(`spent`), as with UUIDs. An action is one statement or one transaction:

* `Receive`, `Gate`, `ManagerCheck`, `ReadTarget`: authentication, the view's
  `HasRolePermission`, the second check of `RoleDefinitionListView.post`, the
  serializer's lookup of the user. Nothing is locked between them and the write.
* `ExistsCheck`, `InsertRole`, `LookupCodes`, `GrantCodes`, `CollectRole`,
  `DeleteRole`: the statements of `create_role`, which has no transaction. The
  permission query is evaluated twice, by `set(permissions.values_list(...))`
  (`rbac_service.py` line 81) and by `permissions.set` (line 88), whose inserts fail
  on a foreign key if a code is deleted under them. The cleanup
  `role.delete()` reads the memberships to cascade over before the transaction
  that deletes them, so a membership assigned in between makes the commit fail on
  its foreign key.
* `FindRole`, `AssignCommit`, `AssignRollback`, `Revoke`: `assign_role` is one
  transaction, but under READ COMMITTED its first read is a step of its own. The
  audit insert inside it may fail and be swallowed, which dooms the transaction.
* `Provision`, `Seed`, `RegisterPermission`, `DeletePermission`, `Erase`: the
  surroundings. `Crash` kills the worker between any two statements.
* `SaveRole`, `RemoveRole`, `SaveMembership`, `RemoveMembership` (`AdminSite`): the
  forms of `RoleAdmin` and `UserTenantRoleAdmin` (`apps/rbac/admin.py`), which add,
  change, move and delete any row, default roles included, and let a membership have a
  role of another tenant. `MaxEdits` bounds how many are saved.

`managers` and `dropped` are history, read by properties only; so are `edited`, the
roles that forms wrote, and `placed`, the pairs whose memberships they wrote.

### Accounts

State: the user rows (`rows`, `account`), the reset links that were mailed
(`mails`), the accounts whose welcome mail was queued (`welcomed`), and per
request its position and locals. A row is its name, address, password and
activity; a password, a primary key and a placeholder identity are named after the
request that made them, which is what "a fresh salt" and "a random tag" amount to.
A link is the triple its signature covers: key, password, address.

* `CheckName`, `CheckEmail`, `Clean`, `Insert`, `Welcome`: the statements of
  `create_user`. The database knows the uniqueness of names only; `full_clean`
  raises an exception nobody catches, the insert one that becomes a conflict;
  `on_commit` may fail after the account is there.
* `FindAccount`, `SendLink`, `CheckLink`, `SavePassword`: the two halves of a
  reset. `CheckLink` may refuse a link that matches (expiry, `last_login`, weak
  password). `save(update_fields=["password"])` leaves the other columns as they
  are by then, and fails on an account that is gone.
* `Anonymize`, `HardDelete`: one transaction each; they come after the command has
  waited for its confirmation. `GetDemo`, `RewriteDemo`: `get_or_create`, then a
  `save()` of every column of what was read, which inserts a row that has gone.

`erased`, `spent` and `outdated` are history. The three properties say what stale
reads must not break. Two things the properties leave out on purpose, because the
code does the opposite: a seeding in flight undoes an erasure of the demo
administrator (`Reseeded`), and a confirmation that overlaps an erasure leaves the
anonymised, inactive account with a usable password.

### TenantRouting

State: the rows of `Tenant` and `Domain`, the cache, each gunicorn worker with the
request it serves and its context variable, and each call of `create_tenant`.

* `Arrive`, `Hit`, `Miss`, `Query`, `Store`, `Respond`: `TenantMiddleware`, one
  action per access to the cache or the database, so that a change of the tables
  falls between the query and `cache.set`. `Decide` is what follows in memory: an
  inactive tenant is refused before the context is set. `Respond` clears the context
  after a view, but not after a refusal or an exempt path. `Fail` and `Kill` are an
  error of the cache or the database and the death of the worker.
* `Tick` ages entries and requests. A worker that exceeds `MaxDelay` must have been
  killed before time goes on, as gunicorn does. `Evict` is Redis.
* `EditDomains`, `SetActive`, `DeleteTenant`: what the forms of the admin site save,
  without touching the cache (`invalidate_cache` has no caller). `Seed`: the tenants
  of the seeding. `Call` ... `Insert`: `create_tenant`, whose checks are not in its
  transaction.

`age` and `lag` are history: the ticks since a cached answer, or the answer a worker
holds, was last what the tables say. They are what "stale" means in
`AnswersAreRecent`. A new tenant's default roles are in `Rbac.Provision`.

### FeatureFlags

State: the tenants that exist, the rows of `FeatureFlag`, and per request its
position, the flag it is about and its answer. A listing is modelled at one of its
names, freely chosen, because `get_active_features` treats names alike.

* `AskOverride`, `AskGlobal`: `is_feature_active`, whose tenant comes from the
  request and is not looked up again. `ListGlobals`, `ListOverrides`:
  `get_active_features`, in the other order.
* `FindFlag`, `InsertFlag`, `FindAgain`: `update_or_create`. The row found is locked
  until the commit, so finding and updating are one action (`Update`); an insert the
  unique key refuses is followed by another look (`FindAgain`); the foreign key of a
  tenant that has gone fails at the commit.
* `SaveFlag`, `DeleteFlag`, `DeleteTenant`: the forms of the admin site, which can
  move a flag, bring one back and duplicate a global one, and the cascade.

`inForce` and `changed` are history: the values a request could have been answered
with, and which layer (override, global) changed during an evaluation. If both do, an
evaluation may combine an old override with a new global flag, a value that was never
in force; `AnswersWereInForce` says that this is the only exception. A row the admin
site moves from a tenant to all of them changes both layers, and a listing can miss it.

`FlagTable` is the view of whoever toggles: a table of values, one for each tenant and
name. A toggle that succeeds is one write of its own tenant's cell, one that fails is
none; an edit of the admin site sets a cell or moves it, the deletion of a tenant clears
its cells and no other's. The mapping takes the value of a cell from its row, of which
`TypeOK` says that there is only one, and the outcome of a toggle from its reply.
Evaluations are no steps of the table.

### AuditTrail

A *writer* is one request or command and makes one change of one audited row:
`toggle` (`set_feature`, a transaction that locks the row), `edit` (admin site,
a transaction that does not lock when it reads), `create` (`create_role`'s
autocommitted insert), `remove` (`revoke_role`), `provision` (tenant and default
roles in one transaction). `Save` is the UPDATE or DELETE with its post-signal,
which compares with what pre_save read and hands the difference to the broker;
`Commit` and `Rollback` come later. Workers take messages (`Deliver`), look up
tenant and actor, insert, acknowledge; `Requeue` is worker loss or redelivery.
`write_audit_log` is a plain task: one that ends in an error is acknowledged and never
retried. It does so in `WriteEntry`, when the actor or the tenant was deleted after its
lookup, and in `BreakTask`, an error of the database at any of its statements. Deleting a
tenant is two actions: `CheckDeletion`, in which the admin site refuses a tenant that has
entries (`AuditLogAdmin.has_delete_permission`), and `DeleteTenant`, whose cascade takes
its rows and the entries written in between. `queued`, `failed`, `overwritten` and
`requeues` are history; `entries` keeps what the cascade took, and `purged` names it. A
row's contents are one value; a message is identified by its writer, because a
writer makes one change. Changes of a role's permissions (`permissions.set`)
emit `m2m_changed`, which no receiver listens to, so they are no changes here.

### EmailTasks

A *job* is one call of a mail task, a *message* a job and its retry number, and
the broker a count of waiting copies of each message. A worker's execution is
cache lookup, read, send, store, acknowledge; any call may fail. a read that finds its
row gone skips the mail. `Retry`
publishes the next attempt or gives up; `Lose` and `Redeliver` put the message
back, the latter while its worker goes on. `excuses` counts, per job, the faults
that entitle it to one more mail, `requeues` the copies made by faults.

### Notifications

State: the rows with their owners, times and marks (`place` is the `created_at` of a row),
how far each creation is and whom it is for (`stage`, `to`), the forms that the admin site
has loaded, the groups of the channel layer, each socket (`conn`, `inbox`, `got`) and each
request. A notification is named by its first `created_at`, taken before the insert.

* `Create`, `Broadcast`: `NotificationService.create`, autocommitted row first. The
  broadcast may fail and be swallowed, or drop the message of a full channel.
* `Authenticate`, `Join`, `Accept`, `Deliver`, `Disconnect`: the middleware, the
  consumer's `connect` (`group_add`, then `accept`) and its events, one at a time.
* `Receive`, `Count`, `Slice`, `NextPage`: a client's walk of the pages. The paginator
  counts and slices in two statements; every page is a request of its own.
* `Get`, `MarkRead`: `mark_read`. `Erase`: both erasures.
* `AddRow`, `LoadForm`, `SaveForm`, `DeleteRow`: `NotificationAdmin`. Nothing is
  broadcast. A save writes every column, the user and `is_read` among them, as loaded or
  as edited, and inserts a row that was erased since it was loaded, with a later
  `created_at`.

`lost` is what the channel layer lost, `since` which sockets were open when a walk began,
`edited` the rows a form wrote, and `shifted` and `thinned` the walks whose pages moved:
by a row inserted between count and slice or taken from the list by a form, or by an
unread row that was read. `NothingMissed` makes `edited` and those two its only
exceptions. (An insert before the count is harmless: it pushes rows to later pages, which
are seen twice.) `MessagesHaveRows` and `ErasedAndReadLast` except the rows in `edited`
only.

### AuthContext

State: memberships, roles and their codes; each request for the context; the props and
the state of `AuthProvider`.

* `FindTenant`, `ReadRole`, `ReadCodes`: `UserAuthContextView`, where the role and its
  codes are two queries. `HasPermission` is `has_permission`, which is one.
* `SetProps`, `Effect`, `Refetch`: a render with another login or tenant, the effect
  that follows it, and `loadContext` called by a component. Requests are not cancelled.
* `Arrive`, `Fail`: the answer, or the failure, of whichever request ends.
* `Assign` ... `DeleteTenant`: every edit that changes what the context should be, those
  of the admin site included.

`was` and `undone` are what was true between the two queries and what changed there;
`stale` are requests overtaken by a later one, or whose subject changed since. The
state is committed together with `loading`, as React batches it.

### SoftDelete

State: the users, the three columns of each row, and the instance each request holds.
`Get` and `GetAll` read through the two managers; `Delete`, `Restore` save the three
columns; `Save` saves all; `Create` and `AddRecord` make a row, in code and with the add
form of the admin site, `FillForm` is its change form; `DeleteQuery` and `PurgeQuery` are
the query sets (of `all_objects`, a plain manager, `delete()` removes rows); `DeleteUser`
is the erasure of a deleter. `edited` is history: the rows whose columns came from a
form. Its names (`RecordsSpec`, `RecordsOK`, ...) are apart from those of `Accounts`, so
that `AccountsProofs` can extend both. `DeletionsLast` does not deny the lost update of a
stale `save()`: whoever read a record while it was active and saves it whole revives it.
It says that nothing else does, a restoration apart.

## 3. Runs

`tlc -config X.cfg M` checks each. Deadlock checking is off in all of them: every
request, writer and job is used once, and the system stops when all are done.

| Run | cfg | Question |
|---|---|---|
| `rbac_requests` | `MCRbac.cfg` | Two requests of one tenant with everything around them, one form of the admin site included: unique slugs, answered creations, default roles |
| `rbac_tenants` | `MCRbacTenants.cfg` | Two tenants with the same slugs, a superuser, an `X-Tenant-ID` that differs from the URL, and a form of the admin site: no role crosses tenants but by a form, authority, refinement of `RoleTable` |
| `rbac_assign` | `MCRbacAssign.cfg` | Violation, below |
| `accounts_requests` | `MCAccounts.cfg` | Four calls of any kind: erasures last, outdated links are refused, registrations settle |
| `accounts_asks` | `MCAccountsAsk.cfg` | Violation, below |
| `audit_entries` | `MCAuditTrail.cfg` | Two changes and two workers with a loss, a redelivery or an error of the database, and deletions of tenants and users: what was queued is entered, once and once more for each redelivery, unless its task broke or its actor or tenant went; what commits under a lock was queued, and with the exact before-state |
| `tenant_routing` | `MCTenantRouting.cfg` | Two workers and two creations on one host, with the admin site, the seeding, evictions and time: staleness is bounded, contexts do not leak, creations settle |
| `feature_flags` | `MCFeatureFlags.cfg` | Two requests of any kind and two rows, with the admin site and deletions of tenants: answers were in force, toggles do not fail each other, refinement of `FlagTable` |
| `email_settles` | `MCEmailTasks.cfg` | Both kinds of mail, two workers, two faults, one retry: nothing lost, duplicates and executions accounted for, everything settles (liveness) |
| `notifications` | `MCNotifications.cfg` | Two notifications, a socket, and two of requests and visits to the forms: nothing is missed beside an open socket, messages have rows, erasures and marks last |
| `auth_context` | `MCAuthContext.cfg` | A login, two tenants and two loads with every edit: answers were true, guards agree with the server, loading ends (liveness) |
| `soft_delete` | `MCSoftDelete.cfg` | Three requests with instances of two rows: the columns agree, deletions last |

**Bounds.** Two requests suffice for every RBAC hazard found: each is a race of one
request's statement with another's, or with a step of the surroundings, which are
unbounded but for the forms. `MaxEdits = 1` allows one form: that breaks every property
that has it as an exception, and puts an edit between any two statements of a request.
The instances have two default slugs, one of them a manager's, and two users; four role
keys are two defaults and a custom role for each of the two requests, or one that a form
adds. `MCRbacTenants` has one request and a superuser, to afford a second tenant with
roles of the same slugs (five keys). Four calls on accounts are a request for a link, two
confirmations and an erasure or a seeding between them; the violation needs two
registrations and a request for a link. One host is enough for routing, because hosts are
independent but for the tenants they name; a lifetime of two ticks against one tells the
two lifetimes apart. Two rows of flags are an override and a global flag, two global
flags, overrides of two tenants, or one that moves; the insert of a third is a bound of
the instance. Two writers are enough for the audit trail: the first makes the row that
the second changes, or both change one row; an edit that overwrites what it has not seen
needs a third, and is an exception of the property. A loss, a redelivery and an error of
the database count together (`MaxFaults`). A page of one notification makes a list of two
a walk of two pages; the second request is a mark as read or another walk, the second
user the one whose erasure and messages must not mix with the first's. `MaxWork = 2`
counts requests and visits together: two requests, or one and a visit, or two visits; a
third `created_at` is for the row that a form inserts again. One role and one code are
enough for `AuthContext`, whose properties speak of one membership; the second tenant is
what makes an answer arrive too late. Three instances of one record are a deletion and
two stale saves around it. `MaxFaults` of the mail tasks bounds worker losses and
redeliveries; two allow a redelivery of a redelivered message, and one retry lets both
copies start a chain. Symmetry is used for interchangeable requests, writers, workers,
users and records, in runs without liveness only.

**Fairness.** `EmailTasks` assumes weak fairness of each worker's own
steps (`Work(w)`). A Celery worker process polls its broker for ever and is
restarted by the platform when it dies; losses are bounded per behaviour. Faults,
submissions and deletions are not fair. `AuthContext` assumes that React runs a
pending effect, that the server goes on with a request it has (`Serve`), and that a
fetch ends, by its answer or by an error (`Arrive` or `Fail`, not one of them); changes
of props, refetches and edits are not fair. The other modules state safety only.

**What the code does not live up to.** Two sentences are refuted by a `violation` run
whose property quotes them:

* `AnsweredAssignIsMade`: the audit insert fails in `assign_role`'s transaction, is
  swallowed, and the assignment is rolled back while the answer is success.
* `AsksAreSilent`: two registrations with one address both succeed; the next
  request for a reset link finds two accounts and fails, where it promises silence.

Others are exceptions of a property, or show in a definition, without a run of their own:

* `create_role` promises ConflictServiceError for a taken slug (`rbac_service.py`
  line 63), but of two creations that pass `exists()` together the second ends in the
  database's IntegrityError (`InsertRole` with reply "integrity").
* An idempotent operation runs again after a worker loss or redelivery, although
  `idempotency.py` says it is executed at most once (line 40). `DuplicatesPaidFor`
  counts what each fault may cost.
* "System-seeded roles that should not be deleted" (`apps/rbac/models.py` line 73): the
  form of `RoleAdmin` and its deletion take no notice of `is_default`. `DefaultRolesStay`
  makes the roles a form wrote (`edited`) its only exception.
* "Roles do NOT transfer across tenants" (`apps/rbac/models.py` line 110): the form of
  `UserTenantRoleAdmin` saves a membership with a role of another tenant, and that of
  `RoleAdmin` moves a role. Memberships and roles that a form wrote (`placed`, `edited`)
  are the exceptions of `RolesStayInTenant` and `OnlyManagersWrite`.
* The README promises an entry for every change (line 56). An edit of a role or
  membership in the admin site, compared with a stale row, overwrites what it has not seen
  and is taken for no change: the exception of `ChangesAreQueued` (a flag has an
  `updated_at` that every save changes, so its edits are always recorded). The insert of
  `create_role` has committed when the broker refuses its record (`PublishInsert`). And a
  record that the broker took is lost when the database fails its task, which is never
  retried, or when the actor or the tenant is deleted between lookup and insert
  (`BreakTask`, `WriteEntry`): the exceptions of `QueuedIsEntered`.
* Forms of notifications broadcast nothing, make a read one unread and insert an erased
  one again, and taking a row from a list that somebody walks hides another from the walk:
  the exceptions of the three properties of `Notifications`.
* A worker faster than the commit of a new tenant enters its default roles without a
  tenant (`FindTenant`), and the tenant's list of entries (`apps/audit/views.py`) does
  not show them. Entries of API calls have no actor (`Actor`): the context is captured
  before the bearer token is looked at.
* The docstring of `apps/notifications/middleware.py` line 75 promises a fall-back to
  the session; a connection without a token is closed (`Authenticate`).
* `Guard.tsx` renders its children only if the user has the permission (lines 15 and
  16). It does so for the former tenant between a render and the effect, after a failed
  load, and after an overtaken answer: the exceptions of `GuardsAgree`.
* The forms of `RecordAdmin` can mark a record deleted, or add one so, that has no time
  of deletion: the exception of `ColumnsAgree`.

## 4. Proofs

TLAPS checks them for every value of the constants, under the assumption of each module
(`RbacAssumption`, `AccountsAssumption`, `TenantRoutingAssumption`,
`FeatureFlagsAssumption`, `AuditTrailAssumption`, `EmailTasksAssumption`,
`NotificationsAssumption`, `AuthContextAssumption`, `SoftDeleteAssumption`), which TLC
evaluates on every run. They say which names are apart and give parameters their types.
Three also take a set to be finite: the workers in `AuditTrail` and `EmailTasks`, whose
histories count what workers hold (a deployment starts a given number of processes), and
the stamps of time in `Notifications`.

* **RbacProofs.** `IInv` strengthens the invariants by what requests in flight know:
  which locals are set (`LocalsRead`), that roles belong to existing tenants
  (`RolesOfTenants`), that the role `assign_role` read is gone, edited by a form or
  unchanged (`FoundRole`), that the role a `create_role` made is its own and nobody
  else's and, until a form writes it, no default (`OwnRole`, needed for its cleanup),
  that until then it exists while the request works on it (`UnfinishedRole`), and that
  whoever is past the gate has been a manager (`Authority`). One lemma per action, those
  of the forms included, shows that it is preserved; the exceptions `edited` and `placed`
  name what forms wrote and nothing else. From it: `TypeCorrect`, `Isolation`,
  `SlugsUnique`, `CreateSettled` and the action properties `DefaultsStay` and
  `OnlyManagers` (`OnlyManagersWrite`): a request moves in its own steps only
  (`OwnSteps`), and each of them that writes is confined to its tenant and made by
  somebody entitled to it. `Refinement` (`ImplementsRoleTable`) is the step simulation:
  one lemma per writing action says which step of `RoleTable` it is. `Isolation` and
  `SlugsUnique` carry it: they make the slug of a membership a slug of its own tenant,
  and the role that the cleanup of `create_role` deletes the only one of its slug. The
  table is that of the roles and memberships no form wrote (`Untouched`): a form takes
  its row out of the table and nothing else.
* **TenantRoutingProofs.** The age of an entry and the ticks it has left add up to
  no more than its lifetime and one request, and what a worker is about to store is
  no older than its request (`EntryFine`, `WorkerFine`). From it `TypeCorrect`,
  `OwnContexts` (`ContextIsOwn`), `Creations` (`CreationsSettle`) and the action
  property `Staleness` (`AnswersAreRecent`).
* **FeatureFlagsProofs.** `AnswersWereInForce` speaks of finished requests only; the
  strengthening says what an unfinished one has read: after the first query, an
  override found missing is still missing or its layer has changed, and a global value
  is still one or its layer has changed (`AskedOverride`, `ListedGlobals`). From it
  `TypeCorrect`, `Evaluations` and `Toggles` (`TogglesDoNotCollide`). `Refinement`
  (`ImplementsFlagTable`) needs to know besides that a request at the steps of a toggle is
  one (`Placed`), and that a cell has the value of its one row. One lemma for each action
  says which step of `FlagTable` it is (`MakeMaps`, `RefuseMaps`, `SaveFlagMaps`, ...).
* **AuditTrailProofs.** The invariant is the lock discipline: a writer about to
  save or commit holds its row and, if it is a toggle, has read what is there; and
  that a difference about to commit is queued. From it `TypeCorrect`,
  `Queued` (`ChangesAreQueued`) and `ExactDiffs` (`ToggleDiffIsExact`). A second
  invariant, `Traced`, says where a queued message is: waiting, with a worker that has
  not tried to write, entered, or excused, because its task met an error of the database
  or its actor or tenant was deleted. It rests on what a worker has looked up being there
  or deleted (`Found`), and on every entry being one of its change's tenant (`Genuine`),
  so that a purge excuses what it takes. From it
  `NothingUnentered` (`QueuedIsEntered`). `EntriesCovered` (`EntriesPaidFor`) counts: for
  every change, the entries in the log, the waiting copies and the workers that have
  yet to write are together no more than what was published and the faults it suffered
  (`Balanced`). Each step moves one of these to another or is paid for by a fault; the
  inequality of the property leaves out the copies and is not inductive without them.
* **EmailTasksProofs.** A job without an outcome has a waiting copy or a worker
  before its acknowledgement; a stored result has an outcome behind it. From it
  `NothingLost` (`NoSilentLoss`) and `TypeCorrect`. The copies of a job are two
  finite sets, the waiting ones and the workers that hold one (`Waits`, `Holders`), and
  the lemmas about them say by how much publishing, taking, releasing and losing
  change their cardinalities. On them rest two ledgers (`Accounts`): the mails of a job
  and what its copies may still send against its first mail and its `excuses`, and its
  executions and the attempts its copies have left against its `requeues`. From them
  `Duplicates` (`DuplicatesPaidFor`) and `Executions` (`RunsBounded`): only the
  deliveries that the code does not itself cause cost a second mail or another chain
  of retries.
* **AccountsProofs.** The properties are not inductive: nothing in them keeps a request
  from writing what it read long ago. The strengthening says which accounts a request has
  to do with, that what a request will write (its key, its password, its placeholder)
  occurs nowhere before it writes it, and that an outdated link differs from the link its
  account would be sent now. Because passwords and placeholders are fresh, a link that
  once stopped fitting never fits again. From it `TypeCorrect`, `ErasureLasts`,
  `Registrations` and the action property `LinksExpire` (`OutdatedLinksRefused`). Its
  second part is about `SoftDelete`, which it extends as well. What a request may write
  back is what it once read, so the invariant (`RInv`) extends the agreement of the
  columns to every instance a request holds (`Agrees`): one read as deleted says so, and
  one a form may fill was read while its row was active. From it `RecordsTyped`
  (`RecordsOK`: every deleter exists), `DeletionStory` (`ColumnsAgree`) and the action
  property `Deletions` (`DeletionsLast`).
* **NotificationsProofs.** `NothingMissed` speaks of finished walks; the strengthening
  follows a walk page by page (`WalkFine`): of the rows on pages already read there is
  none that the client has not been told of, because a row that moves to a later page
  only moves away from what was read; a walk from whose list a form takes a row is
  excepted at that step (`Shift`), and a row that no form wrote keeps its user and its
  place. It needs that an accepted socket is in the group of its user and in no other
  (`SocketFine`) and that a notification being broadcast has its row and is its user's,
  unless a form wrote it (`RowsFine`). From it `TypeCorrect`, `NothingIsMissed`,
  `Messages` (`MessagesHaveRows`) and the action property `ErasuresLast`
  (`ErasedAndReadLast`).
* **AuthContextProofs.** Between the two queries of a request, its role with the codes
  of that moment was true unless both changed (`ReadFine`); a request that is not stale
  agrees with the tables and with the props (`FreshFine`, `ShownFine`). From it
  `TypeCorrect`, `AnswersTrue` (`AnswersWereTrue`) and `GuardsAndServerAgree`
  (`GuardsAgree`).

**Model-checked only.** Liveness (`EveryJobSettles`, `LoadingEnds`) and ENABLED are out of
the prover's reach, and the two properties of the `violation` runs are false. Every other
property of a run is a theorem.

## 5. Not modelled, and assumed

* The broker keeps its messages. Where Redis is not persistent a restart loses
  them, and with them the mails and entries.
* One row's statements are atomic and the isolation level is PostgreSQL's default,
  READ COMMITTED.
* In `Accounts`: sign-in and the JWT library, changes of users in the admin site,
  throttling; keys, passwords and random tags are never drawn twice.
  The one use of a link is asserted of checks that begin after a change has committed
  (`OutdatedLinksRefused`); two checks that overlap both succeed.
* Access tokens are not revoked: an erasure deletes the rows of outstanding tokens, and
  REST authentication asks whether the account is active, but a socket does not
  (`Authenticate` lets an anonymised user in); an open socket outlives its user. The
  tokens themselves are left out.
* In `Notifications`: `NotificationService.create` has no caller in `src/`, so any user
  and any moment is possible; nobody encloses it in a transaction. Ties of `created_at`;
  two forms of one row open at a time.
* In `AuthContext`: superusers, whom `has_permission` lets pass and `/me/` gives no role;
  moving a role to another tenant; panels of `dashboard.html`, which show what they are
  answered.
* In `Rbac`: the deletion of a tenant, which is in `AuthContext`, `TenantRouting`,
  `FeatureFlags` and `AuditTrail`. The admin site refuses it while the tenant has an entry
  in the audit log, as every tenant has whose default roles were recorded under it. Where
  it is let through it takes every role and membership of the tenant with it, default
  roles included: `DefaultRolesStay` is about tenants that stay. A request in flight then
  fails on a foreign key. A form's deletion of a role is one step, with the memberships it
  has then.
* In `AuditTrail`: the messages that a cascade queues for the rows it takes are like those
  of a `remove` and not followed. A tenant made under the name of a deleted one is another
  tenant. Changes of flags, roles and memberships only; `AuditService.log` is in `Rbac`.
* In `SoftDelete`: the primary key in another table, other columns of a record.
* The weights of roles, which nothing compares, `require_role`, which nothing uses,
  read-only lists other than notifications and flags, serialisation, migrations,
  throttling, logging, health checks.
* The local settings run tasks eagerly in the request; the models are of the
  production settings.
* PROJECT.json lists every component, and every hazard with the property that
  covers it or the reason why none does.

## 6. Plan

1. `RoleTable`, `Rbac`, `Accounts`, `TenantRouting`, `FeatureFlags`, `EmailTasks`,
   `AuditTrail`, `Notifications`, `AuthContext`, `SoftDelete`, and the proofs above, the
   refinements of `RoleTable` and `FlagTable` included (done).
2. `Accounts`: an abstract specification of a single-use link, which overlapping
   confirmations do not implement (the sentence of `apps/authentication/views.py`
   line 156); the outstanding JWT tokens and what creates them after an erasure.
3. `TenantRouting`: changes of schema names in the admin site; composition with the
   permission gate of `Rbac`, which prefers the URL and the header to the host.
4. Bring the deletion of tenants into `Rbac` too; compose it with `AuditTrail`, so that
   an RBAC history and its log are compared.
5. Proofs: every safety property of the runs is proved (done); an abstract specification
   of the log, with its refinement.

New modules bring one passing run each; a run whose question a larger one comes to
answer as well is dropped.
