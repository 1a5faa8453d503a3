---------------------------- MODULE AuthContext ----------------------------
(***************************************************************************)
(* What a user may do, as the server answers it and as the front end shows *)
(* it: the request for a user's role and permission codes, which is two    *)
(* queries, and the React provider that keeps the last answer for the      *)
(* guards, while administrators change memberships, roles and permissions  *)
(* and the user changes the tenant.                                        *)
(*                                                                         *)
(* The features that such an answer also lists are read by                 *)
(* FeatureFlags.ListGlobals and ListOverrides.                             *)
(***************************************************************************)
EXTENDS Naturals

CONSTANTS
    Users,          \* who may log in; stands for the access token as well
    Tenants,
    RoleIds,        \* keys of role rows
    Home,           \* role -> its tenant
    Codes,          \* permission codes
    Calls,          \* requests for the context
    None            \* no user, no role, no request

ASSUME AuthContextAssumption ==
    /\ Home \in [RoleIds -> Tenants]
    /\ None \notin Users \union RoleIds \union Calls

Requests == [user : Users, tenant : Tenants]

VARIABLES
    tenants, roles,             \* rows
    codes,                      \* role -> its permission codes
    member,                     \* user, tenant -> role of the membership
    at, call,                   \* request -> where it is, what it asks
    found, told,                \* request -> the role and the codes of its answer
    token, sel,                 \* props of AuthProvider: the login, the tenant
    pending,                    \* they changed and useEffect has not run
    loading, error, shown,      \* state of AuthProvider; the request of its answer
    \* history
    was,            \* request -> role and codes that were true since its first query
    undone,         \* request -> "role" or "codes": what it read of them changed
    stale           \* requests that a later one overtook, or whose role or codes
                    \* changed since their first query

database == <<tenants, roles, codes, member>>
request == <<at, call, found, told, was, undone>>
provider == <<token, sel, pending, loading, error, shown>>
vars == <<database, request, provider, stale>>

-----------------------------------------------------------------------------
(* Queries *)

Granted(r) == IF r = None THEN {} ELSE codes[r]

\* RBACService.has_permission: one query from the membership to the code.
HasPermission(u, t, c) == c \in Granted(member[<<u, t>>])

\* The membership of the user of q with its role, and the codes of that role.
RoleOf(q) == member[<<call[q].user, call[q].tenant>>]
Truth(q) == <<RoleOf(q), Granted(RoleOf(q))>>

UnderWay(q) == at[q] \notin {"new", "done"}

Goto(q, step) == at' = [at EXCEPT ![q] = step]

Answer(q, r, cs) ==
    /\ Goto(q, "sent")
    /\ found' = [found EXCEPT ![q] = r]
    /\ told' = [told EXCEPT ![q] = cs]

-----------------------------------------------------------------------------
(* The server: UserAuthContextView *)

\* get_object_or_404
FindTenant(q) ==
    /\ at[q] = "tenant"
    /\ Goto(q, IF call[q].tenant \in tenants THEN "role" ELSE "notfound")
    /\ UNCHANGED <<database, call, found, told, was, undone, provider, stale>>

\* The membership and its role in one query; without one the context is empty.
ReadRole(q) ==
    /\ at[q] = "role"
    /\ was' = [was EXCEPT ![q] = {Truth(q)}]
    /\ \/ RoleOf(q) = None /\ Answer(q, None, {})
       \/ /\ RoleOf(q) # None
          /\ Goto(q, "codes")
          /\ found' = [found EXCEPT ![q] = RoleOf(q)]
          /\ UNCHANGED told
    /\ UNCHANGED <<database, call, undone, provider, stale>>

\* A request that asks for the codes of the role its user has by now.
ReadCodesAfresh(q) ==
    /\ at[q] = "codes"
    /\ Answer(q, found[q], Granted(RoleOf(q)))
    /\ UNCHANGED <<database, call, was, undone, provider, stale>>

\* role.permissions: no codes if the role has gone meanwhile.
ReadCodes(q) ==
    /\ at[q] = "codes"
    /\ Answer(q, found[q], Granted(found[q]))
    /\ UNCHANGED <<database, call, was, undone, provider, stale>>

-----------------------------------------------------------------------------
(* AuthProvider *)

\* Login, logout, or a switch of the tenant: the parent renders it with other props
\* and the effect that depends on them runs after that.
SetProps(u, t) ==
    /\ <<u, t>> # <<token, sel>>
    /\ token' = u /\ sel' = t
    /\ pending' = TRUE
    /\ UNCHANGED <<database, request, loading, error, shown, stale>>

\* fetchAuthContext.  A request that is under way is not cancelled.
Send(q) ==
    /\ at[q] = "new"
    /\ Goto(q, "tenant")
    /\ call' = [call EXCEPT ![q] = [user |-> token, tenant |-> sel]]
    /\ stale' = stale \union {p \in Calls : UnderWay(p)}

Load(q) == Send(q) /\ loading' = TRUE /\ error' = FALSE

\* loadContext
LoadContext ==
    \/ token = None /\ loading' = FALSE /\ UNCHANGED <<at, call, error, stale>>
    \/ token # None /\ \E q \in Calls : Load(q)

\* An effect that loads without saying so.
EffectQuietly ==
    /\ pending
    /\ pending' = FALSE
    /\ \/ token = None /\ LoadContext
       \/ token # None /\ UNCHANGED <<loading, error>> /\ \E q \in Calls : Send(q)
    /\ UNCHANGED <<database, found, told, was, undone, token, sel, shown>>

\* useEffect
Effect ==
    /\ pending
    /\ pending' = FALSE
    /\ LoadContext
    /\ UNCHANGED <<database, found, told, was, undone, token, sel, shown>>

\* The context offers loadContext to its components, as refetch.
Refetch ==
    /\ LoadContext
    /\ UNCHANGED <<database, found, told, was, undone, token, sel, pending, shown>>

\* A request ends; what request p has read is of no interest any more.
End(q, p) ==
    /\ Goto(q, "done")
    /\ call' = [x \in Calls |-> IF x = p THEN None ELSE call[x]]
    /\ told' = [x \in Calls |-> IF x = p THEN {} ELSE told[x]]
    /\ stale' = stale \ {p}
    /\ found' = [found EXCEPT ![q] = None]
    /\ was' = [was EXCEPT ![q] = {}]
    /\ undone' = [undone EXCEPT ![q] = {}]
    /\ UNCHANGED <<database, token, sel, pending>>

\* An answer replaces the state, whichever request it answers; React renders it
\* together with the end of loading.
Arrive(q) ==
    /\ at[q] = "sent"
    /\ End(q, shown)
    /\ shown' = q
    /\ loading' = FALSE
    /\ UNCHANGED error

\* A failure that is caught and lets the spinner turn.
FailLoading(q) ==
    /\ UnderWay(q)
    /\ End(q, q)
    /\ error' = TRUE
    /\ UNCHANGED <<loading, shown>>

\* Not found, the login has expired, or the network fails: the state stays.
Fail(q) ==
    /\ UnderWay(q)
    /\ End(q, q)
    /\ error' = TRUE
    /\ loading' = FALSE
    /\ UNCHANGED shown

-----------------------------------------------------------------------------
(* Administrators *)

\* Which of the two that q reads changed between its queries.
Undone(q) ==
    {w \in {"role", "codes"} :
        \/ w \in undone[q]
        \/ w = "role" /\ RoleOf(q)' # found[q]
        \/ w = "codes" /\ codes'[found[q]] # codes[found[q]]}

\* What a change means to the requests that have made a query.
Note ==
    /\ UNCHANGED <<at, call, found, told, provider>>
    /\ was' = [q \in Calls |-> IF at[q] = "codes" THEN was[q] \union {Truth(q)'} ELSE was[q]]
    /\ undone' = [q \in Calls |-> IF at[q] = "codes" THEN Undone(q) ELSE undone[q]]
    /\ stale' = stale \union {q \in Calls :
           /\ at[q] \in {"codes", "sent"} \/ q = shown
           /\ Truth(q)' # Truth(q)}

\* assign_role and revoke_role; the admin site may name a role of another tenant.
Assign(u, t, r) ==
    /\ t \in tenants
    /\ r \in roles
    /\ member' = [member EXCEPT ![<<u, t>>] = r]
    /\ UNCHANGED <<tenants, roles, codes>>
    /\ Note

Revoke(u, t) ==
    /\ member' = [member EXCEPT ![<<u, t>>] = None]
    /\ UNCHANGED <<tenants, roles, codes>>
    /\ Note

\* create_role and RoleAdmin
CreateRole(r) ==
    /\ r \notin roles
    /\ Home[r] \in tenants
    /\ roles' = roles \union {r}
    /\ UNCHANGED <<tenants, codes, member>>
    /\ Note

SetCodes(r, cs) ==
    /\ r \in roles
    /\ codes' = [codes EXCEPT ![r] = cs]
    /\ UNCHANGED <<tenants, roles, member>>
    /\ Note

\* PermissionAdmin
DeletePermission(c) ==
    /\ codes' = [r \in RoleIds |-> codes[r] \ {c}]
    /\ UNCHANGED <<tenants, roles, member>>
    /\ Note

\* The deletion of a role takes only the memberships of its own tenant along.
DropOwn(gone) ==
    /\ roles' = roles \ gone
    /\ codes' = [r \in RoleIds |-> IF r \in gone THEN {} ELSE codes[r]]
    /\ member' = [m \in Users \X Tenants |->
           IF member[m] \in gone /\ Home[member[m]] = m[2] THEN None ELSE member[m]]

\* Roles go with their memberships and grants.
Drop(gone) ==
    /\ roles' = roles \ gone
    /\ codes' = [r \in RoleIds |-> IF r \in gone THEN {} ELSE codes[r]]
    /\ member' = [m \in Users \X Tenants |->
           IF member[m] \in gone \/ m[2] \notin tenants' THEN None ELSE member[m]]

DeleteRole(r) ==
    /\ r \in roles
    /\ UNCHANGED tenants
    /\ Drop({r})
    /\ Note

DeleteTenant(t) ==
    /\ t \in tenants
    /\ tenants' = tenants \ {t}
    /\ Drop({r \in roles : Home[r] = t})
    /\ Note

-----------------------------------------------------------------------------
Init ==
    /\ tenants = Tenants
    /\ roles = RoleIds
    /\ codes = [r \in RoleIds |-> {}]
    /\ member = [m \in Users \X Tenants |-> None]
    /\ at = [q \in Calls |-> "new"] /\ call = [q \in Calls |-> None]
    /\ found = [q \in Calls |-> None] /\ told = [q \in Calls |-> {}]
    /\ token \in Users \union {None} /\ sel \in Tenants
    /\ pending = TRUE /\ loading = TRUE /\ error = FALSE /\ shown = None
    /\ was = [q \in Calls |-> {}] /\ undone = [q \in Calls |-> {}]
    /\ stale = {}

Serve(q) == FindTenant(q) \/ ReadRole(q) \/ ReadCodes(q)

Administer ==
    \/ \E u \in Users, t \in Tenants : Revoke(u, t) \/ \E r \in RoleIds : Assign(u, t, r)
    \/ \E r \in RoleIds :
           CreateRole(r) \/ DeleteRole(r) \/ \E cs \in SUBSET Codes : SetCodes(r, cs)
    \/ \E c \in Codes : DeletePermission(c)
    \/ \E t \in Tenants : DeleteTenant(t)

Next ==
    \/ \E u \in Users \union {None}, t \in Tenants : SetProps(u, t)
    \/ Effect \/ Refetch
    \/ \E q \in Calls : Serve(q) \/ Arrive(q) \/ Fail(q)
    \/ Administer

\* React runs its effects and a fetch settles: the server answers or the browser
\* gives up.
Spec ==
    /\ Init /\ [][Next]_vars
    /\ WF_vars(Effect)
    /\ \A q \in Calls : WF_vars(Serve(q)) /\ WF_vars(Arrive(q) \/ Fail(q))

-----------------------------------------------------------------------------
TypeOK ==
    /\ tenants \subseteq Tenants /\ roles \subseteq RoleIds
    /\ codes \in [RoleIds -> SUBSET Codes]
    /\ member \in [Users \X Tenants -> roles \union {None}]
    /\ at \in [Calls -> {"new", "tenant", "notfound", "role", "codes", "sent", "done"}]
    /\ call \in [Calls -> Requests \union {None}]
    /\ found \in [Calls -> RoleIds \union {None}]
    /\ told \in [Calls -> SUBSET Codes]
    /\ token \in Users \union {None} /\ sel \in Tenants
    /\ pending \in BOOLEAN /\ loading \in BOOLEAN /\ error \in BOOLEAN
    /\ shown \in Calls \union {None}
    /\ was \in [Calls -> SUBSET ((RoleIds \union {None}) \X SUBSET Codes)]
    /\ undone \in [Calls -> SUBSET {"role", "codes"}]
    /\ stale \subseteq Calls

\* The role and the codes of an answer, read by two queries, were true together at
\* some moment between them, unless both changed there: then they may never have
\* been, and a user is told a role with the codes it got after he lost it.
AnswersWereTrue ==
    \A q \in Calls : at[q] = "sent" =>
        <<found[q], told[q]>> \in was[q] \/ undone[q] = {"role", "codes"}

\* While the guards render with a login, they let pass what the server would permit
\* this user in this tenant now, unless something was changed since they asked, the
\* last request failed, an overtaken one arrived, or the effect has yet to run.
GuardsAgree ==
    token # None /\ ~ loading /\ ~ pending /\ ~ error /\ shown \notin stale \union {None} =>
        \A c \in Codes : c \in told[shown] <=> HasPermission(token, sel, c)

\* The guards do not wait for ever: loading ends, by an answer or by a failure.
LoadingEnds == loading ~> ~ loading

=============================================================================
