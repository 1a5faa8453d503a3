--------------------------- MODULE TenantRouting ---------------------------
(***************************************************************************)
(* Which tenant a request is served for: the tables of tenants and domains,*)
(* the cache of hosts in front of them, and the workers of gunicorn that   *)
(* resolve hosts while the admin site, create_tenant and the seeding change*)
(* the tables.  Nothing ever invalidates the cache.                        *)
(*                                                                         *)
(* Time passes in ticks.  A cached entry lives for a number of them, and a *)
(* worker that does not finish a request in MaxDelay ticks is killed.      *)
(***************************************************************************)
EXTENDS Naturals

CONSTANTS
    Workers,        \* gunicorn workers, one request at a time each
    Hosts,          \* host names, in lower case
    Creators,       \* calls of create_tenant; also the key of what each creates
    OldTenants,     \* tenants that exist from the start
    DemoTenants,    \* tenants of the seeding
    DemoHost,       \* DemoTenants -> the host it seeds
    Schemas,        \* schema names
    OldSchema,      \* OldTenants and DemoTenants -> schema name
    PositiveTTL,    \* _TENANT_CACHE_TTL
    NegativeTTL,    \* _NEGATIVE_CACHE_TTL
    MaxDelay,       \* the worker timeout of gunicorn
    None

Tenants == OldTenants \union DemoTenants \union Creators

\* What a lookup finds: a row of Tenant as it was, or that there is no domain.
Answers == [tenant : Tenants, active : BOOLEAN] \union {None}

ASSUME TenantRoutingAssumption ==
    /\ None \notin Tenants \union Hosts \union Schemas
    /\ None \notin [tenant : Tenants, active : BOOLEAN]
    /\ Creators \intersect (OldTenants \union DemoTenants) = {}
    /\ DemoHost \in [DemoTenants -> Hosts]
    /\ OldSchema \in [OldTenants \union DemoTenants -> Schemas]
    /\ PositiveTTL \in Nat /\ NegativeTTL \in Nat /\ MaxDelay \in Nat

TTL(a) == IF a = None THEN NegativeTTL ELSE PositiveTTL

Empty == [answer |-> None, left |-> 0, set |-> FALSE]

Entry == [answer : Answers, left : 0 .. PositiveTTL + NegativeTTL, set : BOOLEAN]

VARIABLES
    tenants, schema, active,    \* rows of Tenant
    domains,                    \* host -> the tenant of its row, or None
    cache,                      \* host -> entry
    at, host, answer,           \* a worker and the request it serves
    context,                    \* its context variable
    spent,                      \* ticks since the request arrived
    pc, wanted, where, reply,   \* a call of create_tenant
    \* history
    made,                       \* tenants committed by create_tenant
    age,                        \* ticks since a cached answer was last true
    lag                         \* ticks since the answer of a worker was last true

tables == <<tenants, schema, active, domains>>
request == <<at, host, answer, context, spent>>
call == <<pc, wanted, where, reply>>
truth == <<age, lag>>
vars == <<tables, cache, request, call, made, truth>>

-----------------------------------------------------------------------------
\* What the tables say of a host: Domain joined with Tenant.
Truth(h) ==
    IF domains[h] = None THEN None
    ELSE [tenant |-> domains[h], active |-> active[domains[h]]]

TenantIn(a) == IF a = None THEN None ELSE a.tenant

\* No answer is older than this, as far as any property tells ages apart.
Never == MaxDelay + PositiveTTL + NegativeTTL + 1

Older(n) == IF n < Never THEN n + 1 ELSE Never

\* History: an answer that the changed tables give is true now.
Refresh ==
    /\ age' = [h \in Hosts |-> IF cache[h].answer = Truth(h)' THEN 0 ELSE age[h]]
    /\ lag' = [w \in Workers |->
                  IF host[w] # None /\ answer[w] = Truth(host[w])' THEN 0 ELSE lag[w]]

-----------------------------------------------------------------------------
(* TenantMiddleware *)

Receive(w, h) ==
    /\ at[w] = "idle"
    /\ host' = [host EXCEPT ![w] = h]
    /\ UNCHANGED <<tables, cache, answer, spent, call, made, truth>>

Arrive(w, h) ==
    /\ Receive(w, h)
    /\ at' = [at EXCEPT ![w] = "lookup"]
    /\ UNCHANGED context

\* Exempt paths are served for no tenant, whatever their host.
ArriveExempt(w) ==
    /\ Receive(w, None)
    /\ at' = [at EXCEPT ![w] = "view"]
    /\ context' = [context EXCEPT ![w] = None]

\* An inactive tenant is refused before the context is set; a host without a
\* tenant is served for none, and leaves the context as it is.
Decide(w, a) ==
    IF a # None /\ ~ a.active
    THEN at' = [at EXCEPT ![w] = "refused"] /\ UNCHANGED context
    ELSE /\ at' = [at EXCEPT ![w] = "view"]
         /\ context' = IF a = None THEN context ELSE [context EXCEPT ![w] = a.tenant]

Hit(w) ==
    LET entry == cache[host[w]]
    IN  /\ at[w] = "lookup"
        /\ entry.set
        /\ answer' = [answer EXCEPT ![w] = entry.answer]
        /\ lag' = [lag EXCEPT ![w] = age[host[w]]]
        /\ Decide(w, entry.answer)
        /\ UNCHANGED <<tables, cache, host, spent, call, made, age>>

Miss(w) ==
    /\ at[w] = "lookup"
    /\ ~ cache[host[w]].set
    /\ at' = [at EXCEPT ![w] = "query"]
    /\ UNCHANGED <<tables, cache, host, answer, context, spent, call, made, truth>>

Query(w) ==
    /\ at[w] = "query"
    /\ answer' = [answer EXCEPT ![w] = Truth(host[w])]
    /\ lag' = [lag EXCEPT ![w] = 0]
    /\ at' = [at EXCEPT ![w] = "store"]
    /\ UNCHANGED <<tables, cache, host, context, spent, call, made, age>>

\* A store that takes the lifetime of a domain for that of an unknown host.
StoreLongLived(w) ==
    LET a == answer[w]
    IN  /\ at[w] = "store"
        /\ cache' = [cache EXCEPT ![host[w]] = [answer |-> a, left |-> PositiveTTL, set |-> TRUE]]
        /\ age' = [age EXCEPT ![host[w]] = lag[w]]
        /\ Decide(w, a)
        /\ UNCHANGED <<tables, host, answer, spent, call, made, lag>>

\* What was read is cached, however much has changed since it was read.
Store(w) ==
    LET a == answer[w]
    IN  /\ at[w] = "store"
        /\ cache' = [cache EXCEPT ![host[w]] = [answer |-> a, left |-> TTL(a), set |-> TRUE]]
        /\ age' = [age EXCEPT ![host[w]] = lag[w]]
        /\ Decide(w, a)
        /\ UNCHANGED <<tables, host, answer, spent, call, made, lag>>

\* The end of a request, and of what the worker knew of it.
Finish(w) ==
    /\ at' = [at EXCEPT ![w] = "idle"]
    /\ host' = [host EXCEPT ![w] = None]
    /\ answer' = [answer EXCEPT ![w] = None]
    /\ spent' = [spent EXCEPT ![w] = 0]
    /\ lag' = [lag EXCEPT ![w] = 0]
    /\ UNCHANGED <<tables, cache, call, made, age>>

\* A view that does not give the context back.
RespondOnly(w) == at[w] \in {"view", "refused"} /\ Finish(w) /\ UNCHANGED context

\* clear_tenant follows the view, but neither a refusal nor the view of an exempt path.
Respond(w) ==
    /\ at[w] \in {"view", "refused"}
    /\ context' = IF at[w] = "view" /\ host[w] # None
                  THEN [context EXCEPT ![w] = None] ELSE context
    /\ Finish(w)

\* The cache or the database raises: an error for the caller, nothing else.
Fail(w) ==
    /\ at[w] \in {"lookup", "query", "store"}
    /\ Finish(w)
    /\ UNCHANGED context

\* A worker is killed and replaced by a new process.
Kill(w) ==
    /\ at[w] # "idle"
    /\ context' = [context EXCEPT ![w] = None]
    /\ Finish(w)

-----------------------------------------------------------------------------
(* Time, and the cache server *)

Tick ==
    /\ \A w \in Workers : at[w] = "idle" \/ spent[w] < MaxDelay
    /\ spent' = [w \in Workers |-> IF at[w] = "idle" THEN 0 ELSE spent[w] + 1]
    /\ lag' = [w \in Workers |->
                  IF host[w] = None \/ answer[w] = Truth(host[w]) THEN 0 ELSE Older(lag[w])]
    /\ cache' = [h \in Hosts |->
                    IF cache[h].left = 0 THEN Empty
                    ELSE [cache[h] EXCEPT !.left = @ - 1]]
    /\ age' = [h \in Hosts |->
                  IF cache[h].left = 0 \/ cache[h].answer = Truth(h) THEN 0 ELSE Older(age[h])]
    /\ UNCHANGED <<tables, at, host, answer, context, call, made>>

\* Redis evicts an entry or restarts.
Evict(h) ==
    /\ cache[h].set
    /\ cache' = [cache EXCEPT ![h] = Empty]
    /\ age' = [age EXCEPT ![h] = 0]
    /\ UNCHANGED <<tables, request, call, made, lag>>

-----------------------------------------------------------------------------
(* The admin site: a form of a tenant holds its fields and its domains *)

EditDomains(new) ==
    /\ domains' = new
    /\ UNCHANGED <<tenants, schema, active, cache, request, call, made>>
    /\ Refresh

SetActive(t, b) ==
    /\ t \in tenants
    /\ active' = [active EXCEPT ![t] = b]
    /\ UNCHANGED <<tenants, schema, domains, cache, request, call, made>>
    /\ Refresh

\* A deletion that leaves the domains behind.
DeleteOnly(t) ==
    /\ t \in tenants
    /\ tenants' = tenants \ {t}
    /\ schema' = [schema EXCEPT ![t] = None]
    /\ active' = [active EXCEPT ![t] = TRUE]
    /\ UNCHANGED <<domains, cache, request, call, made>>
    /\ Refresh

\* Its domains go with it.
DeleteTenant(t) ==
    /\ t \in tenants
    /\ tenants' = tenants \ {t}
    /\ schema' = [schema EXCEPT ![t] = None]
    /\ active' = [active EXCEPT ![t] = TRUE]
    /\ domains' = [h \in Hosts |-> IF domains[h] = t THEN None ELSE domains[h]]
    /\ UNCHANGED <<cache, request, call, made>>
    /\ Refresh

-----------------------------------------------------------------------------
(* TenantService.create_tenant *)

SchemaTaken(s) == \E t \in tenants : schema[t] = s

\* The end of a call, and of its arguments.
Answered(c, r) ==
    /\ pc' = [pc EXCEPT ![c] = "done"]
    /\ wanted' = [wanted EXCEPT ![c] = None]
    /\ where' = [where EXCEPT ![c] = None]
    /\ reply' = [reply EXCEPT ![c] = r]

Call(c, s, h) ==
    /\ pc[c] = "new"
    /\ pc' = [pc EXCEPT ![c] = "schema"]
    /\ wanted' = [wanted EXCEPT ![c] = s]
    /\ where' = [where EXCEPT ![c] = h]
    /\ UNCHANGED <<tables, cache, request, reply, made, truth>>

CheckSchema(c) ==
    /\ pc[c] = "schema"
    /\ IF SchemaTaken(wanted[c]) THEN Answered(c, "conflict")
       ELSE pc' = [pc EXCEPT ![c] = "domain"] /\ UNCHANGED <<wanted, where, reply>>
    /\ UNCHANGED <<tables, cache, request, made, truth>>

CheckDomain(c) ==
    /\ pc[c] = "domain"
    /\ IF domains[where[c]] # None THEN Answered(c, "conflict")
       ELSE pc' = [pc EXCEPT ![c] = "insert"] /\ UNCHANGED <<wanted, where, reply>>
    /\ UNCHANGED <<tables, cache, request, made, truth>>

\* The rows of a new tenant.
AddTenant(c) ==
    /\ tenants' = tenants \union {c}
    /\ made' = made \union {c}
    /\ schema' = [schema EXCEPT ![c] = wanted[c]]
    /\ active' = [active EXCEPT ![c] = TRUE]

\* Two statements that commit by themselves: the tenant stays when its domain
\* is refused.
InsertSeparately(c) ==
    /\ pc[c] = "insert"
    /\ UNCHANGED <<cache, request>>
    /\ IF SchemaTaken(wanted[c]) THEN Answered(c, "integrity") /\ UNCHANGED <<tables, made, truth>>
       ELSE /\ AddTenant(c)
            /\ IF domains[where[c]] # None THEN Answered(c, "integrity") /\ UNCHANGED domains
               ELSE Answered(c, "ok") /\ domains' = [domains EXCEPT ![where[c]] = c]
            /\ Refresh

\* One transaction: a name or a host that was taken since is an IntegrityError,
\* which nothing turns into a conflict.
Insert(c) ==
    /\ pc[c] = "insert"
    /\ UNCHANGED <<cache, request>>
    /\ IF SchemaTaken(wanted[c]) \/ domains[where[c]] # None
       THEN Answered(c, "integrity") /\ UNCHANGED <<tables, made, truth>>
       ELSE /\ Answered(c, "ok")
            /\ AddTenant(c)
            /\ domains' = [domains EXCEPT ![where[c]] = c]
            /\ Refresh

\* The process dies, or a statement fails, before the commit.
Abort(c) ==
    /\ pc[c] \in {"schema", "domain", "insert"}
    /\ Answered(c, "none")
    /\ UNCHANGED <<tables, cache, request, made, truth>>

\* DemoSeedService._ensure_tenants in the one transaction of the seeding, which
\* fails on a name or a host that belongs to another tenant.
Seed ==
    /\ \A d \in DemoTenants :
          /\ domains[DemoHost[d]] \in {None, d}
          /\ \A t \in tenants \ {d} : schema[t] # OldSchema[d]
    /\ tenants' = tenants \union DemoTenants
    /\ schema' = [t \in Tenants |-> IF t \in DemoTenants THEN OldSchema[t] ELSE schema[t]]
    /\ active' = [t \in Tenants |-> IF t \in DemoTenants \ tenants THEN TRUE ELSE active[t]]
    /\ domains' = [h \in Hosts |-> IF \E d \in DemoTenants : DemoHost[d] = h
                                   THEN CHOOSE d \in DemoTenants : DemoHost[d] = h
                                   ELSE domains[h]]
    /\ UNCHANGED <<cache, request, call, made>>
    /\ Refresh

-----------------------------------------------------------------------------
Init ==
    /\ tenants = OldTenants
    /\ schema = [t \in Tenants |-> IF t \in OldTenants THEN OldSchema[t] ELSE None]
    /\ active = [t \in Tenants |-> TRUE]
    /\ domains = [h \in Hosts |-> None]
    /\ cache = [h \in Hosts |-> Empty]
    /\ at = [w \in Workers |-> "idle"]
    /\ host = [w \in Workers |-> None]
    /\ answer = [w \in Workers |-> None]
    /\ context = [w \in Workers |-> None]
    /\ spent = [w \in Workers |-> 0]
    /\ pc = [c \in Creators |-> "new"]
    /\ wanted = [c \in Creators |-> None]
    /\ where = [c \in Creators |-> None]
    /\ reply = [c \in Creators |-> "none"]
    /\ made = {}
    /\ age = [h \in Hosts |-> 0]
    /\ lag = [w \in Workers |-> 0]

Serve(w) ==
    \/ \E h \in Hosts : Arrive(w, h)
    \/ ArriveExempt(w)
    \/ Hit(w)
    \/ Miss(w)
    \/ Query(w)
    \/ Store(w)
    \/ Respond(w)
    \/ Fail(w)
    \/ Kill(w)

Create(c) ==
    \/ \E s \in Schemas, h \in Hosts : Call(c, s, h)
    \/ CheckSchema(c)
    \/ CheckDomain(c)
    \/ Insert(c)
    \/ Abort(c)

Administer ==
    \/ \E new \in [Hosts -> tenants \union {None}] : EditDomains(new)
    \/ \E t \in Tenants, b \in BOOLEAN : SetActive(t, b)
    \/ \E t \in Tenants : DeleteTenant(t)
    \/ Seed

Next ==
    \/ \E w \in Workers : Serve(w)
    \/ \E c \in Creators : Create(c)
    \/ \E h \in Hosts : Evict(h)
    \/ Administer
    \/ Tick

Spec == Init /\ [][Next]_vars

-----------------------------------------------------------------------------
(* Properties *)

\* Rows, entries, requests and calls hold values of their types; a domain is of
\* a tenant that exists.
TypeOK ==
    /\ tenants \subseteq Tenants
    /\ schema \in [Tenants -> Schemas \union {None}]
    /\ active \in [Tenants -> BOOLEAN]
    /\ domains \in [Hosts -> tenants \union {None}]
    /\ cache \in [Hosts -> Entry]
    /\ at \in [Workers -> {"idle", "lookup", "query", "store", "view", "refused"}]
    /\ host \in [Workers -> Hosts \union {None}]
    /\ answer \in [Workers -> Answers]
    /\ context \in [Workers -> Tenants \union {None}]
    /\ spent \in [Workers -> 0 .. MaxDelay]
    /\ pc \in [Creators -> {"new", "schema", "domain", "insert", "done"}]
    /\ wanted \in [Creators -> Schemas \union {None}]
    /\ where \in [Creators -> Hosts \union {None}]
    /\ reply \in [Creators -> {"none", "ok", "conflict", "integrity"}]
    /\ made \subseteq Creators
    /\ age \in [Hosts -> 0 .. Never]
    /\ lag \in [Workers -> 0 .. Never]

\* "Redis cache lookup (TENANT_CACHE_TTL seconds)": whoever changes domains and
\* tenants meanwhile, a request is served, or refused, for a tenant as it was at
\* some time within the lifetime of a cached entry and of the request that made
\* the entry; a host that has had a domain for longer is not taken for unknown.
AnswersAreRecent ==
    [][\A w \in Workers :
         (at[w] \in {"lookup", "store"} /\ at'[w] \in {"view", "refused"}) =>
            lag'[w] <= MaxDelay + TTL(answer'[w])]_vars

\* "Tenants cannot observe each other's data through the middleware layer": a
\* view finds in its context the tenant its own request was resolved to, or no
\* tenant, whatever its worker served before.
ContextIsOwn ==
    \A w \in Workers : at[w] = "view" => context[w] = TenantIn(answer[w])

\* "Create a Tenant and its primary Domain atomically": a call that failed, in
\* whatever race, has left no tenant, and one that succeeded has.
CreationsSettle ==
    \A c \in Creators :
        /\ reply[c] = "ok" => c \in made
        /\ reply[c] \in {"conflict", "integrity"} => c \notin made

=============================================================================
