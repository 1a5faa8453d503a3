------------------------ MODULE TenantRoutingProofs ------------------------
(***************************************************************************)
(* Proofs about TenantRouting: how stale an answer may be, whose context a *)
(* view finds and what a creation leaves, for any number of workers, hosts *)
(* and tenants and any lifetimes.                                          *)
(***************************************************************************)
EXTENDS TenantRouting, TLAPS

\* A worker has a host while it resolves one, has given its context back
\* outside a view, and what it is about to cache is no older than its request.
WorkerFine(w) ==
    /\ at[w] \in {"lookup", "query", "store"} => host[w] \in Hosts
    /\ at[w] = "view" => context[w] = TenantIn(answer[w])
    /\ at[w] # "view" => context[w] = None
    /\ at[w] = "store" => lag[w] <= spent[w]
    /\ at[w] = "idle" \/ host[w] = None => answer[w] = None

\* The answer of an entry has aged by no more than the entry has lived, and the
\* request that made it.
EntryFine(h) ==
    /\ cache[h].set => age[h] + cache[h].left <= MaxDelay + TTL(cache[h].answer)
    /\ ~ cache[h].set => cache[h].left = 0

CallFine(c) ==
    /\ pc[c] \in {"schema", "domain", "insert"} => wanted[c] \in Schemas /\ where[c] \in Hosts
    /\ pc[c] # "done" => reply[c] = "none" /\ c \notin made
    /\ reply[c] = "ok" => c \in made
    /\ reply[c] \in {"conflict", "integrity"} => c \notin made

Served == \A w \in Workers : WorkerFine(w)
Cached == \A h \in Hosts : EntryFine(h)
Called == \A c \in Creators : CallFine(c)

IInv == TypeOK /\ Served /\ Cached /\ Called

-----------------------------------------------------------------------------
LEMMA Numbers ==
    /\ PositiveTTL \in Nat /\ NegativeTTL \in Nat /\ MaxDelay \in Nat
    /\ Never \in Nat
    /\ \A n \in 0 .. Never : Older(n) \in 0 .. Never /\ Older(n) <= n + 1
  BY TenantRoutingAssumption DEF Never, Older

LEMMA Lifetimes ==
    \A a \in Answers : TTL(a) \in 0 .. PositiveTTL + NegativeTTL /\ TTL(a) \in Nat
  BY TenantRoutingAssumption DEF TTL

LEMMA EmptyTyped == Empty \in Entry /\ Empty.left = 0 /\ Empty.set = FALSE /\ Empty.answer = None
  BY Numbers DEF Empty, Entry, Answers

LEMMA TruthTyped ==
    ASSUME TypeOK, NEW h \in Hosts
    PROVE  Truth(h) \in Answers
<1>1. domains[h] \in tenants \union {None}
  BY DEF TypeOK
<1> QED
  BY <1>1 DEF TypeOK, Truth, Answers

LEMMA AnswerTenant ==
    \A a \in Answers : /\ TenantIn(a) \in Tenants \union {None}
                       /\ a # None => a.tenant \in Tenants /\ a.active \in BOOLEAN
  BY DEF TenantIn, Answers

LEMMA InitIInv == Init => IInv
<1> SUFFICES ASSUME Init PROVE IInv
  OBVIOUS
<1> USE Numbers, EmptyTyped
<1>1. TypeOK
  BY TenantRoutingAssumption DEF Init, TypeOK, Tenants, Answers
<1>2. Served /\ Called
  BY DEF Init, Served, WorkerFine, Called, CallFine
<1>3. Cached
  BY DEF Init, Cached, EntryFine
<1> QED
  BY <1>1, <1>2, <1>3 DEF IInv

\* What changes the tables makes no answer older.
LEMMA RefreshKeeps ==
    ASSUME IInv, Refresh, UNCHANGED <<cache, request>>
    PROVE  /\ Served' /\ Cached'
           /\ age' \in [Hosts -> 0 .. Never]
           /\ lag' \in [Workers -> 0 .. Never]
<1> USE Numbers
<1>1. /\ age' \in [Hosts -> 0 .. Never]
      /\ \A h \in Hosts : age'[h] <= age[h]
  BY DEF IInv, TypeOK, Refresh
<1>2. /\ lag' \in [Workers -> 0 .. Never]
      /\ \A w \in Workers : lag'[w] <= lag[w]
  BY DEF IInv, TypeOK, Refresh
<1>3. ASSUME NEW w \in Workers PROVE WorkerFine(w)'
  <2>1. WorkerFine(w)
    BY DEF IInv, Served
  <2>2. lag'[w] <= lag[w] /\ lag'[w] \in Nat /\ lag[w] \in Nat /\ spent[w] \in Nat
    BY <1>2 DEF IInv, TypeOK
  <2> QED
    BY <2>1, <2>2 DEF WorkerFine, request
<1>4. ASSUME NEW h \in Hosts PROVE EntryFine(h)'
  <2>1. EntryFine(h)
    BY DEF IInv, Cached
  <2>2. cache[h].left \in Nat /\ cache[h].answer \in Answers
    BY DEF IInv, TypeOK, Entry
  <2>3. TTL(cache[h].answer) \in Nat
    BY <2>2, Lifetimes
  <2>4. age'[h] <= age[h] /\ age'[h] \in Nat /\ age[h] \in Nat
    BY <1>1 DEF IInv, TypeOK
  <2> QED
    BY <2>1, <2>2, <2>3, <2>4 DEF EntryFine
<1> QED
  BY <1>1, <1>2, <1>3, <1>4 DEF Served, Cached

-----------------------------------------------------------------------------
(* Requests *)

\* A worker's step that leaves tables, calls and cache alone.
LEMMA WorkerStep ==
    ASSUME IInv, NEW w \in Workers,
           UNCHANGED <<tables, cache, call, made, age>>,
           at' \in [Workers -> {"idle", "lookup", "query", "store", "view", "refused"}],
           host' \in [Workers -> Hosts \union {None}],
           answer' \in [Workers -> Answers],
           context' \in [Workers -> Tenants \union {None}],
           spent' \in [Workers -> 0 .. MaxDelay],
           lag' \in [Workers -> 0 .. Never],
           \A v \in Workers \ {w} :
              /\ at'[v] = at[v] /\ host'[v] = host[v] /\ answer'[v] = answer[v]
              /\ context'[v] = context[v] /\ spent'[v] = spent[v] /\ lag'[v] = lag[v],
           WorkerFine(w)'
    PROVE  IInv'
<1>1. TypeOK'
  BY DEF IInv, TypeOK, tables, call
<1>2. ASSUME NEW v \in Workers PROVE WorkerFine(v)'
  <2>1. CASE v # w
    BY <2>1 DEF IInv, Served, WorkerFine
  <2> QED
    BY <2>1
<1>3. Cached'
  BY DEF IInv, Cached, EntryFine
<1>4. Called'
  BY DEF IInv, Called, CallFine, call
<1> QED
  BY <1>1, <1>2, <1>3, <1>4 DEF IInv, Served

LEMMA ArriveStep ==
    ASSUME IInv, NEW w \in Workers,
           ArriveExempt(w) \/ \E h \in Hosts : Arrive(w, h)
    PROVE  IInv'
<1> USE DEF IInv, TypeOK
<1>1. WorkerFine(w) /\ at[w] = "idle" /\ answer[w] = None
  BY DEF Served, WorkerFine, ArriveExempt, Arrive, Receive
<1>2. CASE ArriveExempt(w)
  <2>1. WorkerFine(w)'
    BY <1>1, <1>2 DEF ArriveExempt, Receive, WorkerFine, TenantIn
  <2> QED
    BY <2>1, <1>2, WorkerStep DEF ArriveExempt, Receive, truth
<1>3. ASSUME NEW h \in Hosts, Arrive(w, h) PROVE IInv'
  <2>1. WorkerFine(w)'
    BY <1>1, <1>3 DEF Arrive, Receive, WorkerFine
  <2> QED
    BY <2>1, <1>3, WorkerStep DEF Arrive, Receive, truth
<1> QED
  BY <1>2, <1>3

LEMMA DecideTyped ==
    ASSUME IInv, NEW w \in Workers, NEW a \in Answers, Decide(w, a),
           at[w] \in {"lookup", "store"}
    PROVE  /\ at' \in [Workers -> {"idle", "lookup", "query", "store", "view", "refused"}]
           /\ context' \in [Workers -> Tenants \union {None}]
           /\ at'[w] \in {"view", "refused"}
           /\ at'[w] = "view" => context'[w] = TenantIn(a)
           /\ at'[w] # "view" => context'[w] = None
           /\ \A v \in Workers \ {w} : at'[v] = at[v] /\ context'[v] = context[v]
<1>1. context[w] = None
  BY DEF IInv, Served, WorkerFine
<1>2. at \in [Workers -> {"idle", "lookup", "query", "store", "view", "refused"}]
      /\ context \in [Workers -> Tenants \union {None}]
  BY DEF IInv, TypeOK
<1>3. CASE a # None /\ ~ a.active
  BY <1>1, <1>2, <1>3 DEF Decide
<1>4. CASE a = None
  BY <1>1, <1>2, <1>4 DEF Decide, TenantIn
<1>5. CASE a # None /\ a.active
  <2>1. a.tenant \in Tenants
    BY <1>5, AnswerTenant
  <2> QED
    BY <1>1, <1>2, <1>5, <2>1 DEF Decide, TenantIn
<1>6. a = None \/ a.active \in BOOLEAN
  BY AnswerTenant
<1> QED
  BY <1>3, <1>4, <1>5, <1>6

LEMMA HitStep ==
    ASSUME IInv, NEW w \in Workers, Hit(w)
    PROVE  /\ IInv'
           /\ lag'[w] <= MaxDelay + TTL(answer'[w])
<1> DEFINE h == host[w]
           a == cache[h].answer
<1>1. h \in Hosts /\ cache[h].set /\ EntryFine(h)
  BY DEF IInv, Served, Cached, WorkerFine, Hit
<1>2. a \in Answers /\ cache[h].left \in Nat /\ age[h] \in 0 .. Never
  BY <1>1 DEF IInv, TypeOK, Entry
<1>3. Decide(w, a) /\ at[w] = "lookup"
  BY DEF Hit
<1>4. answer' = [answer EXCEPT ![w] = a] /\ lag' = [lag EXCEPT ![w] = age[h]]
  BY DEF Hit
<1>5. answer' \in [Workers -> Answers] /\ lag' \in [Workers -> 0 .. Never]
      /\ answer'[w] = a /\ lag'[w] = age[h]
      /\ \A v \in Workers \ {w} : answer'[v] = answer[v] /\ lag'[v] = lag[v]
  BY <1>2, <1>4 DEF IInv, TypeOK
<1>6. WorkerFine(w)'
  <2>1. host' = host /\ h # None
    BY <1>1, TenantRoutingAssumption DEF Hit
  <2> QED
    BY <1>2, <1>3, <1>5, <2>1, DecideTyped DEF WorkerFine
<1>7. IInv'
  <2>1. /\ host' \in [Workers -> Hosts \union {None}]
        /\ spent' \in [Workers -> 0 .. MaxDelay]
        /\ \A v \in Workers : host'[v] = host[v] /\ spent'[v] = spent[v]
        /\ UNCHANGED <<tables, cache, call, made, age>>
    BY DEF Hit, IInv, TypeOK
  <2> QED
    BY <1>2, <1>3, <1>5, <1>6, <2>1, DecideTyped, WorkerStep
<1>8. lag'[w] <= MaxDelay + TTL(answer'[w])
  BY <1>1, <1>2, <1>5, Numbers, Lifetimes DEF EntryFine
<1> QED
  BY <1>7, <1>8

LEMMA MissStep ==
    ASSUME IInv, NEW w \in Workers, Miss(w) \/ Query(w)
    PROVE  IInv'
<1> USE DEF IInv, TypeOK
<1>1. WorkerFine(w) /\ host[w] \in Hosts /\ spent[w] \in Nat
  BY Numbers DEF Served, WorkerFine, Miss, Query
<1>2. CASE Miss(w)
  <2>1. WorkerFine(w)'
    BY <1>1, <1>2 DEF Miss, WorkerFine
  <2> QED
    BY <2>1, <1>2, WorkerStep DEF Miss, truth
<1>3. CASE Query(w)
  <2>1. Truth(host[w]) \in Answers
    BY <1>1, TruthTyped
  <2>2. WorkerFine(w)'
    BY <1>1, <1>3, TenantRoutingAssumption DEF Query, WorkerFine
  <2>3. 0 \in 0 .. Never
    BY Numbers
  <2> QED
    BY <2>1, <2>2, <2>3, <1>3, WorkerStep DEF Query
<1> QED
  BY <1>2, <1>3

LEMMA StoreStep ==
    ASSUME IInv, NEW w \in Workers, Store(w)
    PROVE  /\ IInv'
           /\ lag'[w] <= MaxDelay + TTL(answer'[w])
<1> DEFINE h == host[w]
           a == answer[w]
<1> USE Numbers
<1>1. h \in Hosts /\ WorkerFine(w) /\ lag[w] <= spent[w] /\ at[w] = "store"
  BY DEF IInv, Served, WorkerFine, Store
<1>2. a \in Answers /\ lag[w] \in 0 .. Never /\ spent[w] \in 0 .. MaxDelay
  BY DEF IInv, TypeOK
<1>3. TTL(a) \in 0 .. PositiveTTL + NegativeTTL /\ TTL(a) \in Nat
  BY <1>2, Lifetimes
<1>4. lag[w] <= MaxDelay
  BY <1>1, <1>2
<1>5. Decide(w, a)
  BY DEF Store
<1>6. /\ cache' = [cache EXCEPT ![h] = [answer |-> a, left |-> TTL(a), set |-> TRUE]]
      /\ age' = [age EXCEPT ![h] = lag[w]]
  BY DEF Store
<1>7. UNCHANGED <<tables, host, answer, spent, call, made, lag>>
  BY DEF Store
<1>8. TypeOK'
  <2>1. [answer |-> a, left |-> TTL(a), set |-> TRUE] \in Entry
    BY <1>2, <1>3 DEF Entry
  <2>2. cache' \in [Hosts -> Entry] /\ age' \in [Hosts -> 0 .. Never]
    BY <2>1, <1>2, <1>6 DEF IInv, TypeOK
  <2>3. /\ at' \in [Workers -> {"idle", "lookup", "query", "store", "view", "refused"}]
        /\ context' \in [Workers -> Tenants \union {None}]
    BY <1>1, <1>2, <1>5, DecideTyped
  <2> QED
    BY <2>2, <2>3, <1>7 DEF IInv, TypeOK, tables, call
<1>9. Cached'
  <2> SUFFICES ASSUME NEW g \in Hosts PROVE EntryFine(g)'
    BY DEF Cached
  <2>1. EntryFine(g)
    BY DEF IInv, Cached
  <2>2. CASE g # h
    BY <2>1, <2>2, <1>6 DEF EntryFine, IInv, TypeOK
  <2>3. CASE g = h
    <3>1. cache'[g].set /\ cache'[g].left = TTL(a) /\ cache'[g].answer = a /\ age'[g] = lag[w]
      BY <2>3, <1>1, <1>6 DEF IInv, TypeOK
    <3> QED
      BY <3>1, <1>2, <1>3, <1>4 DEF EntryFine
  <2> QED
    BY <2>2, <2>3
<1>10. Served'
  <2> SUFFICES ASSUME NEW v \in Workers PROVE WorkerFine(v)'
    BY DEF Served
  <2>1. WorkerFine(v)
    BY DEF IInv, Served
  <2>2. CASE v # w
    BY <2>1, <2>2, <1>1, <1>2, <1>5, <1>7, DecideTyped DEF WorkerFine
  <2>3. CASE v = w
    BY <2>3, <1>1, <1>2, <1>5, <1>7, DecideTyped DEF WorkerFine
  <2> QED
    BY <2>2, <2>3
<1>11. Called'
  BY <1>7 DEF IInv, Called, CallFine, call
<1>12. lag'[w] <= MaxDelay + TTL(answer'[w])
  BY <1>2, <1>3, <1>4, <1>7
<1> QED
  BY <1>8, <1>9, <1>10, <1>11, <1>12 DEF IInv

LEMMA FinishStep ==
    ASSUME IInv, NEW w \in Workers, Respond(w) \/ Fail(w) \/ Kill(w)
    PROVE  IInv'
<1> USE DEF IInv, TypeOK
<1>1. WorkerFine(w) /\ Finish(w)
  BY DEF Served, Respond, Fail, Kill
<1>2. /\ context' \in [Workers -> Tenants \union {None}]
      /\ context'[w] = None
      /\ \A v \in Workers \ {w} : context'[v] = context[v]
  <2>1. CASE Respond(w)
    BY <1>1, <2>1 DEF WorkerFine, Respond, TenantIn
  <2>2. CASE Fail(w)
    BY <1>1, <2>2 DEF WorkerFine, Fail
  <2>3. CASE Kill(w)
    BY <2>3 DEF Kill
  <2> QED
    BY <2>1, <2>2, <2>3
<1>3. WorkerFine(w)'
  BY <1>1, <1>2 DEF WorkerFine, Finish
<1>4. 0 \in 0 .. MaxDelay /\ 0 \in 0 .. Never /\ None \in Answers
  BY Numbers DEF Answers
<1> QED
  BY <1>1, <1>2, <1>3, <1>4, WorkerStep DEF Finish

-----------------------------------------------------------------------------
(* Time and the cache server *)

LEMMA TickStep == ASSUME IInv, Tick PROVE IInv'
<1> USE Numbers
<1>1. UNCHANGED <<tables, at, host, answer, context, call, made>>
  BY DEF Tick
<1>2. /\ spent' \in [Workers -> 0 .. MaxDelay]
      /\ \A w \in Workers : at[w] # "idle" => spent'[w] = spent[w] + 1
  BY DEF IInv, TypeOK, Tick
<1>3. /\ lag' \in [Workers -> 0 .. Never]
      /\ \A w \in Workers : lag'[w] <= lag[w] + 1
  BY DEF IInv, TypeOK, Tick
<1>4. /\ age' \in [Hosts -> 0 .. Never]
      /\ \A h \in Hosts : age'[h] <= age[h] + 1
  BY DEF IInv, TypeOK, Tick
<1>5. ASSUME NEW h \in Hosts, cache[h].left = 0 PROVE cache'[h] = Empty
  BY <1>5 DEF Tick
<1>6. ASSUME NEW h \in Hosts, cache[h].left # 0
      PROVE  /\ cache'[h] \in Entry
             /\ cache'[h].set = cache[h].set /\ cache'[h].answer = cache[h].answer
             /\ cache'[h].left = cache[h].left - 1
  <2>1. cache[h] \in Entry
    BY DEF IInv, TypeOK
  <2>2. cache'[h] = [cache[h] EXCEPT !.left = @ - 1]
    BY <1>6 DEF Tick
  <2> QED
    BY <2>1, <2>2, <1>6 DEF Entry
<1>7. cache' \in [Hosts -> Entry]
  <2>1. ASSUME NEW h \in Hosts PROVE cache'[h] \in Entry
    BY <1>5, <1>6, EmptyTyped
  <2>2. cache' = [h \in Hosts |-> cache'[h]]
    BY DEF Tick
  <2> QED
    BY <2>1, <2>2
<1>8. TypeOK'
  BY <1>1, <1>2, <1>3, <1>4, <1>7 DEF IInv, TypeOK, tables, call
<1>9. Served'
  <2> SUFFICES ASSUME NEW w \in Workers PROVE WorkerFine(w)'
    BY DEF Served
  <2>1. WorkerFine(w)
    BY DEF IInv, Served
  <2>2. lag[w] \in Nat /\ spent[w] \in Nat /\ lag'[w] \in Nat /\ spent'[w] \in Nat
    BY <1>2, <1>3 DEF IInv, TypeOK
  <2> QED
    BY <2>1, <2>2, <1>1, <1>2, <1>3 DEF WorkerFine
<1>10. Cached'
  <2> SUFFICES ASSUME NEW h \in Hosts PROVE EntryFine(h)'
    BY DEF Cached
  <2>1. CASE cache[h].left = 0
    BY <2>1, <1>5, EmptyTyped DEF EntryFine
  <2>2. CASE cache[h].left # 0
    <3>1. EntryFine(h) /\ cache[h].left \in Nat /\ cache[h].answer \in Answers
      BY DEF IInv, Cached, TypeOK, Entry
    <3>2. TTL(cache[h].answer) \in Nat
      BY <3>1, Lifetimes
    <3>3. age[h] \in Nat /\ age'[h] \in Nat /\ age'[h] <= age[h] + 1
      BY <1>4 DEF IInv, TypeOK
    <3> QED
      BY <2>2, <3>1, <3>2, <3>3, <1>6 DEF EntryFine
  <2> QED
    BY <2>1, <2>2
<1>11. Called'
  BY <1>1 DEF IInv, Called, CallFine, call
<1> QED
  BY <1>8, <1>9, <1>10, <1>11 DEF IInv

LEMMA EvictStep == ASSUME IInv, NEW h \in Hosts, Evict(h) PROVE IInv'
<1> USE Numbers, EmptyTyped
<1>1. TypeOK'
  BY DEF IInv, TypeOK, Evict, tables, request, call
<1>2. Served'
  BY DEF IInv, Served, WorkerFine, Evict, request
<1>3. Cached'
  BY DEF IInv, Cached, EntryFine, TypeOK, Evict
<1>4. Called'
  BY DEF IInv, Called, CallFine, Evict, call
<1> QED
  BY <1>1, <1>2, <1>3, <1>4 DEF IInv

-----------------------------------------------------------------------------
(* Changes of the tables *)

\* A change of the tables that leaves calls alone.
LEMMA TablesStep ==
    ASSUME IInv, Refresh, UNCHANGED <<cache, request, call, made>>,
           tenants' \subseteq Tenants,
           schema' \in [Tenants -> Schemas \union {None}],
           active' \in [Tenants -> BOOLEAN],
           domains' \in [Hosts -> tenants' \union {None}]
    PROVE  IInv'
<1>1. /\ Served' /\ Cached'
      /\ age' \in [Hosts -> 0 .. Never]
      /\ lag' \in [Workers -> 0 .. Never]
  BY RefreshKeeps
<1>2. TypeOK'
  BY <1>1 DEF IInv, TypeOK, request, call
<1>3. Called'
  BY DEF IInv, Called, CallFine, call
<1> QED
  BY <1>1, <1>2, <1>3 DEF IInv

LEMMA AdministerStep == ASSUME IInv, Administer PROVE IInv'
<1> USE DEF IInv, TypeOK
<1>1. ASSUME NEW new \in [Hosts -> tenants \union {None}], EditDomains(new) PROVE IInv'
  BY <1>1, TablesStep DEF EditDomains
<1>2. ASSUME NEW t \in Tenants, NEW b \in BOOLEAN, SetActive(t, b) PROVE IInv'
  BY <1>2, TablesStep DEF SetActive
<1>3. ASSUME NEW t \in Tenants, DeleteTenant(t) PROVE IInv'
  BY <1>3, TablesStep DEF DeleteTenant
<1>4. CASE Seed
  <2>1. tenants' = tenants \union DemoTenants /\ DemoTenants \subseteq Tenants
    BY <1>4 DEF Seed, Tenants
  <2>2. schema' \in [Tenants -> Schemas \union {None}]
    BY <1>4, TenantRoutingAssumption DEF Seed, Tenants
  <2>3. active' \in [Tenants -> BOOLEAN]
    BY <1>4 DEF Seed
  <2>4. ASSUME NEW h \in Hosts PROVE domains'[h] \in tenants' \union {None}
    BY <1>4, <2>1 DEF Seed
  <2>5. domains' = [h \in Hosts |-> domains'[h]]
    BY <1>4 DEF Seed
  <2>6. domains' \in [Hosts -> tenants' \union {None}]
    BY <2>4, <2>5
  <2> QED
    BY <1>4, <2>1, <2>2, <2>3, <2>6, TablesStep DEF Seed
<1> QED
  BY <1>1, <1>2, <1>3, <1>4 DEF Administer

LEMMA CallStep ==
    ASSUME IInv, NEW c \in Creators,
           \/ \E s \in Schemas, h \in Hosts : Call(c, s, h)
           \/ CheckSchema(c) \/ CheckDomain(c) \/ Abort(c)
    PROVE  IInv'
<1>1. UNCHANGED <<tables, cache, request, made, truth>>
  BY DEF Call, CheckSchema, CheckDomain, Abort
<1>2. CallFine(c)
  BY DEF IInv, Called
<1>3. /\ pc' \in [Creators -> {"new", "schema", "domain", "insert", "done"}]
      /\ wanted' \in [Creators -> Schemas \union {None}]
      /\ where' \in [Creators -> Hosts \union {None}]
      /\ reply' \in [Creators -> {"none", "ok", "conflict", "integrity"}]
  BY DEF IInv, TypeOK, Call, CheckSchema, CheckDomain, Abort, Answered
<1>4. \A d \in Creators \ {c} : /\ pc'[d] = pc[d] /\ wanted'[d] = wanted[d]
                                /\ where'[d] = where[d] /\ reply'[d] = reply[d]
  BY DEF IInv, TypeOK, Call, CheckSchema, CheckDomain, Abort, Answered
<1>5. CallFine(c)'
  <2> USE <1>1, <1>2 DEF CallFine, IInv, TypeOK
  <2>1. ASSUME NEW s \in Schemas, NEW h \in Hosts, Call(c, s, h) PROVE CallFine(c)'
    BY <2>1 DEF Call
  <2>2. CASE CheckSchema(c)
    BY <2>2 DEF CheckSchema, Answered
  <2>3. CASE CheckDomain(c)
    BY <2>3 DEF CheckDomain, Answered
  <2>4. CASE Abort(c)
    BY <2>4 DEF Abort, Answered
  <2> QED
    BY <2>1, <2>2, <2>3, <2>4
<1>6. Called'
  <2> SUFFICES ASSUME NEW d \in Creators PROVE CallFine(d)'
    BY DEF Called
  <2>1. CASE d # c
    BY <2>1, <1>1, <1>4 DEF IInv, Called, CallFine
  <2> QED
    BY <2>1, <1>5
<1>7. TypeOK'
  BY <1>1, <1>3 DEF IInv, TypeOK, tables, request, truth
<1>8. Served' /\ Cached'
  BY <1>1 DEF IInv, Served, WorkerFine, Cached, EntryFine, request, truth
<1> QED
  BY <1>6, <1>7, <1>8 DEF IInv

LEMMA InsertStep == ASSUME IInv, NEW c \in Creators, Insert(c) PROVE IInv'
<1>1. CallFine(c) /\ pc[c] = "insert" /\ wanted[c] \in Schemas /\ where[c] \in Hosts
  BY DEF IInv, Called, CallFine, Insert
<1>2. UNCHANGED <<cache, request>>
  BY DEF Insert
<1>3. PICK r \in {"ok", "integrity"} :
        /\ Answered(c, r)
        /\ r = "ok" => AddTenant(c) /\ domains' = [domains EXCEPT ![where[c]] = c] /\ Refresh
        /\ r = "integrity" => UNCHANGED <<tables, made, truth>>
  BY DEF Insert
<1>4. /\ pc' \in [Creators -> {"new", "schema", "domain", "insert", "done"}]
      /\ wanted' \in [Creators -> Schemas \union {None}]
      /\ where' \in [Creators -> Hosts \union {None}]
      /\ reply' \in [Creators -> {"none", "ok", "conflict", "integrity"}]
      /\ pc'[c] = "done" /\ reply'[c] = r
      /\ \A d \in Creators \ {c} : /\ pc'[d] = pc[d] /\ wanted'[d] = wanted[d]
                                   /\ where'[d] = where[d] /\ reply'[d] = reply[d]
  BY <1>3 DEF IInv, TypeOK, Answered
<1>5. /\ made' \subseteq Creators
      /\ r = "ok" => c \in made'
      /\ r = "integrity" => c \notin made'
      /\ \A d \in Creators \ {c} : d \in made' <=> d \in made
  BY <1>1, <1>3 DEF IInv, TypeOK, AddTenant, CallFine
<1>6. Called'
  <2> SUFFICES ASSUME NEW d \in Creators PROVE CallFine(d)'
    BY DEF Called
  <2>1. CASE d # c
    BY <2>1, <1>4, <1>5 DEF IInv, Called, CallFine
  <2>2. CASE d = c
    BY <2>2, <1>4, <1>5 DEF CallFine
  <2> QED
    BY <2>1, <2>2
<1>7. CASE r = "ok"
  <2>1. c \in Tenants
    BY DEF Tenants
  <2>2. /\ tenants' \subseteq Tenants
        /\ schema' \in [Tenants -> Schemas \union {None}]
        /\ active' \in [Tenants -> BOOLEAN]
        /\ domains' \in [Hosts -> tenants' \union {None}]
    BY <1>1, <1>3, <1>7, <2>1 DEF IInv, TypeOK, AddTenant
  <2>3. Served' /\ Cached' /\ age' \in [Hosts -> 0 .. Never] /\ lag' \in [Workers -> 0 .. Never]
    BY <1>2, <1>3, <1>7, RefreshKeeps
  <2>4. TypeOK'
    BY <1>2, <1>4, <1>5, <2>2, <2>3 DEF IInv, TypeOK, request
  <2> QED
    BY <1>6, <2>3, <2>4 DEF IInv
<1>8. CASE r = "integrity"
  <2>1. TypeOK'
    BY <1>2, <1>3, <1>4, <1>5, <1>8 DEF IInv, TypeOK, request, tables, truth
  <2>2. Served' /\ Cached'
    BY <1>2, <1>3, <1>8 DEF IInv, Served, WorkerFine, Cached, EntryFine, request, truth
  <2> QED
    BY <1>6, <2>1, <2>2 DEF IInv
<1> QED
  BY <1>7, <1>8

-----------------------------------------------------------------------------
LEMMA NextIInv == IInv /\ [Next]_vars => IInv'
<1> SUFFICES ASSUME IInv, [Next]_vars PROVE IInv'
  OBVIOUS
<1>1. ASSUME NEW w \in Workers, Serve(w) PROVE IInv'
  BY <1>1, ArriveStep, HitStep, MissStep, StoreStep, FinishStep DEF Serve
<1>2. ASSUME NEW c \in Creators, Create(c) PROVE IInv'
  BY <1>2, CallStep, InsertStep DEF Create
<1>3. ASSUME NEW h \in Hosts, Evict(h) PROVE IInv'
  BY <1>3, EvictStep
<1>4. CASE Administer
  BY <1>4, AdministerStep
<1>5. CASE Tick
  BY <1>5, TickStep
<1>6. CASE UNCHANGED vars
  BY <1>6 DEF vars, tables, request, call, truth, IInv, TypeOK, Served, WorkerFine,
     Cached, EntryFine, Called, CallFine
<1> QED
  BY <1>1, <1>2, <1>3, <1>4, <1>5, <1>6 DEF Next

\* The inductive invariant holds of every behaviour.
THEOREM Invariance == Spec => []IInv
  BY InitIInv, NextIInv, PTL DEF Spec

\* Rows, entries, requests and calls keep their types, and a domain is always of
\* a tenant that exists: the cascade of a deletion and every change of domains.
THEOREM TypeCorrect == Spec => []TypeOK
<1>1. IInv => TypeOK
  BY DEF IInv
<1> QED
  BY <1>1, Invariance, PTL

\* A view finds its own tenant in the context of its worker, whatever the worker
\* served before: the middleware gives the context back after every view.
THEOREM OwnContexts == Spec => []ContextIsOwn
<1>1. IInv => ContextIsOwn
  BY DEF IInv, Served, WorkerFine, ContextIsOwn
<1> QED
  BY <1>1, Invariance, PTL

\* create_tenant leaves a tenant if and only if it says so, in any race with
\* other creations, seedings and the admin site.
THEOREM Creations == Spec => []CreationsSettle
<1>1. IInv => CreationsSettle
  BY DEF IInv, Called, CallFine, CreationsSettle
<1> QED
  BY <1>1, Invariance, PTL

\* No request is served or refused for a tenant that its host has not had for
\* longer than a lifetime of the cache and the request that filled it.
THEOREM Staleness == Spec => AnswersAreRecent
<1> DEFINE Recent == \A w \in Workers :
              (at[w] \in {"lookup", "store"} /\ at'[w] \in {"view", "refused"}) =>
                  lag'[w] <= MaxDelay + TTL(answer'[w])
<1>1. IInv /\ [Next]_vars => [Recent]_vars
  <2> SUFFICES ASSUME IInv, Next PROVE Recent
    OBVIOUS
  <2> SUFFICES ASSUME NEW w \in Workers,
                      at[w] \in {"lookup", "store"}, at'[w] \in {"view", "refused"}
               PROVE  lag'[w] <= MaxDelay + TTL(answer'[w])
    OBVIOUS
  <2> USE DEF IInv, TypeOK
  <2>1. ASSUME NEW v \in Workers, Serve(v) PROVE Hit(w) \/ Store(w)
    <3>1. CASE v # w
      BY <2>1, <3>1 DEF Serve, Arrive, ArriveExempt, Receive, Hit, Miss, Query, Store, Respond,
         Fail, Kill, Finish, Decide
    <3>2. CASE v = w
      BY <2>1, <3>2 DEF Serve, Arrive, ArriveExempt, Receive, Miss, Query, Respond,
         Fail, Kill, Finish
    <3> QED
      BY <3>1, <3>2
  <2>2. CASE \E c \in Creators : Create(c)
    BY <2>2 DEF Create, Call, CheckSchema, CheckDomain, Insert, Abort, request
  <2>3. CASE Administer
    BY <2>3 DEF Administer, EditDomains, SetActive, DeleteTenant, Seed, request
  <2>4. CASE Tick \/ \E h \in Hosts : Evict(h)
    BY <2>4 DEF Tick, Evict, request
  <2> QED
    BY <2>1, <2>2, <2>3, <2>4, HitStep, StoreStep DEF Next
<1> QED
  BY <1>1, Invariance, PTL DEF Spec, AnswersAreRecent

=============================================================================
