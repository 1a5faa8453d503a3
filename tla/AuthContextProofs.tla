------------------------- MODULE AuthContextProofs -------------------------
(***************************************************************************)
(* Proofs about AuthContext: an answer put together from two queries, and  *)
(* the agreement of the guards with the server, for any number of users,   *)
(* tenants, roles, codes and requests.                                     *)
(***************************************************************************)
EXTENDS AuthContext, TLAPS

\* A request under way, or shown, knows what it asked; the shown one has ended.
CallFine(q) ==
    /\ UnderWay(q) \/ q = shown => call[q] \in Requests
    /\ q = shown => at[q] = "done"
    /\ at[q] = "codes" => found[q] \in RoleIds

\* Between the two queries: while the role is the one that was read, or its codes are
\* still those of the first query, role and codes were true together.
ReadFine(q) ==
    at[q] = "codes" =>
        /\ "role" \notin undone[q] => RoleOf(q) = found[q]
        /\ RoleOf(q) = found[q] \/ "codes" \notin undone[q] =>
               <<found[q], codes[found[q]]>> \in was[q]

SentFine(q) ==
    at[q] = "sent" => <<found[q], told[q]>> \in was[q] \/ undone[q] = {"role", "codes"}

\* A request that is not stale agrees with the tables, and asks for what the props say.
FreshFine(q) ==
    q \notin stale =>
        /\ at[q] = "codes" => RoleOf(q) = found[q]
        /\ at[q] = "sent" \/ q = shown => told[q] = Granted(RoleOf(q))
        /\ UnderWay(q) =>
               pending \/ token = None \/ call[q] = [user |-> token, tenant |-> sel]

\* The answer that the guards go by is that of the props.
ShownFine ==
    token # None /\ ~ loading /\ ~ pending /\ ~ error /\ shown \notin stale \union {None} =>
        call[shown] = [user |-> token, tenant |-> sel]

Each(q) == CallFine(q) /\ ReadFine(q) /\ SentFine(q) /\ FreshFine(q)

IInv == TypeOK /\ ShownFine /\ \A q \in Calls : Each(q)

-----------------------------------------------------------------------------
(* Types *)

LEMMA InitTyped == Init => TypeOK
  BY DEF Init, TypeOK

LEMMA RoleTyped ==
    ASSUME TypeOK, NEW q \in Calls, call[q] \in Requests
    PROVE  /\ RoleOf(q) \in RoleIds \union {None}
           /\ Granted(RoleOf(q)) \in SUBSET Codes
           /\ Truth(q) \in (RoleIds \union {None}) \X SUBSET Codes
  <1>1. <<call[q].user, call[q].tenant>> \in Users \X Tenants
    BY DEF Requests
  <1>2. RoleOf(q) \in roles \union {None}
    BY <1>1 DEF TypeOK, RoleOf
  <1>3. RoleOf(q) \in RoleIds \union {None}
    BY <1>2 DEF TypeOK
  <1>4. Granted(RoleOf(q)) \in SUBSET Codes
    BY <1>3 DEF TypeOK, Granted
  <1>5. QED
    BY <1>3, <1>4 DEF Truth

LEMMA ServeTyped ==
    ASSUME IInv, NEW q \in Calls, Serve(q)
    PROVE  TypeOK'
  <1>1. call[q] \in Requests
    BY DEF IInv, Each, CallFine, Serve, FindTenant, ReadRole, ReadCodes, UnderWay
  <1>2. /\ RoleOf(q) \in RoleIds \union {None}
        /\ Truth(q) \in (RoleIds \union {None}) \X SUBSET Codes
    BY <1>1, RoleTyped DEF IInv
  <1>3. CASE FindTenant(q)
    BY <1>3 DEF IInv, TypeOK, FindTenant, Goto, database, provider
  <1>4. CASE ReadRole(q)
    <2>1. was' \in [Calls -> SUBSET ((RoleIds \union {None}) \X SUBSET Codes)]
      BY <1>2, <1>4 DEF IInv, TypeOK, ReadRole
    <2>2. QED
      BY <1>2, <1>4, <2>1 DEF IInv, TypeOK, ReadRole, Answer, Goto, database, provider
  <1>5. CASE ReadCodes(q)
    <2>1. Granted(found[q]) \in SUBSET Codes
      BY <1>5 DEF IInv, TypeOK, Granted
    <2>2. QED
      BY <1>5, <2>1 DEF IInv, TypeOK, ReadCodes, Answer, Goto, database, provider
  <1>6. QED
    BY <1>3, <1>4, <1>5 DEF Serve

LEMMA ContextTyped ==
    ASSUME TypeOK, LoadContext
    PROVE  /\ at' \in [Calls -> {"new", "tenant", "notfound", "role", "codes", "sent", "done"}]
           /\ call' \in [Calls -> Requests \union {None}]
           /\ loading' \in BOOLEAN /\ error' \in BOOLEAN
           /\ stale' \subseteq Calls
  <1>1. CASE token = None /\ loading' = FALSE /\ UNCHANGED <<at, call, error, stale>>
    BY <1>1 DEF TypeOK
  <1>2. ASSUME token # None, NEW q \in Calls, Load(q)
        PROVE  /\ at' \in [Calls ->
                      {"new", "tenant", "notfound", "role", "codes", "sent", "done"}]
               /\ call' \in [Calls -> Requests \union {None}]
               /\ loading' \in BOOLEAN /\ error' \in BOOLEAN
               /\ stale' \subseteq Calls
    <2>1. [user |-> token, tenant |-> sel] \in Requests
      BY <1>2 DEF TypeOK, Requests
    <2>2. QED
      BY <1>2, <2>1 DEF TypeOK, Load, Send, Goto
  <1>3. QED
    BY <1>1, <1>2 DEF LoadContext

LEMMA ProviderTyped ==
    ASSUME TypeOK,
           \/ \E u \in Users \union {None}, t \in Tenants : SetProps(u, t)
           \/ Effect \/ Refetch
           \/ \E q \in Calls : Arrive(q) \/ Fail(q)
    PROVE  TypeOK'
  <1>1. CASE \E u \in Users \union {None}, t \in Tenants : SetProps(u, t)
    BY <1>1 DEF TypeOK, SetProps, database, request
  <1>2. CASE Effect
    BY <1>2, ContextTyped DEF TypeOK, Effect, database
  <1>3. CASE Refetch
    BY <1>3, ContextTyped DEF TypeOK, Refetch, database
  <1>4. ASSUME NEW q \in Calls, Arrive(q) \/ Fail(q)
        PROVE  TypeOK'
    <2>1. \E p \in Calls \union {None} : End(q, p)
      BY <1>4 DEF TypeOK, Arrive, Fail
    <2>2. /\ shown' \in Calls \union {None}
          /\ loading' \in BOOLEAN /\ error' \in BOOLEAN
      BY <1>4 DEF TypeOK, Arrive, Fail
    <2>3. PICK p \in Calls \union {None} : End(q, p)
      BY <2>1
    <2>4. call' \in [Calls -> Requests \union {None}] /\ told' \in [Calls -> SUBSET Codes]
      BY <2>3 DEF TypeOK, End
    <2>5. QED
      BY <2>2, <2>3, <2>4 DEF TypeOK, End, Goto, database
  <1>5. QED
    BY <1>1, <1>2, <1>3, <1>4

\* The tables keep their types: only roles that exist have members.
LEMMA TablesTyped ==
    ASSUME TypeOK, Administer
    PROVE  /\ tenants' \subseteq Tenants /\ roles' \subseteq RoleIds
           /\ codes' \in [RoleIds -> SUBSET Codes]
           /\ member' \in [Users \X Tenants -> roles' \union {None}]
  <1> DEFINE Typed == /\ tenants' \subseteq Tenants /\ roles' \subseteq RoleIds
                      /\ codes' \in [RoleIds -> SUBSET Codes]
                      /\ member' \in [Users \X Tenants -> roles' \union {None}]
  <1>1. ASSUME NEW u \in Users, NEW t \in Tenants, Revoke(u, t)
        PROVE  Typed
    BY <1>1 DEF TypeOK, Revoke
  <1>2. ASSUME NEW u \in Users, NEW t \in Tenants, NEW r \in RoleIds, Assign(u, t, r)
        PROVE  Typed
    BY <1>2 DEF TypeOK, Assign
  <1>3. ASSUME NEW r \in RoleIds, CreateRole(r)
        PROVE  Typed
    BY <1>3 DEF TypeOK, CreateRole
  <1>4. ASSUME NEW r \in RoleIds, NEW cs \in SUBSET Codes, SetCodes(r, cs)
        PROVE  Typed
    BY <1>4 DEF TypeOK, SetCodes
  <1>5. ASSUME NEW c \in Codes, DeletePermission(c)
        PROVE  Typed
    BY <1>5 DEF TypeOK, DeletePermission
  <1>6. ASSUME NEW gone \in SUBSET RoleIds, tenants' \subseteq Tenants, Drop(gone)
        PROVE  Typed
    BY <1>6 DEF TypeOK, Drop
  <1>7. ASSUME NEW r \in RoleIds, DeleteRole(r)
        PROVE  Typed
    BY <1>6, <1>7 DEF DeleteRole, TypeOK
  <1>8. ASSUME NEW t \in Tenants, DeleteTenant(t)
        PROVE  Typed
    <2>1. {r \in roles : Home[r] = t} \in SUBSET RoleIds
      BY DEF TypeOK
    <2>2. QED
      BY <1>6, <1>8, <2>1 DEF DeleteTenant, TypeOK
  <1>9. QED
    BY <1>1, <1>2, <1>3, <1>4, <1>5, <1>7, <1>8 DEF Administer

LEMMA Noted == Administer => Note
  BY DEF Administer, Revoke, Assign, CreateRole, SetCodes, DeletePermission, DeleteRole,
         DeleteTenant

LEMMA AdministerTyped ==
    ASSUME IInv, Administer
    PROVE  TypeOK'
  <1>1. ASSUME NEW q \in Calls, at[q] = "codes"
        PROVE  Truth(q)' \in (RoleIds \union {None}) \X SUBSET Codes
    <2>1. call'[q] \in Requests
      BY <1>1, Noted DEF IInv, Each, CallFine, UnderWay, Note
    <2>2. <<call'[q].user, call'[q].tenant>> \in Users \X Tenants
      BY <2>1 DEF Requests
    <2>3. RoleOf(q)' \in RoleIds \union {None}
      BY <2>2, TablesTyped DEF IInv, RoleOf
    <2>4. Granted(RoleOf(q))' \in SUBSET Codes
      BY <2>3, TablesTyped DEF IInv, Granted
    <2>5. QED
      BY <2>3, <2>4 DEF Truth
  <1>2. was' \in [Calls -> SUBSET ((RoleIds \union {None}) \X SUBSET Codes)]
    BY <1>1, Noted DEF IInv, TypeOK, Note
  <1>3. \A q \in Calls : Undone(q) \subseteq {"role", "codes"}
    BY DEF Undone
  <1>4. undone' \in [Calls -> SUBSET {"role", "codes"}]
    BY <1>3, Noted DEF IInv, TypeOK, Note
  <1>5. stale' \subseteq Calls
    BY Noted DEF IInv, TypeOK, Note
  <1>6. QED
    BY <1>2, <1>4, <1>5, Noted, TablesTyped DEF IInv, TypeOK, Note, provider


-----------------------------------------------------------------------------
(* The inductive invariant *)

LEMMA InitFine == Init => IInv
  <1>1. ASSUME Init, NEW q \in Calls
        PROVE  Each(q)
    BY <1>1, AuthContextAssumption
       DEF Init, Each, CallFine, ReadFine, SentFine, FreshFine, UnderWay
  <1>2. Init => ShownFine
    BY DEF Init, ShownFine
  <1>3. QED
    BY <1>1, <1>2, InitTyped DEF IInv

\* A step of one request, in the tables as they are, leaves the others alone.
LEMMA OthersKept ==
    ASSUME NEW q \in Calls, Each(q), at[q] = at'[q], call[q] = call'[q],
           found[q] = found'[q], told[q] = told'[q], was[q] = was'[q],
           undone[q] = undone'[q], UNCHANGED <<database, token, sel, pending>>,
           q \in stale => q \in stale',
           q = shown' => q = shown
    PROVE  Each(q)'
  <1>1. RoleOf(q)' = RoleOf(q) /\ Granted(RoleOf(q))' = Granted(RoleOf(q))
    BY DEF RoleOf, Granted, database
  <1>2. codes' = codes
    BY DEF database
  <1>3. CallFine(q)'
    BY DEF Each, CallFine, UnderWay
  <1>4. ReadFine(q)' /\ SentFine(q)'
    BY <1>1, <1>2 DEF Each, ReadFine, SentFine
  <1>5. FreshFine(q)'
    BY <1>1 DEF Each, FreshFine, UnderWay
  <1>6. QED
    BY <1>3, <1>4, <1>5 DEF Each

LEMMA ShownKept ==
    ASSUME IInv, NEW q \in Calls, UnderWay(q),
           UNCHANGED <<provider, stale>>,
           \A p \in Calls \ {q} : call'[p] = call[p]
    PROVE  ShownFine'
  BY DEF IInv, TypeOK, ShownFine, Each, CallFine, UnderWay, provider

LEMMA ServeFine ==
    ASSUME IInv, NEW q \in Calls, Serve(q)
    PROVE  IInv'
  <1>1. UnderWay(q)
    BY DEF Serve, FindTenant, ReadRole, ReadCodes, UnderWay
  <1>2. call' = call /\ UNCHANGED <<database, provider, stale>>
    BY DEF Serve, FindTenant, ReadRole, ReadCodes, Answer
  <1>3. ASSUME NEW p \in Calls \ {q}
        PROVE  Each(p)'
    <2>1. at[p] = at'[p] /\ found[p] = found'[p] /\ told[p] = told'[p] /\ was[p] = was'[p]
          /\ undone[p] = undone'[p]
      BY DEF IInv, TypeOK, Serve, FindTenant, ReadRole, ReadCodes, Answer, Goto
    <2>2. QED
      BY <1>2, <2>1, OthersKept DEF IInv, provider
  <1>4. /\ call[q] \in Requests /\ q # shown
        /\ RoleOf(q) \in RoleIds \union {None}
    BY <1>1, RoleTyped DEF IInv, Each, CallFine, UnderWay
  <1>5. RoleOf(q)' = RoleOf(q) /\ Granted(RoleOf(q))' = Granted(RoleOf(q))
    BY <1>2 DEF RoleOf, Granted, database
  <1>6. FreshFine(q)'
    <2>1. CASE FindTenant(q)
      BY <1>1, <1>2, <1>4, <2>1
         DEF IInv, TypeOK, Each, FreshFine, FindTenant, Goto, UnderWay, provider
    <2>2. CASE ReadRole(q)
      <3>1. CASE RoleOf(q) = None
        <4>1. Granted(RoleOf(q)) = {}
          BY <3>1 DEF Granted
        <4>2. at'[q] = "sent" /\ told'[q] = {}
          BY <2>2, <3>1 DEF IInv, TypeOK, ReadRole, Answer, Goto
        <4>3. QED
          BY <1>1, <1>2, <1>4, <1>5, <4>1, <4>2 DEF IInv, Each, FreshFine, UnderWay, provider
      <3>2. CASE RoleOf(q) # None
        <4>1. at'[q] = "codes" /\ found'[q] = RoleOf(q)
          BY <2>2, <3>2 DEF IInv, TypeOK, ReadRole, Goto
        <4>2. QED
          BY <1>1, <1>2, <1>4, <1>5, <4>1 DEF IInv, Each, FreshFine, UnderWay, provider
      <3>3. QED
        BY <3>1, <3>2
    <2>3. CASE ReadCodes(q)
      BY <1>1, <1>2, <1>4, <1>5, <2>3
         DEF IInv, TypeOK, Each, FreshFine, ReadCodes, Answer, Goto, UnderWay, provider
    <2>4. QED
      BY <2>1, <2>2, <2>3 DEF Serve
  <1>7. ReadFine(q)' /\ SentFine(q)'
    <2>1. CASE FindTenant(q)
      BY <2>1 DEF IInv, TypeOK, FindTenant, Goto, ReadFine, SentFine
    <2>2. CASE ReadRole(q)
      <3>1. CASE RoleOf(q) = None
        BY <2>2, <3>1 DEF IInv, TypeOK, ReadRole, Answer, Goto, ReadFine, SentFine, Truth, Granted
      <3>2. CASE RoleOf(q) # None
        <4>1. /\ at'[q] = "codes" /\ found'[q] = RoleOf(q)
              /\ was'[q] = {<<RoleOf(q), codes[RoleOf(q)]>>}
          BY <2>2, <3>2 DEF IInv, TypeOK, ReadRole, Goto, Truth, Granted
        <4>2. QED
          BY <1>2, <1>5, <4>1 DEF ReadFine, SentFine, database
      <3>3. QED
        BY <3>1, <3>2
    <2>3. CASE ReadCodes(q)
      <3>1. /\ at'[q] = "sent" /\ found'[q] = found[q] /\ told'[q] = codes[found[q]]
            /\ was' = was /\ undone' = undone
        BY <2>3, AuthContextAssumption
           DEF IInv, TypeOK, Each, CallFine, ReadCodes, Answer, Goto, Granted
      <3>2. undone[q] \subseteq {"role", "codes"}
        BY DEF IInv, TypeOK
      <3>3. CASE undone[q] = {"role", "codes"}
        BY <3>1, <3>3 DEF ReadFine, SentFine
      <3>4. CASE undone[q] # {"role", "codes"}
        <4>1. "role" \notin undone[q] \/ "codes" \notin undone[q]
          BY <3>2, <3>4
        <4>2. <<found[q], codes[found[q]]>> \in was[q]
          BY <2>3, <4>1 DEF IInv, Each, ReadFine, ReadCodes
        <4>3. QED
          BY <3>1, <4>2 DEF ReadFine, SentFine
      <3>5. QED
        BY <3>3, <3>4
    <2>4. QED
      BY <2>1, <2>2, <2>3 DEF Serve
  <1>8. CallFine(q)'
    BY <1>2, <1>4
       DEF IInv, TypeOK, CallFine, Serve, FindTenant, ReadRole, ReadCodes, Answer, Goto, provider
  <1>9. ShownFine'
    BY <1>1, <1>2, ShownKept
  <1>10. QED
    BY <1>3, <1>6, <1>7, <1>8, <1>9, ServeTyped DEF IInv, Each

\* A load overtakes every other one, and asks for what the props say.
LEMMA SendFine ==
    ASSUME IInv, NEW q \in Calls, Send(q), token # None,
           pending' \in {pending, FALSE},
           UNCHANGED <<database, found, told, was, undone, token, sel, shown>>
    PROVE  \A p \in Calls : Each(p)'
  <1>1. [user |-> token, tenant |-> sel] \in Requests
    BY DEF IInv, TypeOK, Requests
  <1>2. Each(q)'
    BY <1>1 DEF IInv, TypeOK, Each, CallFine, ReadFine, SentFine, FreshFine, Send, Goto,
                UnderWay
  <1>3. ASSUME NEW p \in Calls \ {q}
        PROVE  Each(p)'
    <2>1. at[p] = at'[p] /\ call[p] = call'[p] /\ (UnderWay(p) => p \in stale')
      BY DEF IInv, TypeOK, Send, Goto
    <2>2. p \in stale => p \in stale'
      BY DEF Send
    <2>3. /\ RoleOf(p)' = RoleOf(p) /\ Granted(RoleOf(p))' = Granted(RoleOf(p))
          /\ codes' = codes
      BY <2>1 DEF RoleOf, Granted, database
    <2>4. CallFine(p)'
      BY <2>1 DEF IInv, Each, CallFine, UnderWay
    <2>5. ReadFine(p)' /\ SentFine(p)'
      BY <2>1, <2>3 DEF IInv, Each, ReadFine, SentFine
    <2>6. FreshFine(p)'
      BY <2>1, <2>2, <2>3 DEF IInv, Each, FreshFine, UnderWay
    <2>7. QED
      BY <2>4, <2>5, <2>6 DEF Each
  <1>4. QED
    BY <1>2, <1>3

\* Without a login nothing is asked of the guards.
LEMMA IdleFine ==
    ASSUME IInv, token = None,
           UNCHANGED <<database, request, token, sel, error, shown, stale>>
    PROVE  ShownFine' /\ \A p \in Calls : Each(p)'
  <1>1. ShownFine'
    BY DEF ShownFine
  <1>2. ASSUME NEW p \in Calls
        PROVE  Each(p)'
    <2>1. /\ RoleOf(p)' = RoleOf(p) /\ Granted(RoleOf(p))' = Granted(RoleOf(p))
          /\ codes' = codes
      BY DEF RoleOf, Granted, database, request
    <2>2. CallFine(p)' /\ ReadFine(p)' /\ SentFine(p)'
      BY <2>1 DEF IInv, Each, CallFine, ReadFine, SentFine, UnderWay, request
    <2>3. FreshFine(p)'
      BY <2>1 DEF IInv, Each, FreshFine, UnderWay, request
    <2>4. QED
      BY <2>2, <2>3 DEF Each
  <1>3. QED
    BY <1>1, <1>2

LEMMA LoadFine ==
    ASSUME IInv, Effect \/ Refetch
    PROVE  IInv'
  <1>1. TypeOK'
    BY ProviderTyped DEF IInv
  <1>2. CASE token = None
    <2>1. UNCHANGED <<database, request, token, sel, error, shown, stale>>
      BY <1>2 DEF Effect, Refetch, LoadContext, request
    <2>2. QED
      BY <1>1, <1>2, <2>1, IdleFine DEF IInv
  <1>3. CASE token # None
    <2>1. PICK q \in Calls : Load(q)
      BY <1>3 DEF Effect, Refetch, LoadContext
    <2>2. /\ pending' \in {pending, FALSE}
          /\ UNCHANGED <<database, found, told, was, undone, token, sel, shown>>
      BY DEF Effect, Refetch
    <2>3. \A p \in Calls : Each(p)'
      BY <1>3, <2>1, <2>2, SendFine DEF Load
    <2>4. ShownFine'
      BY <2>1 DEF Load, ShownFine
    <2>5. QED
      BY <1>1, <2>3, <2>4 DEF IInv
  <1>4. QED
    BY <1>2, <1>3

LEMMA PropsFine ==
    ASSUME IInv, NEW u \in Users \union {None}, NEW t \in Tenants, SetProps(u, t)
    PROVE  IInv'
  <1>1. TypeOK'
    BY ProviderTyped DEF IInv
  <1>2. ShownFine'
    BY DEF SetProps, ShownFine
  <1>3. ASSUME NEW p \in Calls
        PROVE  Each(p)'
    <2>1. /\ RoleOf(p)' = RoleOf(p) /\ Granted(RoleOf(p))' = Granted(RoleOf(p))
          /\ codes' = codes
      BY DEF RoleOf, Granted, SetProps, database, request
    <2>2. CallFine(p)' /\ ReadFine(p)' /\ SentFine(p)'
      BY <2>1 DEF IInv, Each, CallFine, ReadFine, SentFine, UnderWay, SetProps, request
    <2>3. FreshFine(p)'
      BY <2>1 DEF IInv, Each, FreshFine, UnderWay, SetProps, request
    <2>4. QED
      BY <2>2, <2>3 DEF Each
  <1>4. QED
    BY <1>1, <1>2, <1>3 DEF IInv

LEMMA EndFine ==
    ASSUME IInv, NEW q \in Calls, Arrive(q) \/ Fail(q)
    PROVE  IInv'
  <1>1. TypeOK'
    BY ProviderTyped DEF IInv
  <1>2. UnderWay(q) /\ call[q] \in Requests /\ q # shown
    BY DEF IInv, Each, CallFine, Arrive, Fail, UnderWay
  <1>3. ASSUME NEW p \in Calls \ {q}, p # shown \/ Fail(q)
        PROVE  Each(p)'
    <2>1. /\ at[p] = at'[p] /\ found[p] = found'[p] /\ was[p] = was'[p]
          /\ undone[p] = undone'[p] /\ call[p] = call'[p] /\ told[p] = told'[p]
          /\ UNCHANGED <<database, token, sel, pending>>
          /\ p \in stale => p \in stale'
          /\ p = shown' => p = shown
      BY <1>3 DEF IInv, TypeOK, Arrive, Fail, End, Goto
    <2>2. QED
      BY <2>1, OthersKept DEF IInv
  <1>4. CASE Fail(q)
    <2>1. at'[q] = "done" /\ shown' = shown
      BY <1>4 DEF IInv, TypeOK, Fail, End, Goto
    <2>2. Each(q)'
      BY <1>2, <2>1 DEF Each, CallFine, ReadFine, SentFine, FreshFine, UnderWay
    <2>3. ShownFine'
      BY <1>4 DEF Fail, ShownFine
    <2>4. QED
      BY <1>1, <1>3, <1>4, <2>2, <2>3 DEF IInv
  <1>5. CASE Arrive(q)
    <2>1. /\ at[q] = "sent" /\ at'[q] = "done" /\ shown' = q
          /\ call'[q] = call[q] /\ told'[q] = told[q]
          /\ q \notin stale' => q \notin stale
          /\ UNCHANGED <<database, token, sel, pending>>
      BY <1>2, <1>5 DEF IInv, TypeOK, Arrive, End, Goto
    <2>2. RoleOf(q)' = RoleOf(q) /\ Granted(RoleOf(q))' = Granted(RoleOf(q))
      BY <2>1 DEF RoleOf, Granted, database
    <2>3. CallFine(q)' /\ ReadFine(q)' /\ SentFine(q)'
      BY <1>2, <2>1 DEF CallFine, ReadFine, SentFine, UnderWay
    <2>4. FreshFine(q)'
      BY <2>1, <2>2 DEF IInv, Each, FreshFine, UnderWay
    <2>5. ASSUME NEW p \in Calls, p = shown
          PROVE  Each(p)'
      <3>1. at'[p] = "done" /\ p # shown'
        BY <1>2, <1>5, <2>1, <2>5 DEF IInv, Each, TypeOK, CallFine, Arrive, End, Goto
      <3>2. QED
        BY <3>1 DEF Each, CallFine, ReadFine, SentFine, FreshFine, UnderWay
    <2>6. ShownFine'
      BY <1>2, <2>1 DEF IInv, Each, FreshFine, ShownFine
    <2>7. QED
      BY <1>1, <1>3, <2>3, <2>4, <2>5, <2>6 DEF IInv, Each
  <1>6. QED
    BY <1>4, <1>5

\* A change of the tables is noted for the requests it concerns.
LEMMA AdministerFine ==
    ASSUME IInv, Administer
    PROVE  IInv'
  <1>1. Note
    BY Noted
  <1>2. UNCHANGED <<at, call, found, told, provider>> /\ stale \subseteq stale'
    BY <1>1 DEF Note
  <1>3. ShownFine'
    BY <1>2 DEF IInv, ShownFine, provider
  <1>4. ASSUME NEW q \in Calls
        PROVE  Each(q)'
    <2>1. CallFine(q)'
      BY <1>2 DEF IInv, Each, CallFine, UnderWay, provider
    <2>2. ReadFine(q)'
      <3>1. SUFFICES ASSUME at[q] = "codes"
                     PROVE  /\ "role" \notin undone'[q] => RoleOf(q)' = found[q]
                            /\ RoleOf(q)' = found[q] \/ "codes" \notin undone'[q] =>
                                   <<found[q], codes'[found[q]]>> \in was'[q]
        BY <1>2 DEF ReadFine
      <3>2. was'[q] = was[q] \union {Truth(q)'} /\ undone'[q] = Undone(q)
        BY <1>1, <3>1 DEF IInv, TypeOK, Note
      <3>3. "role" \notin undone'[q] => RoleOf(q)' = found[q]
        BY <3>2 DEF Undone
      <3>4. CASE RoleOf(q)' = found[q]
        <4>1. found[q] \in RoleIds /\ found[q] # None
          BY <3>1, AuthContextAssumption DEF IInv, Each, CallFine
        <4>2. Truth(q)' = <<found[q], codes'[found[q]]>>
          BY <3>4, <4>1 DEF Truth, Granted
        <4>3. QED
          BY <3>2, <3>3, <4>2
      <3>5. CASE "codes" \notin undone'[q]
        <4>1. "codes" \notin undone[q] /\ codes'[found[q]] = codes[found[q]]
          BY <3>2, <3>5 DEF Undone
        <4>2. <<found[q], codes[found[q]]>> \in was[q]
          BY <3>1, <4>1 DEF IInv, Each, ReadFine
        <4>3. QED
          BY <3>2, <3>3, <4>1, <4>2
      <3>6. QED
        BY <3>3, <3>4, <3>5
    <2>3. SentFine(q)'
      BY <1>1, <1>2 DEF IInv, TypeOK, Each, SentFine, Note
    <2>4. FreshFine(q)'
      <3>1. SUFFICES ASSUME q \notin stale'
                     PROVE  FreshFine(q)'
        BY DEF FreshFine
      <3>2. q \notin stale
        BY <1>2, <3>1
      <3>3. at[q] \in {"codes", "sent"} \/ q = shown => Truth(q)' = Truth(q)
        BY <1>1, <3>1 DEF Note
      <3>4. at[q] \in {"codes", "sent"} \/ q = shown =>
                RoleOf(q)' = RoleOf(q) /\ Granted(RoleOf(q))' = Granted(RoleOf(q))
        BY <3>3 DEF Truth
      <3>5. QED
        BY <1>2, <3>2, <3>4 DEF IInv, Each, FreshFine, UnderWay, provider
    <2>5. QED
      BY <2>1, <2>2, <2>3, <2>4 DEF Each
  <1>5. QED
    BY <1>3, <1>4, AdministerTyped DEF IInv

LEMMA StutterFine == IInv /\ UNCHANGED vars => IInv'
  <1> SUFFICES ASSUME IInv, UNCHANGED vars
               PROVE  IInv'
    OBVIOUS
  <1>1. TypeOK'
    BY DEF IInv, TypeOK, vars, database, request, provider
  <1>2. ShownFine'
    BY DEF IInv, ShownFine, vars, request, provider
  <1>3. ASSUME NEW q \in Calls
        PROVE  Each(q)'
    BY OthersKept DEF IInv, vars, request, provider
  <1>4. QED
    BY <1>1, <1>2, <1>3 DEF IInv

LEMMA StepFine == IInv /\ [Next]_vars => IInv'
  <1> SUFFICES ASSUME IInv, [Next]_vars
               PROVE  IInv'
    OBVIOUS
  <1>1. CASE UNCHANGED vars
    BY <1>1, StutterFine
  <1>2. ASSUME NEW u \in Users \union {None}, NEW t \in Tenants, SetProps(u, t)
        PROVE  IInv'
    BY <1>2, PropsFine
  <1>3. CASE Effect \/ Refetch
    BY <1>3, LoadFine
  <1>4. ASSUME NEW q \in Calls, Serve(q)
        PROVE  IInv'
    BY <1>4, ServeFine
  <1>5. ASSUME NEW q \in Calls, Arrive(q) \/ Fail(q)
        PROVE  IInv'
    BY <1>5, EndFine
  <1>6. CASE Administer
    BY <1>6, AdministerFine
  <1>7. QED
    BY <1>1, <1>2, <1>3, <1>4, <1>5, <1>6 DEF Next

\* IInv holds in every state.
THEOREM Invariance == Spec => []IInv
  BY InitFine, StepFine, PTL DEF Spec

-----------------------------------------------------------------------------
\* Every variable has its type; only roles that exist have members.
THEOREM TypeCorrect == Spec => []TypeOK
  <1>1. IInv => TypeOK
    BY DEF IInv
  <1>2. QED
    BY <1>1, Invariance, PTL

\* The two queries of UserAuthContextView agree unless both of what they read changed.
THEOREM AnswersTrue == Spec => []AnswersWereTrue
  <1>1. IInv => AnswersWereTrue
    BY DEF IInv, Each, SentFine, AnswersWereTrue
  <1>2. QED
    BY <1>1, Invariance, PTL

\* The guards of the front end and the server agree, but for the named exceptions.
THEOREM GuardsAndServerAgree == Spec => []GuardsAgree
  <1>1. IInv => GuardsAgree
    <2> SUFFICES ASSUME IInv, token # None, ~ loading, ~ pending, ~ error,
                        shown \notin stale \union {None}, NEW c \in Codes
                 PROVE  c \in told[shown] <=> HasPermission(token, sel, c)
      BY DEF GuardsAgree
    <2>1. shown \in Calls /\ call[shown] = [user |-> token, tenant |-> sel]
      BY DEF IInv, TypeOK, ShownFine
    <2>2. told[shown] = Granted(RoleOf(shown))
      BY <2>1 DEF IInv, Each, FreshFine
    <2>3. RoleOf(shown) = member[<<token, sel>>]
      BY <2>1 DEF RoleOf
    <2>4. QED
      BY <2>2, <2>3 DEF HasPermission
  <1>2. QED
    BY <1>1, Invariance, PTL

=============================================================================
