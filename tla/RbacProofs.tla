----------------------------- MODULE RbacProofs -----------------------------
(***************************************************************************)
(* Proofs about Rbac: the inductive invariant IInv, and the properties     *)
(* that follow from it.                                                    *)
(***************************************************************************)
EXTENDS Rbac, TLAPS

USE RbacAssumption

\* What a request-local step leaves alone: the database and the history.
Quiet == UNCHANGED <<db, history>>

\* A step that changes neither the tables nor the history keeps what is said
\* of them.
LEMMA QuietTables ==
    ASSUME IInv, Quiet
    PROVE  /\ RolesOfTenants'
           /\ RolesStayInTenant'
           /\ SlugNamesOneRole'
           /\ Counted'
          
<1>1. RolesOfTenants'
  BY DEF IInv, RolesOfTenants, Quiet, db
<1>2. RolesStayInTenant'
  BY DEF IInv, RolesStayInTenant, Quiet, db, history, byHand
<1>3. SlugNamesOneRole'
  BY DEF IInv, SlugNamesOneRole, Quiet, db
<1>4. Counted'
  BY DEF IInv, Counted, Quiet, history, byHand
<1> QED BY <1>1, <1>2, <1>3, <1>4

LEMMA InitIInv == Init => IInv
<1> SUFFICES ASSUME Init PROVE IInv
  OBVIOUS
<1>1. TypeOK
  BY DEF Init, TypeOK, Pairs, Steps, Replies, RoleRow
<1>2. LocalsRead
  BY DEF Init, LocalsRead
<1>3. RolesOfTenants /\ SlugNamesOneRole /\ Counted
  BY DEF Init, RolesOfTenants, SlugNamesOneRole, Counted
<1>4. RolesStayInTenant
  BY DEF Init, RolesStayInTenant
<1>5. FoundRole /\ OwnRole /\ UnfinishedRole
  BY DEF Init, FoundRole, OwnRole, UnfinishedRole, IsCreator
<1>6. Authority
  BY DEF Init, Authority, Managing
<1>7. AnsweredCreateIsSettled
  BY DEF Init, AnsweredCreateIsSettled
<1> QED BY <1>1, <1>2, <1>3, <1>4, <1>5, <1>6, <1>7 DEF IInv

LEMMA ReceiveIInv ==
    ASSUME NEW q \in Requests, NEW op \in Ops, NEW u \in Users, NEW t \in Tenants,
           IInv, Receive(q, op, u, t)
    PROVE  IInv'
<1> USE DEF IInv
<1>1. Quiet
  BY DEF Receive, Quiet
<1>2. TypeOK'
  BY DEF Receive, TypeOK, Goto, Call, Steps, db, history, byHand
<1>3. LocalsRead'
  BY DEF Receive, LocalsRead, TypeOK, Goto, Call, Steps, Ops
<1>4. FoundRole'
  BY DEF Receive, FoundRole, TypeOK, Goto, db, history, byHand
<1>5. OwnRole'
  BY DEF Receive, OwnRole, IsCreator, LocalsRead, TypeOK, Goto, db, history, byHand
<1>6. UnfinishedRole'
  BY DEF Receive, UnfinishedRole, TypeOK, Goto, db, history, byHand
<1>7. Authority'
  BY DEF Receive, Authority, Managing, TypeOK, Goto, db, history, byHand
<1>8. AnsweredCreateIsSettled'
  BY DEF Receive, AnsweredCreateIsSettled, LocalsRead, TypeOK, Goto, db, history, byHand
<1> QED BY <1>1, <1>2, <1>3, <1>4, <1>5, <1>6, <1>7, <1>8, QuietTables

LEMMA GateIInv ==
    ASSUME NEW q \in Requests,
           IInv, Gate(q)
    PROVE  IInv'
<1> USE DEF IInv
<1>1. Quiet
  BY DEF Gate, Quiet
<1>2. TypeOK'
  BY DEF Gate, TypeOK, Goto, Answer, Close, Steps, Replies, db, history, byHand
<1>3. LocalsRead'
  BY DEF Gate, LocalsRead, TypeOK, Goto, Answer, Close, Steps, Call, Ops, db
<1>4. FoundRole'
  BY DEF Gate, FoundRole, LocalsRead, TypeOK, Goto, Answer, Close, db, history, byHand
<1>5. OwnRole'
  BY DEF Gate, OwnRole, IsCreator, LocalsRead, TypeOK, Goto, Answer, Close, db, history, byHand
<1>6. UnfinishedRole'
  BY DEF Gate, UnfinishedRole, LocalsRead, TypeOK, Goto, Answer, Close, db, history, byHand
<1>7. Authority'
  <2>1. call[q] \in Call /\ <<call[q].actor, call[q].tenant>> \in Pairs
    BY DEF Gate, LocalsRead, Call, Pairs
  <2>2. pc'[q] = "body" => /\ call[q].tenant \in tenants
                           /\ HasRole(call[q].actor, call[q].tenant, ManagerSlugs)
    BY <2>1 DEF Gate, Allowed, ResolveTenant, RequiredRoles, TypeOK, Goto, Answer, Close, Call, Ops
  <2>3. pc'[q] = "manager" => call[q].tenant \in tenants
    BY <2>1 DEF Gate, Allowed, ResolveTenant, TypeOK, Goto, Answer, Close
  <2>4. pc'[q] \in {"body", "manager", "done"}
    BY DEF Gate, TypeOK, Goto, Answer, Close
  <2>5. pc'[q] = "body" => \/ call[q].actor \in Superusers
                           \/ <<call[q].actor, call[q].tenant>> \in managers
    BY <2>1, <2>2 DEF HasRole, Authority, Managing
  <2> QED
    BY <2>2, <2>3, <2>4, <2>5 DEF Gate, Authority, Managing, TypeOK, Goto, Answer, Close, db, history, byHand
<1>8. AnsweredCreateIsSettled'
  BY DEF Gate, AnsweredCreateIsSettled, LocalsRead, TypeOK, Goto, Answer, Close, db, history, byHand
<1> QED BY <1>1, <1>2, <1>3, <1>4, <1>5, <1>6, <1>7, <1>8, QuietTables

LEMMA ManagerCheckIInv ==
    ASSUME NEW q \in Requests,
           IInv, ManagerCheck(q)
    PROVE  IInv'
<1> USE DEF IInv
<1>1. Quiet
  BY DEF ManagerCheck, Quiet
<1>2. TypeOK'
  BY DEF ManagerCheck, TypeOK, Goto, Answer, Close, Steps, Replies, db, history, byHand
<1>3. LocalsRead'
  BY DEF ManagerCheck, LocalsRead, TypeOK, Goto, Answer, Close, Steps, Call, Ops, db
<1>4. FoundRole'
  BY DEF ManagerCheck, FoundRole, LocalsRead, TypeOK, Goto, Answer, Close, db, history, byHand
<1>5. OwnRole'
  BY DEF ManagerCheck, OwnRole, IsCreator, LocalsRead, TypeOK, Goto, Answer, Close, db, history, byHand
<1>6. UnfinishedRole'
  BY DEF ManagerCheck, UnfinishedRole, LocalsRead, TypeOK, Goto, Answer, Close, db, history, byHand
<1>7. Authority'
  <2>1. call[q] \in Call /\ <<call[q].actor, call[q].tenant>> \in Pairs
    BY DEF ManagerCheck, LocalsRead, Call, Pairs
  <2>2. pc'[q] = "body" => \/ call[q].actor \in Superusers
                           \/ <<call[q].actor, call[q].tenant>> \in managers
    BY <2>1 DEF ManagerCheck, HasRole, Authority, Managing, TypeOK, Goto, Answer, Close
  <2>3. pc'[q] \in {"body", "done"} /\ call[q].tenant \in tenants
    BY DEF ManagerCheck, Authority, Managing, TypeOK, Goto, Answer, Close
  <2> QED
    BY <2>2, <2>3 DEF ManagerCheck, Authority, Managing, TypeOK, Goto, Answer, Close, db, history, byHand
<1>8. AnsweredCreateIsSettled'
  BY DEF ManagerCheck, AnsweredCreateIsSettled, LocalsRead, TypeOK, Goto, Answer, Close, db, history, byHand
<1> QED BY <1>1, <1>2, <1>3, <1>4, <1>5, <1>6, <1>7, <1>8, QuietTables

LEMMA ReadTargetIInv ==
    ASSUME NEW q \in Requests, NEW u \in Users,
           IInv, ReadTarget(q, u)
    PROVE  IInv'
<1> USE DEF IInv
<1>1. Quiet
  BY DEF ReadTarget, Quiet
<1>2. TypeOK'
  BY DEF ReadTarget, TypeOK, Goto, Answer, Close, Steps, Replies, db, history, byHand
<1>3. LocalsRead'
  BY DEF ReadTarget, LocalsRead, TypeOK, Goto, Answer, Close, Steps, Call, Ops, db
<1>4. FoundRole'
  BY DEF ReadTarget, FoundRole, LocalsRead, TypeOK, Goto, Answer, Close, db, history, byHand
<1>5. OwnRole'
  BY DEF ReadTarget, OwnRole, IsCreator, LocalsRead, TypeOK, Goto, Answer, Close, db, history, byHand
<1>6. UnfinishedRole'
  BY DEF ReadTarget, UnfinishedRole, LocalsRead, TypeOK, Goto, Answer, Close, db, history, byHand
<1>7. Authority'
  BY DEF ReadTarget, Authority, Managing, LocalsRead, TypeOK, Goto, Answer, Close, db, history, byHand
<1>8. AnsweredCreateIsSettled'
  BY DEF ReadTarget, AnsweredCreateIsSettled, LocalsRead, TypeOK, Goto, Answer, Close, db, history, byHand
<1> QED BY <1>1, <1>2, <1>3, <1>4, <1>5, <1>6, <1>7, <1>8, QuietTables

LEMMA ExistsCheckIInv ==
    ASSUME NEW q \in Requests, NEW s \in Slugs, NEW cs \in SUBSET Codes,
           IInv, ExistsCheck(q, s, cs)
    PROVE  IInv'
<1> USE DEF IInv
<1>1. Quiet
  BY DEF ExistsCheck, Quiet
<1>2. TypeOK'
  BY DEF ExistsCheck, TypeOK, Goto, Answer, Close, Steps, Replies, db, history, byHand
<1>3. LocalsRead'
  BY DEF ExistsCheck, LocalsRead, TypeOK, Goto, Answer, Close, Steps, Call, Ops, db
<1>4. FoundRole'
  BY DEF ExistsCheck, FoundRole, LocalsRead, TypeOK, Goto, Answer, Close, db, history, byHand
<1>5. OwnRole'
  BY DEF ExistsCheck, OwnRole, IsCreator, LocalsRead, TypeOK, Goto, Answer, Close, db, history, byHand
<1>6. UnfinishedRole'
  BY DEF ExistsCheck, UnfinishedRole, LocalsRead, TypeOK, Goto, Answer, Close, db, history, byHand
<1>7. Authority'
  BY DEF ExistsCheck, Authority, Managing, LocalsRead, TypeOK, Goto, Answer, Close, db, history, byHand
<1>8. AnsweredCreateIsSettled'
  BY DEF ExistsCheck, AnsweredCreateIsSettled, LocalsRead, TypeOK, Goto, Answer, Close, db, history, byHand
<1> QED BY <1>1, <1>2, <1>3, <1>4, <1>5, <1>6, <1>7, <1>8, QuietTables

LEMMA FindRoleIInv ==
    ASSUME NEW q \in Requests, NEW s \in Slugs,
           IInv, FindRole(q, s)
    PROVE  IInv'
<1> USE DEF IInv
<1>1. Quiet
  BY DEF FindRole, Quiet
<1>0. \/ Close(q, "notfound")
      \/ /\ Goto(q, "upsert")
         /\ slug' = [slug EXCEPT ![q] = s]
         /\ UNCHANGED <<call, target, codes>>
         /\ \E r \in RolesNamed(call[q].tenant, s) : row' = [row EXCEPT ![q] = r]
  BY DEF FindRole, AssignableRoles
<1>2. TypeOK'
  BY <1>0 DEF FindRole, RolesNamed, TypeOK, Goto, Answer, Close, Steps, Replies, db, history, byHand
<1>3. LocalsRead'
  BY <1>0 DEF FindRole, LocalsRead, TypeOK, Goto, Answer, Close, Steps, Call, Ops, db
<1>4. FoundRole'
  BY <1>0 DEF FindRole, RolesNamed, FoundRole, TypeOK, Goto, Answer, Close, db, history, byHand
<1>5. OwnRole'
  BY <1>0 DEF FindRole, OwnRole, IsCreator, LocalsRead, TypeOK, Goto, Answer, Close, db, history, byHand
<1>6. UnfinishedRole'
  BY <1>0 DEF FindRole, UnfinishedRole, LocalsRead, TypeOK, Goto, Answer, Close, db, history, byHand
<1>7. Authority'
  BY DEF FindRole, Authority, Managing, LocalsRead, TypeOK, Goto, Answer, Close, db, history, byHand
<1>8. AnsweredCreateIsSettled'
  BY <1>0 DEF FindRole, AnsweredCreateIsSettled, LocalsRead, TypeOK, Goto, Answer, Close, db, history, byHand
<1> QED BY <1>1, <1>2, <1>3, <1>4, <1>5, <1>6, <1>7, <1>8, QuietTables

LEMMA AssignRollbackIInv ==
    ASSUME NEW q \in Requests,
           IInv, AssignRollback(q)
    PROVE  IInv'
<1> USE DEF IInv
<1>1. Quiet
  BY DEF AssignRollback, Quiet
<1>2. TypeOK'
  BY DEF AssignRollback, TypeOK, Goto, Answer, Close, Steps, Replies, db, history, byHand
<1>3. LocalsRead'
  BY DEF AssignRollback, LocalsRead, TypeOK, Goto, Answer, Close, Steps, Call, Ops, db
<1>4. FoundRole'
  BY DEF AssignRollback, FoundRole, LocalsRead, TypeOK, Goto, Answer, Close, db, history, byHand
<1>5. OwnRole'
  BY DEF AssignRollback, OwnRole, IsCreator, LocalsRead, TypeOK, Goto, Answer, Close, db, history, byHand
<1>6. UnfinishedRole'
  BY DEF AssignRollback, UnfinishedRole, LocalsRead, TypeOK, Goto, Answer, Close, db, history, byHand
<1>7. Authority'
  BY DEF AssignRollback, Authority, Managing, LocalsRead, TypeOK, Goto, Answer, Close, db, history, byHand
<1>8. AnsweredCreateIsSettled'
  BY DEF AssignRollback, AnsweredCreateIsSettled, LocalsRead, TypeOK, Goto, Answer, Close, db, history, byHand
<1> QED BY <1>1, <1>2, <1>3, <1>4, <1>5, <1>6, <1>7, <1>8, QuietTables

LEMMA LookupCodesIInv ==
    ASSUME NEW q \in Requests,
           IInv, LookupCodes(q)
    PROVE  IInv'
<1> USE DEF IInv
<1>1. Quiet
  BY DEF LookupCodes, Quiet
<1>2. TypeOK'
  BY DEF LookupCodes, TypeOK, Goto, Answer, Close, Steps, Replies, db, history, byHand
<1>3. LocalsRead'
  BY DEF LookupCodes, LocalsRead, TypeOK, Goto, Answer, Close, Steps, Call, Ops, db
<1>4. FoundRole'
  BY DEF LookupCodes, FoundRole, LocalsRead, TypeOK, Goto, Answer, Close, db, history, byHand
<1>5. OwnRole'
  BY DEF LookupCodes, OwnRole, IsCreator, LocalsRead, TypeOK, Goto, Answer, Close, db, history, byHand
<1>6. UnfinishedRole'
  BY DEF LookupCodes, UnfinishedRole, LocalsRead, TypeOK, Goto, Answer, Close, db, history, byHand
<1>7. Authority'
  BY DEF LookupCodes, Authority, Managing, LocalsRead, TypeOK, Goto, Answer, Close, db, history, byHand
<1>8. AnsweredCreateIsSettled'
  BY DEF LookupCodes, AnsweredCreateIsSettled, LocalsRead, TypeOK, Goto, Answer, Close, db, history, byHand
<1> QED BY <1>1, <1>2, <1>3, <1>4, <1>5, <1>6, <1>7, <1>8, QuietTables

LEMMA CollectRoleIInv ==
    ASSUME NEW q \in Requests,
           IInv, CollectRole(q)
    PROVE  IInv'
<1> USE DEF IInv
<1>1. Quiet
  BY DEF CollectRole, Quiet
<1>2. TypeOK'
  BY DEF CollectRole, TypeOK, Goto, Answer, Close, Steps, Replies, db, history, byHand
<1>3. LocalsRead'
  BY DEF CollectRole, LocalsRead, TypeOK, Goto, Answer, Close, Steps, Call, Ops, db
<1>4. FoundRole'
  BY DEF CollectRole, FoundRole, LocalsRead, TypeOK, Goto, Answer, Close, db, history, byHand
<1>5. OwnRole'
  BY DEF CollectRole, OwnRole, IsCreator, LocalsRead, TypeOK, Goto, Answer, Close, db, history, byHand
<1>6. UnfinishedRole'
  <2>1. IsCreator(q)
    BY DEF CollectRole, LocalsRead, UnfinishedRole, IsCreator, TypeOK
  <2>2. row[q] \notin edited => \A p \in doomed'[q] \ placed : p[2] = call[q].tenant
    BY <2>1 DEF CollectRole, TypeOK, OwnRole, RolesStayInTenant
  <2> QED
    BY <2>2 DEF CollectRole, UnfinishedRole, LocalsRead, TypeOK, Goto, db, history, byHand
<1>7. Authority'
  BY DEF CollectRole, Authority, Managing, LocalsRead, TypeOK, Goto, Answer, Close, db, history, byHand
<1>8. AnsweredCreateIsSettled'
  BY DEF CollectRole, AnsweredCreateIsSettled, LocalsRead, TypeOK, Goto, Answer, Close, db, history, byHand
<1> QED BY <1>1, <1>2, <1>3, <1>4, <1>5, <1>6, <1>7, <1>8, QuietTables

LEMMA CrashIInv ==
    ASSUME NEW q \in Requests,
           IInv, Crash(q)
    PROVE  IInv'
<1> USE DEF IInv
<1>1. Quiet
  BY DEF Crash, Quiet
<1>2. TypeOK'
  BY DEF Crash, TypeOK, Goto, Answer, Close, Steps, Replies, db, history, byHand
<1>3. LocalsRead'
  BY DEF Crash, LocalsRead, TypeOK, Goto, Answer, Close, Steps, Call, Ops, db
<1>4. FoundRole'
  BY DEF Crash, FoundRole, LocalsRead, TypeOK, Goto, Answer, Close, db, history, byHand
<1>5. OwnRole'
  BY DEF Crash, OwnRole, IsCreator, LocalsRead, TypeOK, Goto, Answer, Close, db, history, byHand
<1>6. UnfinishedRole'
  BY DEF Crash, UnfinishedRole, LocalsRead, TypeOK, Goto, Answer, Close, db, history, byHand
<1>7. Authority'
  BY DEF Crash, Authority, Managing, LocalsRead, TypeOK, Goto, Answer, Close, db, history, byHand
<1>8. AnsweredCreateIsSettled'
  BY DEF Crash, AnsweredCreateIsSettled, LocalsRead, TypeOK, Goto, Answer, Close, db, history, byHand
<1> QED BY <1>1, <1>2, <1>3, <1>4, <1>5, <1>6, <1>7, <1>8, QuietTables

-----------------------------------------------------------------------------
(* Steps that change the tables *)

\* What create_default_roles makes: one default role for each tenant and default
\* slug that lacks one, under keys that were not spent.
LEMMA DefaultRowsFacts ==
    ASSUME NEW lacking \in SUBSET (Tenants \X DefaultSlugs),
           Injection(lacking, Unspent) # {},
           NEW rows, rows = DefaultRows(lacking)
    PROVE  /\ DOMAIN rows \subseteq Unspent
           /\ \A r \in DOMAIN rows :
                /\ rows[r] \in RoleRow
                /\ <<rows[r].tenant, rows[r].slug>> \in lacking
                /\ rows[r].is_default
                /\ rows[r].permissions = {}
           /\ \A d \in lacking :
                \E r \in DOMAIN rows : rows[r].tenant = d[1] /\ rows[r].slug = d[2]
           /\ \A r1, r2 \in DOMAIN rows :
                (rows[r1].tenant = rows[r2].tenant /\ rows[r1].slug = rows[r2].slug)
                => r1 = r2
<1> DEFINE key == CHOOSE f \in Injection(lacking, Unspent) : TRUE
           of == [r \in Range(key) |-> CHOOSE d \in DOMAIN key : key[d] = r]
<1>1. key \in Injection(lacking, Unspent)
  OBVIOUS
<1>2. key \in [lacking -> Unspent]
  BY <1>1 DEF Injection
<1>3. \A d, e \in lacking : key[d] = key[e] => d = e
  BY <1>1 DEF Injection, IsInjective
<1>4. \A r \in Range(key) : of[r] \in lacking /\ key[of[r]] = r
  BY <1>2 DEF Range
<1>5. ASSUME NEW d \in lacking
      PROVE  key[d] \in Range(key) /\ of[key[d]] = d
  <2>1. key[d] \in Range(key)
    BY <1>2 DEF Range
  <2>2. of[key[d]] \in lacking /\ key[of[key[d]]] = key[d]
    BY <2>1, <1>4
  <2> HIDE DEF key, of
  <2> QED
    BY <2>1, <2>2, <1>3
<1>6. rows = [r \in Range(key) |-> [tenant |-> of[r][1], slug |-> of[r][2],
                                   is_default |-> TRUE, permissions |-> {}]]
  BY DEF DefaultRows
<1> HIDE DEF key, of
<1>7. DOMAIN rows \subseteq Unspent
  BY <1>2, <1>6 DEF Range
<1>8. ASSUME NEW r \in DOMAIN rows
      PROVE  /\ rows[r] \in RoleRow
             /\ <<rows[r].tenant, rows[r].slug>> \in lacking
             /\ rows[r].is_default
             /\ rows[r].permissions = {}
  <2>1. of[r] \in lacking /\ of[r] \in Tenants \X DefaultSlugs
    BY <1>4, <1>6
  <2>2. of[r] = <<of[r][1], of[r][2]>> /\ of[r][1] \in Tenants /\ of[r][2] \in DefaultSlugs
    BY <2>1
  <2> QED BY <2>1, <2>2, <1>6 DEF RoleRow
<1>9. ASSUME NEW d \in lacking
      PROVE  \E r \in DOMAIN rows : rows[r].tenant = d[1] /\ rows[r].slug = d[2]
  <2>1. PICK r \in Range(key) : of[r] = d
    BY <1>5
  <2>2. r \in DOMAIN rows /\ rows[r].tenant = of[r][1] /\ rows[r].slug = of[r][2]
    BY <1>6
  <2> QED
    BY <2>1, <2>2
<1>10. ASSUME NEW r1 \in DOMAIN rows, NEW r2 \in DOMAIN rows,
              rows[r1].tenant = rows[r2].tenant, rows[r1].slug = rows[r2].slug
       PROVE  r1 = r2
  <2>1. of[r1][1] = of[r2][1] /\ of[r1][2] = of[r2][2]
    BY <1>6, <1>10
  <2>2. of[r1] \in Tenants \X DefaultSlugs /\ of[r2] \in Tenants \X DefaultSlugs
    BY <1>4, <1>6
  <2>3. of[r1] = of[r2]
    BY <2>1, <2>2
  <2> QED
    BY <2>3, <1>4, <1>6
<1> QED BY <1>7, <1>8, <1>9, <1>10

\* Tenants get default roles they lacked; the roles there were keep their tenant,
\* slug and standing.
Seeded(lacking, rows) ==
    /\ tenants \subseteq tenants' /\ \A d \in lacking : d[1] \in tenants'
    /\ spent' = spent \union DOMAIN rows
    /\ DOMAIN role' = DOMAIN role \union DOMAIN rows
    /\ \A r \in DOMAIN role :
         /\ role'[r].tenant = role[r].tenant
         /\ role'[r].slug = role[r].slug
         /\ role'[r].is_default = role[r].is_default
         /\ role[r].slug \notin DefaultSlugs => role'[r] = role[r]
    /\ \A r \in DOMAIN rows :
         /\ role'[r].tenant = rows[r].tenant
         /\ role'[r].slug = rows[r].slug
         /\ role'[r].is_default = rows[r].is_default
    /\ UNCHANGED <<account, dropped, edits, edited, placed>>
    /\ UNCHANGED <<pc, call, target, slug, codes, row, doomed, reply>>
    /\ registry \subseteq registry'

LEMMA SeededTables ==
    ASSUME NEW lacking \in SUBSET (Tenants \X DefaultSlugs),
           \A d \in lacking : RolesNamed(d[1], d[2]) = {},
           Injection(lacking, Unspent) # {},
           NEW rows, rows = DefaultRows(lacking), IInv, Seeded(lacking, rows)
    PROVE  /\ RolesOfTenants' /\ SlugNamesOneRole' /\ Counted'
           /\ LocalsRead' /\ FoundRole' /\ OwnRole' /\ UnfinishedRole'
           /\ AnsweredCreateIsSettled'
<1> USE DEF IInv
<1>1. /\ DOMAIN rows \cap spent = {} /\ DOMAIN rows \cap DOMAIN role = {}
      /\ DOMAIN rows \subseteq RoleIds
      /\ \A r \in DOMAIN rows : <<rows[r].tenant, rows[r].slug>> \in lacking
      /\ \A r1, r2 \in DOMAIN rows :
           (rows[r1].tenant = rows[r2].tenant /\ rows[r1].slug = rows[r2].slug)
           => r1 = r2
  <2>1. DOMAIN rows \subseteq Unspent
    BY DefaultRowsFacts
  <2>2. DOMAIN rows \cap spent = {} /\ DOMAIN rows \subseteq RoleIds
    BY <2>1 DEF Unspent
  <2> QED BY <2>2, DefaultRowsFacts DEF TypeOK
<1>2. \A r \in DOMAIN rows : rows[r].tenant \in tenants'
  <2>1. \A r \in DOMAIN rows : <<rows[r].tenant, rows[r].slug>>[1] \in tenants'
    BY <1>1 DEF Seeded
  <2> QED BY <2>1
<1>3. RolesOfTenants'
  BY <1>1, <1>2 DEF RolesOfTenants, Seeded
<1>4. ASSUME NEW r1 \in DOMAIN role, NEW r2 \in DOMAIN rows
      PROVE  ~ (role[r1].tenant = rows[r2].tenant /\ role[r1].slug = rows[r2].slug)
  <2>1. RolesNamed(<<rows[r2].tenant, rows[r2].slug>>[1], <<rows[r2].tenant, rows[r2].slug>>[2]) = {}
    BY <1>1
  <2>2. RolesNamed(rows[r2].tenant, rows[r2].slug) = {}
    BY <2>1
  <2> QED BY <2>2 DEF RolesNamed
<1>5. SlugNamesOneRole'
  BY <1>1, <1>4 DEF SlugNamesOneRole, Seeded
<1>6. \A q \in Requests : row[q] \in DOMAIN role' => row[q] \in DOMAIN role
  BY <1>1 DEF TypeOK, Seeded
<1>7. Counted' /\ LocalsRead'
  BY DEF Counted, LocalsRead, Seeded
<1>8. FoundRole'
  BY <1>6 DEF FoundRole, Seeded
<1>9. OwnRole'
  BY <1>6 DEF OwnRole, IsCreator, Seeded
<1>10. UnfinishedRole'
  BY <1>6 DEF UnfinishedRole, Seeded
<1>11. ASSUME NEW q \in Requests, call[q] # Nobody, call[q].op = "create",
              row[q] \notin edited, slug[q] \notin DefaultSlugs, row[q] \in DOMAIN role
       PROVE  role'[row[q]] = role[row[q]]
  <2>1. IsCreator(q)
    BY <1>11 DEF IsCreator, TypeOK
  <2>2. role[row[q]].slug = slug[q]
    BY <2>1, <1>11 DEF OwnRole
  <2> QED BY <1>11, <2>2 DEF Seeded
<1>12. AnsweredCreateIsSettled'
  BY <1>6, <1>11 DEF AnsweredCreateIsSettled, Seeded
<1> QED BY <1>3, <1>5, <1>7, <1>8, <1>9, <1>10, <1>12

LEMMA ProvisionIInv ==
    ASSUME NEW t \in Tenants, IInv, Provision(t)
    PROVE  IInv'
<1> USE DEF IInv
<1>0. PICK lacking \in SUBSET (Tenants \X DefaultSlugs) : lacking = {t} \X DefaultSlugs
  OBVIOUS
<1>1. Injection(lacking, Unspent) # {}
  BY <1>0 DEF Provision
<1>2. PICK rows : rows = DefaultRows(lacking)
  OBVIOUS
<1>3. /\ DOMAIN rows \subseteq Unspent
      /\ \A r \in DOMAIN rows : rows[r] \in RoleRow
  BY <1>1, <1>2, DefaultRowsFacts
<1>4. /\ role' = [r \in DOMAIN role \union DOMAIN rows |->
                    IF r \in DOMAIN rows THEN rows[r] ELSE role[r]]
      /\ spent' = spent \union DOMAIN rows
  BY <1>0, <1>2 DEF Provision, AddRoles
<1>5. DOMAIN rows \cap spent = {} /\ DOMAIN rows \cap DOMAIN role = {}
  BY <1>3 DEF Unspent, TypeOK
<1>6. Seeded(lacking, rows)
  BY <1>0, <1>4, <1>5 DEF Provision, Seeded, locals, history, byHand
<1>7. \A d \in lacking : RolesNamed(d[1], d[2]) = {}
  BY <1>0 DEF Provision, RolesNamed, RolesOfTenants
<1>8. /\ RolesOfTenants' /\ SlugNamesOneRole' /\ Counted'
      /\ LocalsRead' /\ FoundRole' /\ OwnRole' /\ UnfinishedRole'
      /\ AnsweredCreateIsSettled'
  BY <1>1, <1>2, <1>6, <1>7, SeededTables
<1>9. \A r \in DOMAIN role : r \in DOMAIN role' /\ role'[r] = role[r]
  BY <1>4, <1>5
<1>10. TypeOK'
  <2>1. role' \in [DOMAIN role' -> RoleRow]
    BY <1>3, <1>4 DEF TypeOK
  <2>2. tenants' \subseteq Tenants /\ spent' \subseteq RoleIds /\ DOMAIN role' \subseteq spent'
    BY <1>3, <1>4 DEF Provision, TypeOK, Unspent
  <2> QED BY <2>1, <2>2, <1>4 DEF Provision, TypeOK, locals, history, byHand
<1>11. RolesStayInTenant'
  BY <1>9 DEF Provision, RolesStayInTenant, history, byHand
<1>12. Authority'
  <2>1. Managing' = Managing
    BY <1>9 DEF Provision, Managing, RolesStayInTenant
  <2> QED BY <2>1 DEF Provision, Authority, locals, history
<1> QED BY <1>8, <1>10, <1>11, <1>12

LEMMA SeedIInv ==
    ASSUME IInv, Seed
    PROVE  IInv'
<1> USE DEF IInv
<1> DEFINE home == <<DemoAdmin, DemoHome>>
<1>0. PICK lacking \in SUBSET (Tenants \X DefaultSlugs) : lacking = Lacking
  BY DEF Lacking
<1>1. /\ Injection(lacking, Unspent) # {}
      /\ \A d \in lacking : RolesNamed(d[1], d[2]) = {} /\ d[1] \in tenants'
  BY <1>0 DEF Seed, Lacking
<1>2. PICK rows : rows = DefaultRows(lacking)
  OBVIOUS
<1>2a. /\ DOMAIN rows \subseteq Unspent
       /\ \A r \in DOMAIN rows : rows[r] \in RoleRow
  BY <1>1, <1>2, DefaultRowsFacts
<1>2b. \A d \in lacking :
         \E r \in DOMAIN rows : rows[r].tenant = d[1] /\ rows[r].slug = d[2]
  <2>1. Injection(lacking, Unspent) # {}
    BY <1>1
  <2> HIDE DEF IInv
  <2> QED BY <2>1, <1>2, DefaultRowsFacts
<1> DEFINE old(r) == IF r \in DOMAIN rows THEN rows[r] ELSE role[r]
<1>3. /\ DOMAIN role' = DOMAIN role \union DOMAIN rows
      /\ \A r \in DOMAIN role' :
           role'[r] = IF old(r).tenant \in DemoTenants /\ old(r).slug \in DefaultSlugs
                      THEN [old(r) EXCEPT !.permissions = DemoGrants[old(r).slug]]
                      ELSE old(r)
      /\ role' = [r \in DOMAIN role' |-> role'[r]]
      /\ spent' = spent \union DOMAIN rows
      /\ tenants' = tenants \union DemoTenants
  BY <1>0, <1>2 DEF Seed
<1>3a. /\ UNCHANGED <<account, dropped, edits, edited, placed>>
       /\ UNCHANGED <<pc, call, target, slug, codes, row, doomed, reply>>
       /\ registry \subseteq registry' /\ registry' \subseteq Codes
       /\ managers' = managers \union Managing'
  BY DEF Seed, locals, byHand, TypeOK
<1>4. DOMAIN rows \cap spent = {} /\ DOMAIN rows \cap DOMAIN role = {}
  BY <1>2a DEF Unspent, TypeOK
<1>5. \A r \in DOMAIN role' : old(r) \in RoleRow
  BY <1>2a, <1>3 DEF TypeOK
<1>6. ASSUME NEW r \in DOMAIN role'
      PROVE  /\ role'[r] \in RoleRow
             /\ role'[r].tenant = old(r).tenant
             /\ role'[r].slug = old(r).slug
             /\ role'[r].is_default = old(r).is_default
  <2>1. old(r) \in RoleRow
    BY <1>5
  <2>2. role'[r] = IF old(r).tenant \in DemoTenants /\ old(r).slug \in DefaultSlugs
                   THEN [old(r) EXCEPT !.permissions = DemoGrants[old(r).slug]]
                   ELSE old(r)
    BY <1>3
  <2> HIDE DEF old
  <2> QED BY <2>1, <2>2 DEF RoleRow
<1>7. \A r \in DOMAIN role :
        /\ r \in DOMAIN role'
        /\ role'[r].tenant = role[r].tenant
        /\ role'[r].slug = role[r].slug
        /\ role'[r].is_default = role[r].is_default
  BY <1>3, <1>4, <1>6
<1>8. \A r \in DOMAIN role : role[r].slug \notin DefaultSlugs => role'[r] = role[r]
  BY <1>3, <1>4
<1>9. Seeded(lacking, rows)
  BY <1>1, <1>3, <1>3a, <1>4, <1>6, <1>7, <1>8 DEF Seeded
<1>10. /\ RolesOfTenants' /\ SlugNamesOneRole' /\ Counted'
       /\ LocalsRead' /\ FoundRole' /\ OwnRole' /\ UnfinishedRole'
       /\ AnsweredCreateIsSettled'
  BY <1>1, <1>2, <1>9, SeededTables
<1>11. home \in Pairs
  BY DEF Pairs
<1>12. \E r \in DOMAIN role' : role'[r].tenant = DemoHome /\ role'[r].slug = DemoRole
  <2>1. CASE RolesNamed(DemoHome, DemoRole) = {}
    <3>1. PICK d \in lacking : d = <<DemoHome, DemoRole>>
      BY <1>0, <2>1 DEF Lacking
    <3>2. PICK r \in DOMAIN rows : rows[r].tenant = d[1] /\ rows[r].slug = d[2]
      BY <1>2b
    <3> QED BY <3>1, <3>2, <1>3, <1>6
  <2>2. CASE RolesNamed(DemoHome, DemoRole) # {}
    BY <2>2, <1>7 DEF RolesNamed
  <2> QED BY <2>1, <2>2
<1>13. \/ membership' = membership
       \/ /\ account[DemoAdmin] = "active"
          /\ \E r \in DOMAIN role' : /\ role'[r].tenant = DemoHome
                                     /\ membership' = [membership EXCEPT ![home] = r]
  BY <1>12 DEF Seed
<1> HIDE DEF old, home
<1>14. TypeOK'
  <2>1. role' \in [DOMAIN role' -> RoleRow]
    BY <1>3, <1>6
  <2>2. tenants' \subseteq Tenants /\ spent' \subseteq RoleIds /\ DOMAIN role' \subseteq spent'
    BY <1>2a, <1>3 DEF TypeOK, Unspent
  <2>3. membership' \in [Pairs -> RoleIds \union {Nobody}]
    BY <2>2, <1>11, <1>13 DEF TypeOK
  <2>4. managers' \subseteq Pairs
    BY <1>3a DEF TypeOK, Managing
  <2>5. row' \in [Requests -> spent' \union {Nobody}]
    BY <1>3, <1>3a DEF TypeOK
  <2> QED BY <1>3, <1>3a, <2>1, <2>2, <2>3, <2>4, <2>5 DEF TypeOK
<1>15. RolesStayInTenant'
  <2> SUFFICES ASSUME NEW p \in Pairs, membership'[p] # Nobody
               PROVE  /\ membership'[p] \in DOMAIN role'
                      /\ account[p[1]] # "deleted"
                      /\ \/ role'[membership'[p]].tenant = p[2]
                         \/ p \in placed \/ membership'[p] \in edited
    BY <1>3a DEF RolesStayInTenant
  <2>1. CASE membership'[p] = membership[p]
    BY <2>1, <1>7 DEF RolesStayInTenant
  <2>2. CASE membership'[p] # membership[p]
    <3>1. p = home /\ account[DemoAdmin] = "active"
          /\ membership'[p] \in DOMAIN role' /\ role'[membership'[p]].tenant = DemoHome
      BY <2>2, <1>11, <1>13 DEF TypeOK
    <3> QED BY <3>1 DEF home
  <2> QED BY <2>1, <2>2
<1>16. Authority'
  <2>1. Managing' \subseteq managers' /\ managers \subseteq managers' /\ tenants \subseteq tenants'
    BY <1>3, <1>3a
  <2> QED BY <2>1, <1>3a DEF Authority
<1> QED BY <1>10, <1>14, <1>15, <1>16

LEMMA RegisterPermissionIInv ==
    ASSUME NEW c \in Codes, IInv, RegisterPermission(c)
    PROVE  IInv'
<1> USE DEF IInv, RegisterPermission, locals, history, byHand
<1>1. TypeOK' /\ Counted'
  BY DEF TypeOK, Counted
<1>2. LocalsRead'
  BY DEF LocalsRead
<1>3. RolesOfTenants' /\ SlugNamesOneRole'
  BY DEF RolesOfTenants, SlugNamesOneRole
<1>4. RolesStayInTenant' /\ FoundRole'
  BY DEF RolesStayInTenant, FoundRole
<1>5. OwnRole' /\ UnfinishedRole'
  BY DEF OwnRole, IsCreator, UnfinishedRole
<1>6. Authority' /\ AnsweredCreateIsSettled'
  BY DEF Authority, Managing, AnsweredCreateIsSettled
<1> QED BY <1>1, <1>2, <1>3, <1>4, <1>5, <1>6

LEMMA DeletePermissionIInv ==
    ASSUME NEW c \in Codes, IInv, DeletePermission(c)
    PROVE  IInv'
<1> USE DEF IInv
<1>1. /\ DOMAIN role' = DOMAIN role
      /\ role' = [r \in DOMAIN role |-> role'[r]]
      /\ \A r \in DOMAIN role :
           /\ role'[r] \in RoleRow
           /\ role'[r].tenant = role[r].tenant
           /\ role'[r].slug = role[r].slug
           /\ role'[r].is_default = role[r].is_default
           /\ role'[r].permissions = role[r].permissions \ {c}
  BY DEF DeletePermission, TypeOK, RoleRow
<1>2. /\ UNCHANGED <<tenants, spent, membership, account, managers>>
      /\ UNCHANGED <<pc, call, target, slug, codes, row, doomed, reply>>
      /\ UNCHANGED <<edits, edited, placed>>
      /\ registry' = registry \ {c} /\ dropped' = dropped \union {c}
  BY DEF DeletePermission, locals, byHand
<1>3. TypeOK' /\ Counted'
  BY <1>1, <1>2 DEF TypeOK, Counted
<1>4. LocalsRead'
  BY <1>2 DEF LocalsRead
<1>5. RolesOfTenants' /\ SlugNamesOneRole'
  BY <1>1, <1>2 DEF RolesOfTenants, SlugNamesOneRole
<1>6. RolesStayInTenant'
  BY <1>1, <1>2 DEF RolesStayInTenant
<1>7. FoundRole'
  BY <1>1, <1>2 DEF FoundRole
<1>8. OwnRole'
  BY <1>1, <1>2 DEF OwnRole, IsCreator
<1>9. UnfinishedRole'
  BY <1>1, <1>2 DEF UnfinishedRole
<1>10. Authority'
  BY <1>1, <1>2 DEF Authority, Managing, RolesStayInTenant
<1>11. AnsweredCreateIsSettled'
  BY <1>1, <1>2 DEF AnsweredCreateIsSettled
<1> QED BY <1>3, <1>4, <1>5, <1>6, <1>7, <1>8, <1>9, <1>10, <1>11

LEMMA EraseIInv ==
    ASSUME NEW u \in Users, NEW state \in {"anonymized", "deleted"},
           IInv, Erase(u, state)
    PROVE  IInv'
<1> USE DEF IInv
<1>1. /\ UNCHANGED <<tenants, role, spent, registry, managers, dropped>>
      /\ UNCHANGED <<edits, edited, placed>>
      /\ UNCHANGED <<pc, call, target, slug, codes, row, reply>>
      /\ account' = [account EXCEPT ![u] = state]
      /\ \A p \in Pairs : membership'[p] # Nobody =>
            membership'[p] = membership[p] /\ p[1] # u
      /\ \A q \in Requests : doomed'[q] \subseteq doomed[q]
  BY DEF Erase, DeleteMemberships, history, byHand, Pairs
<1>2. TypeOK' /\ Counted'
  <2>1. membership' \in [Pairs -> RoleIds \union {Nobody}]
        /\ doomed' \in [Requests -> SUBSET Pairs]
    BY DEF Erase, DeleteMemberships, TypeOK
  <2> QED BY <1>1, <2>1 DEF TypeOK, Counted
<1>3. LocalsRead'
  BY <1>1 DEF LocalsRead
<1>4. RolesOfTenants' /\ SlugNamesOneRole'
  BY <1>1 DEF RolesOfTenants, SlugNamesOneRole
<1>5. RolesStayInTenant'
  BY <1>1 DEF RolesStayInTenant, TypeOK, Pairs
<1>6. FoundRole' /\ OwnRole'
  BY <1>1 DEF FoundRole, OwnRole, IsCreator
<1>7. UnfinishedRole'
  BY <1>1 DEF UnfinishedRole
<1>8. Authority'
  BY <1>1 DEF Authority, Managing
<1>9. AnsweredCreateIsSettled'
  BY <1>1 DEF AnsweredCreateIsSettled
<1> QED BY <1>2, <1>3, <1>4, <1>5, <1>6, <1>7, <1>8, <1>9

\* What a request that closes does to the locals.
LEMMA CloseLocals ==
    ASSUME IInv, NEW q \in Requests, NEW r \in Replies, r # "none", Close(q, r),
           UNCHANGED <<tenants, role, spent, registry, account, dropped, edits, edited, placed>>,
           \A o \in Requests : doomed'[o] \subseteq doomed[o],
           managers \subseteq managers', Managing' \subseteq managers'
    PROVE  /\ pc' \in [Requests -> Steps] /\ reply' \in [Requests -> Replies]
           /\ call' \in [Requests -> Call \union {Nobody}]
           /\ target' \in [Requests -> Users \union {Nobody}]
           /\ slug' \in [Requests -> Slugs \union {Nobody}]
           /\ codes' \in [Requests -> SUBSET Codes]
           /\ row' \in [Requests -> spent' \union {Nobody}]
           /\ LocalsRead' /\ FoundRole' /\ OwnRole' /\ UnfinishedRole'
           /\ Authority' /\ AnsweredCreateIsSettled'
           /\ RolesOfTenants' /\ SlugNamesOneRole' /\ Counted'
<1> USE DEF IInv, Close, Answer
<1>1. /\ pc' \in [Requests -> Steps] /\ reply' \in [Requests -> Replies]
      /\ call' \in [Requests -> Call \union {Nobody}]
      /\ target' \in [Requests -> Users \union {Nobody}]
      /\ slug' \in [Requests -> Slugs \union {Nobody}]
      /\ codes' \in [Requests -> SUBSET Codes]
      /\ row' \in [Requests -> spent' \union {Nobody}]
  BY DEF TypeOK, Steps
<1>2. LocalsRead'
  BY DEF LocalsRead, TypeOK
<1>3. FoundRole'
  BY DEF FoundRole, TypeOK
<1>4. OwnRole'
  BY DEF OwnRole, IsCreator, TypeOK
<1>5. UnfinishedRole'
  BY DEF UnfinishedRole, TypeOK
<1>6. Authority'
  BY DEF Authority, TypeOK
<1>7. AnsweredCreateIsSettled'
  BY DEF AnsweredCreateIsSettled, TypeOK
<1>8. RolesOfTenants' /\ SlugNamesOneRole' /\ Counted'
  BY DEF RolesOfTenants, SlugNamesOneRole, Counted
<1> HIDE DEF IInv, Close, Answer
<1> QED BY <1>1, <1>2, <1>3, <1>4, <1>5, <1>6, <1>7, <1>8

LEMMA AssignCommitIInv ==
    ASSUME NEW q \in Requests, IInv, AssignCommit(q)
    PROVE  IInv'
<1> DEFINE pair == <<target[q], call[q].tenant>>
<1>1. pair \in Pairs /\ target[q] \in Users /\ pc[q] = "upsert"
  BY DEF AssignCommit, IInv, LocalsRead, TypeOK, Call, Pairs
<1>2. /\ UNCHANGED <<tenants, role, spent, registry, account, dropped, edits, edited, placed>>
      /\ UNCHANGED doomed
      /\ managers' = managers \union Managing'
      /\ Close(q, "ok") \/ Close(q, "integrity")
  BY DEF AssignCommit, byHand
<1>3. \/ UNCHANGED membership
      \/ /\ row[q] \in DOMAIN role
         /\ account[target[q]] # "deleted"
         /\ role[row[q]].tenant = call[q].tenant \/ row[q] \in edited
         /\ membership' = [membership EXCEPT ![pair] = row[q]]
  BY <1>1 DEF AssignCommit, AssignKeysValid, IInv, FoundRole
<1>4. /\ pc' \in [Requests -> Steps] /\ reply' \in [Requests -> Replies]
      /\ call' \in [Requests -> Call \union {Nobody}]
      /\ target' \in [Requests -> Users \union {Nobody}]
      /\ slug' \in [Requests -> Slugs \union {Nobody}]
      /\ codes' \in [Requests -> SUBSET Codes]
      /\ row' \in [Requests -> spent' \union {Nobody}]
      /\ LocalsRead' /\ FoundRole' /\ OwnRole' /\ UnfinishedRole'
      /\ Authority' /\ AnsweredCreateIsSettled'
      /\ RolesOfTenants' /\ SlugNamesOneRole' /\ Counted'
  <2>1. "ok" \in Replies /\ "integrity" \in Replies
    BY DEF Replies
  <2> QED BY <1>2, <2>1, CloseLocals
<1>5. TypeOK'
  <2>1. membership' \in [Pairs -> RoleIds \union {Nobody}]
    BY <1>1, <1>3 DEF IInv, TypeOK
  <2>2. managers' \subseteq Pairs
    BY <1>2 DEF IInv, TypeOK, Managing
  <2> QED BY <1>2, <1>4, <2>1, <2>2 DEF IInv, TypeOK
<1>6. RolesStayInTenant'
  <2> SUFFICES ASSUME NEW p \in Pairs, membership'[p] # Nobody
               PROVE  /\ membership'[p] \in DOMAIN role
                      /\ account[p[1]] # "deleted"
                      /\ \/ role[membership'[p]].tenant = p[2]
                         \/ p \in placed \/ membership'[p] \in edited
    BY <1>2 DEF RolesStayInTenant
  <2>1. CASE membership'[p] = membership[p]
    BY <2>1 DEF IInv, RolesStayInTenant
  <2>2. CASE membership'[p] # membership[p]
    <3>1. p = pair /\ membership'[p] = row[q]
      BY <1>1, <1>3, <2>2 DEF IInv, TypeOK
    <3> QED BY <3>1, <1>3, <2>2
  <2> QED BY <2>1, <2>2
<1> QED BY <1>4, <1>5, <1>6 DEF IInv

LEMMA RevokeIInv ==
    ASSUME NEW q \in Requests, IInv, Revoke(q)
    PROVE  IInv'
<1>1. /\ UNCHANGED <<tenants, role, spent, registry, account, dropped, edits, edited, placed>>
      /\ managers' = managers
      /\ Close(q, "ok") \/ Close(q, "broker")
      /\ \A p \in Pairs : membership'[p] # Nobody => membership'[p] = membership[p]
      /\ \A o \in Requests : doomed'[o] \subseteq doomed[o]
  BY DEF Revoke, DeleteMemberships, history, byHand
<1>2. Managing' \subseteq managers
  BY <1>1 DEF IInv, Authority, Managing
<1>3. /\ pc' \in [Requests -> Steps] /\ reply' \in [Requests -> Replies]
      /\ call' \in [Requests -> Call \union {Nobody}]
      /\ target' \in [Requests -> Users \union {Nobody}]
      /\ slug' \in [Requests -> Slugs \union {Nobody}]
      /\ codes' \in [Requests -> SUBSET Codes]
      /\ row' \in [Requests -> spent' \union {Nobody}]
      /\ LocalsRead' /\ FoundRole' /\ OwnRole' /\ UnfinishedRole'
      /\ Authority' /\ AnsweredCreateIsSettled'
      /\ RolesOfTenants' /\ SlugNamesOneRole' /\ Counted'
  <2>1. "ok" \in Replies /\ "broker" \in Replies
    BY DEF Replies
  <2> QED BY <1>1, <1>2, <2>1, CloseLocals
<1>4. TypeOK'
  <2>1. membership' \in [Pairs -> RoleIds \union {Nobody}]
        /\ doomed' \in [Requests -> SUBSET Pairs]
    BY DEF Revoke, DeleteMemberships, IInv, TypeOK
  <2> QED BY <1>1, <1>3, <2>1 DEF IInv, TypeOK
<1>5. RolesStayInTenant'
  BY <1>1 DEF IInv, RolesStayInTenant
<1> QED BY <1>3, <1>4, <1>5 DEF IInv

LEMMA InsertRoleIInv ==
    ASSUME NEW q \in Requests, IInv, InsertRole(q)
    PROVE  IInv'
<1> USE DEF IInv
<1>1. /\ UNCHANGED <<tenants, registry, account, membership, managers, dropped>>
      /\ UNCHANGED <<edits, edited, placed>>
      /\ UNCHANGED <<call, target, slug, codes, doomed>>
      /\ pc[q] = "insert" /\ call[q] \in Call /\ call[q].op = "create"
      /\ slug[q] \in Slugs /\ row[q] = Nobody /\ reply[q] = "none"
  BY DEF InsertRole, LocalsRead, TypeOK, history, byHand
<1>2. CASE RolesNamed(call[q].tenant, slug[q]) # {}
  <2>1. /\ UNCHANGED <<role, spent, row>>
        /\ pc' = [pc EXCEPT ![q] = "done"]
        /\ reply' = [reply EXCEPT ![q] = "integrity"]
    BY <1>2 DEF InsertRole, Answer, Close
  <2>2. TypeOK' /\ LocalsRead'
    BY <1>1, <2>1 DEF TypeOK, LocalsRead, Steps, Replies
  <2>3. RolesOfTenants' /\ SlugNamesOneRole' /\ RolesStayInTenant' /\ Counted'
    BY <1>1, <2>1 DEF RolesOfTenants, SlugNamesOneRole, RolesStayInTenant, Counted
  <2>4. FoundRole' /\ OwnRole' /\ UnfinishedRole'
    BY <1>1, <2>1 DEF FoundRole, OwnRole, IsCreator, UnfinishedRole, TypeOK
  <2>5. Authority' /\ AnsweredCreateIsSettled'
    BY <1>1, <2>1 DEF Authority, Managing, AnsweredCreateIsSettled, TypeOK
  <2> QED BY <2>2, <2>3, <2>4, <2>5
<1>3. CASE RolesNamed(call[q].tenant, slug[q]) = {}
  <2>1. PICK id \in Unspent :
          /\ AddRoles([r \in {id} |-> CustomRow(q)])
          /\ row' = [row EXCEPT ![q] = id]
    BY <1>3 DEF InsertRole
  <2>2. id \in RoleIds /\ id \notin spent \union edited /\ id \notin DOMAIN role /\ id # Nobody
    BY DEF Unspent, TypeOK
  <2>3. /\ DOMAIN role' = DOMAIN role \union {id}
        /\ role' = [r \in DOMAIN role' |-> role'[r]]
        /\ \A r \in DOMAIN role : role'[r] = role[r]
        /\ role'[id] = CustomRow(q)
        /\ spent' = spent \union {id}
    BY <2>1, <2>2 DEF AddRoles
  <2>4. \/ /\ pc' = [pc EXCEPT ![q] = "done"]
           /\ \/ reply' = [reply EXCEPT ![q] = "broker"]
              \/ codes[q] = {} /\ reply' = [reply EXCEPT ![q] = "ok"]
        \/ pc' = [pc EXCEPT ![q] = "lookup"] /\ reply' = reply
    BY <1>3 DEF InsertRole, Answer, Close, Goto
  <2>5. /\ CustomRow(q) \in RoleRow
        /\ CustomRow(q).tenant = call[q].tenant /\ CustomRow(q).slug = slug[q]
        /\ CustomRow(q).is_default = FALSE /\ CustomRow(q).permissions = {}
    BY <1>1 DEF CustomRow, RoleRow, Call
  <2>6. call[q].tenant \in tenants
    BY <1>1 DEF Authority
  <2>8. TypeOK'
    <3>1. role' \in [DOMAIN role' -> RoleRow]
      BY <2>3, <2>5 DEF TypeOK
    <3>2. row' \in [Requests -> spent' \union {Nobody}]
      BY <2>1, <2>3 DEF TypeOK
    <3>3. pc' \in [Requests -> Steps] /\ reply' \in [Requests -> Replies]
      BY <2>4 DEF TypeOK, Steps, Replies
    <3>4. spent' \subseteq RoleIds /\ DOMAIN role' \subseteq spent'
      BY <2>2, <2>3 DEF TypeOK
    <3>5. edited' \subseteq spent'
      BY <1>1, <2>3 DEF TypeOK
    <3> QED BY <1>1, <3>1, <3>2, <3>3, <3>4, <3>5 DEF TypeOK
  <2>9. LocalsRead'
    BY <1>1, <2>1, <2>4 DEF LocalsRead, TypeOK
  <2>10. RolesOfTenants'
    BY <1>1, <2>3, <2>5, <2>6 DEF RolesOfTenants
  <2>11. SlugNamesOneRole'
    BY <1>3, <2>3, <2>5 DEF SlugNamesOneRole, RolesNamed
  <2>12. Counted'
    BY <1>1 DEF Counted
  <2>13. RolesStayInTenant'
    BY <1>1, <2>3 DEF RolesStayInTenant
  <2>14. \A o \in Requests : o # q => row'[o] = row[o] /\ row[o] # id
    BY <2>1, <2>2 DEF TypeOK
  <2>15. row'[q] = id
    BY <2>1 DEF TypeOK
  <2>16. FoundRole'
    BY <1>1, <2>3, <2>4, <2>14 DEF FoundRole, TypeOK
  <2>17. OwnRole'
    <3> SUFFICES ASSUME NEW o \in Requests, IsCreator(o)'
                 PROVE  /\ row'[o] \in spent'
                        /\ row'[o] \in DOMAIN role' \ edited =>
                             /\ role'[row'[o]].tenant = call[o].tenant
                             /\ role'[row'[o]].slug = slug[o]
                             /\ ~ role'[row'[o]].is_default
                        /\ \A n \in Requests :
                             (IsCreator(n)' /\ row'[n] = row'[o]) => n = o
      BY <1>1 DEF OwnRole
    <3>1. CASE o = q
      BY <3>1, <2>3, <2>5, <2>14, <2>15
    <3>2. CASE o # q
      <4>1. IsCreator(o) /\ row'[o] = row[o] /\ row[o] # id
        BY <3>2, <1>1, <2>4, <2>14 DEF IsCreator, TypeOK
      <4>2. \A n \in Requests : (n # q /\ IsCreator(n)') => IsCreator(n)
        BY <1>1, <2>4, <2>14 DEF IsCreator, TypeOK
      <4> QED BY <4>1, <4>2, <2>3, <2>14, <2>15 DEF OwnRole
    <3> QED BY <3>1, <3>2
  <2>18. UnfinishedRole'
    BY <1>1, <2>3, <2>4, <2>14, <2>15 DEF UnfinishedRole, TypeOK
  <2>19. Authority'
    <3>1. Managing' = Managing
      BY <1>1, <2>3 DEF Managing, RolesStayInTenant
    <3> QED BY <3>1, <1>1, <2>3, <2>4 DEF Authority, TypeOK
  <2>20. AnsweredCreateIsSettled'
    <3> SUFFICES ASSUME NEW o \in Requests, call[o] # Nobody, call[o].op = "create",
                        row'[o] \notin edited, slug[o] \notin DefaultSlugs
                 PROVE  /\ reply'[o] = "ok" =>
                             /\ row'[o] \in DOMAIN role'
                             /\ codes[o] \ dropped \subseteq role'[row'[o]].permissions
                             /\ role'[row'[o]].permissions \subseteq codes[o]
                        /\ reply'[o] = "invalid" => row'[o] \notin DOMAIN role'
      BY <1>1 DEF AnsweredCreateIsSettled
    <3>1. CASE o = q
      BY <3>1, <1>1, <2>3, <2>4, <2>5, <2>15 DEF TypeOK
    <3>2. CASE o # q
      BY <3>2, <2>3, <2>4, <2>14 DEF AnsweredCreateIsSettled, TypeOK
    <3> QED BY <3>1, <3>2
  <2> QED BY <2>8, <2>9, <2>10, <2>11, <2>12, <2>13, <2>16, <2>17, <2>18, <2>19, <2>20
<1> QED BY <1>2, <1>3

LEMMA GrantCodesIInv ==
    ASSUME NEW q \in Requests, IInv, GrantCodes(q)
    PROVE  IInv'
<1> USE DEF IInv
<1>1. /\ UNCHANGED <<tenants, spent, registry, account, membership, managers, dropped>>
      /\ UNCHANGED <<edits, edited, placed>>
      /\ UNCHANGED <<call, target, slug, codes, row, doomed>>
      /\ pc[q] = "grant" /\ call[q] \in Call /\ call[q].op = "create" /\ reply[q] = "none"
      /\ row[q] \in spent /\ (row[q] \notin edited => row[q] \in DOMAIN role)
      /\ pc' = [pc EXCEPT ![q] = "done"]
      /\ codes[q] \ dropped \subseteq registry
  BY DEF GrantCodes, Answer, LocalsRead, UnfinishedRole, history, byHand
<1>2. \/ /\ row[q] \in DOMAIN role
         /\ role' = [role EXCEPT ![row[q]].permissions = codes[q] \cap registry]
         /\ reply' = [reply EXCEPT ![q] = "ok"]
      \/ /\ row[q] \notin DOMAIN role
         /\ role' = role
         /\ reply' = [reply EXCEPT ![q] = "ok"]
      \/ role' = role /\ reply' = [reply EXCEPT ![q] = "integrity"]
  BY DEF GrantCodes, Answer
<1>3. /\ DOMAIN role' = DOMAIN role
      /\ role' \in [DOMAIN role -> RoleRow]
      /\ \A r \in DOMAIN role :
           /\ role'[r].tenant = role[r].tenant
           /\ role'[r].slug = role[r].slug
           /\ role'[r].is_default = role[r].is_default
           /\ r # row[q] => role'[r] = role[r]
  <2>1. CASE role' = role
    BY <2>1 DEF TypeOK
  <2>2. CASE /\ row[q] \in DOMAIN role
             /\ role' = [role EXCEPT ![row[q]].permissions = codes[q] \cap registry]
    <3>1. PICK new : new = [role[row[q]] EXCEPT !.permissions = codes[q] \cap registry]
      OBVIOUS
    <3>2. role' = [role EXCEPT ![row[q]] = new]
      BY <2>2, <3>1
    <3>3. role[row[q]] \in RoleRow /\ codes[q] \cap registry \in SUBSET Codes
      BY <2>2 DEF TypeOK
    <3>4. /\ new \in RoleRow /\ new.tenant = role[row[q]].tenant
          /\ new.slug = role[row[q]].slug /\ new.is_default = role[row[q]].is_default
      BY <3>1, <3>3 DEF RoleRow
    <3>5. role \in [DOMAIN role -> RoleRow]
      BY DEF TypeOK
    <3> QED BY <2>2, <3>2, <3>4, <3>5
  <2> QED BY <1>2, <2>1, <2>2
<1>3b. (row[q] \in DOMAIN role /\ reply'[q] = "ok")
         => role'[row[q]].permissions = codes[q] \cap registry
  BY <1>1, <1>2 DEF TypeOK, RoleRow
<1>3a. /\ reply' = [reply EXCEPT ![q] = reply'[q]] /\ reply'[q] \in {"ok", "integrity"}
  BY <1>2 DEF TypeOK
<1>4. TypeOK' /\ Counted'
  BY <1>1, <1>3, <1>3a DEF TypeOK, Steps, Replies, Counted
<1>5. LocalsRead'
  BY <1>1, <1>3a DEF LocalsRead, TypeOK
<1>6. RolesOfTenants' /\ SlugNamesOneRole'
  BY <1>1, <1>3 DEF RolesOfTenants, SlugNamesOneRole
<1>7. RolesStayInTenant'
  BY <1>1, <1>3 DEF RolesStayInTenant
<1>8. FoundRole'
  BY <1>1, <1>3 DEF FoundRole, TypeOK
<1>9. OwnRole'
  BY <1>1, <1>3 DEF OwnRole, IsCreator, TypeOK
<1>10. UnfinishedRole'
  BY <1>1, <1>3 DEF UnfinishedRole, TypeOK
<1>11. Authority'
  <2>1. Managing' = Managing
    BY <1>1, <1>3 DEF Managing, RolesStayInTenant
  <2> QED BY <2>1, <1>1, <1>3 DEF Authority, TypeOK
<1>12. ASSUME NEW o \in Requests, o # q, call[o] # Nobody, call[o].op = "create",
              row[o] \in DOMAIN role
       PROVE  row[o] # row[q]
  <2>1. IsCreator(o) /\ IsCreator(q)
    BY <1>1, <1>12 DEF IsCreator, TypeOK
  <2> QED BY <2>1, <1>12 DEF OwnRole
<1>13. AnsweredCreateIsSettled'
  <2> SUFFICES ASSUME NEW o \in Requests, call[o] # Nobody, call[o].op = "create",
                      row[o] \notin edited, slug[o] \notin DefaultSlugs
               PROVE  /\ reply'[o] = "ok" =>
                           /\ row[o] \in DOMAIN role'
                           /\ codes[o] \ dropped \subseteq role'[row[o]].permissions
                           /\ role'[row[o]].permissions \subseteq codes[o]
                      /\ reply'[o] = "invalid" => row[o] \notin DOMAIN role'
    BY <1>1 DEF AnsweredCreateIsSettled
  <2>1. CASE o = q
    BY <2>1, <1>1, <1>3, <1>3a, <1>3b
  <2>2. CASE o # q
    BY <2>2, <1>3, <1>3a, <1>12 DEF AnsweredCreateIsSettled, TypeOK
  <2> QED BY <2>1, <2>2
<1> QED BY <1>4, <1>5, <1>6, <1>7, <1>8, <1>9, <1>10, <1>11, <1>13

LEMMA DeleteRoleIInv ==
    ASSUME NEW q \in Requests, IInv, DeleteRole(q)
    PROVE  IInv'
<1> USE DEF IInv
<1>1. /\ UNCHANGED <<tenants, spent, registry, account, managers, dropped>>
      /\ UNCHANGED <<edits, edited, placed>>
      /\ UNCHANGED <<call, target, slug, codes, row>>
      /\ pc[q] = "delete" /\ call[q] \in Call /\ call[q].op = "create" /\ reply[q] = "none"
      /\ pc' = [pc EXCEPT ![q] = "done"]
  BY DEF DeleteRole, Answer, LocalsRead, history, byHand
<1>2. IsCreator(q) /\ row[q] \in spent
  BY <1>1 DEF IsCreator, UnfinishedRole, TypeOK
<1>4. CASE /\ UNCHANGED <<membership, doomed, role>>
           /\ reply'[q] \in {"integrity", "broker"}
           /\ reply' = [reply EXCEPT ![q] = reply'[q]]
  <2>1. TypeOK' /\ LocalsRead'
    BY <1>1, <1>4 DEF TypeOK, LocalsRead, Steps, Replies
  <2>2. RolesOfTenants' /\ SlugNamesOneRole' /\ RolesStayInTenant' /\ Counted'
    BY <1>1, <1>4 DEF RolesOfTenants, SlugNamesOneRole, RolesStayInTenant, Counted
  <2>3. FoundRole' /\ OwnRole' /\ UnfinishedRole'
    BY <1>1, <1>4 DEF FoundRole, OwnRole, IsCreator, UnfinishedRole, TypeOK
  <2>4. Authority' /\ AnsweredCreateIsSettled'
    BY <1>1, <1>4 DEF Authority, Managing, AnsweredCreateIsSettled, TypeOK
  <2> QED BY <2>1, <2>2, <2>3, <2>4
<1>5. CASE /\ {p \in Pairs : membership[p] = row[q]} \subseteq doomed[q]
           /\ DeleteMemberships(doomed[q])
           /\ role' = Restrict(role, DOMAIN role \ {row[q]})
           /\ reply' = [reply EXCEPT ![q] = "invalid"]
  <2>1. /\ DOMAIN role' = DOMAIN role \ {row[q]}
        /\ role' = [r \in DOMAIN role' |-> role'[r]]
        /\ \A r \in DOMAIN role' : role'[r] = role[r]
    BY <1>5 DEF Restrict
  <2>2. /\ \A p \in Pairs : membership'[p] # Nobody =>
              membership'[p] = membership[p] /\ membership[p] # row[q]
        /\ \A o \in Requests : doomed'[o] \subseteq doomed[o]
    BY <1>5 DEF DeleteMemberships
  <2>3. TypeOK' /\ Counted'
    <3>1. membership' \in [Pairs -> RoleIds \union {Nobody}]
          /\ doomed' \in [Requests -> SUBSET Pairs]
      BY <1>5 DEF DeleteMemberships, TypeOK
    <3>2. role' \in [DOMAIN role' -> RoleRow]
      BY <2>1 DEF TypeOK
    <3> QED BY <1>1, <1>5, <2>1, <3>1, <3>2 DEF TypeOK, Steps, Replies, Counted
  <2>4. LocalsRead'
    BY <1>1, <1>5 DEF LocalsRead, TypeOK
  <2>5. RolesOfTenants' /\ SlugNamesOneRole'
    BY <1>1, <2>1 DEF RolesOfTenants, SlugNamesOneRole
  <2>7. RolesStayInTenant'
    BY <1>1, <2>1, <2>2 DEF RolesStayInTenant
  <2>8. FoundRole'
    BY <1>1, <2>1 DEF FoundRole, TypeOK
  <2>9. OwnRole'
    BY <1>1, <2>1 DEF OwnRole, IsCreator, TypeOK
  <2>10. \A o \in Requests : (o # q /\ IsCreator(o)) => row[o] # row[q]
    BY <1>2 DEF OwnRole
  <2>11. UnfinishedRole'
    <3>1. ASSUME NEW o \in Requests, o # q, pc[o] \in {"lookup", "grant", "collect", "delete"}
          PROVE  row[o] \in spent /\ (row[o] \notin edited => row[o] \in DOMAIN role')
      <4>1. row[o] \in spent /\ call[o] \in Call /\ call[o].op = "create"
        BY <3>1 DEF UnfinishedRole, LocalsRead
      <4>2. IsCreator(o)
        BY <4>1 DEF IsCreator, TypeOK
      <4> QED BY <3>1, <4>1, <4>2, <2>1, <2>10 DEF UnfinishedRole
    <3> QED BY <1>1, <2>2, <3>1 DEF UnfinishedRole, TypeOK
  <2>12. Authority'
    <3>1. Managing' \subseteq Managing
      BY <2>1, <2>2 DEF Managing, RolesStayInTenant
    <3> QED BY <3>1, <1>1 DEF Authority, TypeOK
  <2>13. AnsweredCreateIsSettled'
    <3> SUFFICES ASSUME NEW o \in Requests, call[o] # Nobody, call[o].op = "create",
                        row[o] \notin edited, slug[o] \notin DefaultSlugs
                 PROVE  /\ reply'[o] = "ok" =>
                             /\ row[o] \in DOMAIN role'
                             /\ codes[o] \ dropped \subseteq role'[row[o]].permissions
                             /\ role'[row[o]].permissions \subseteq codes[o]
                        /\ reply'[o] = "invalid" => row[o] \notin DOMAIN role'
      BY <1>1 DEF AnsweredCreateIsSettled
    <3>1. CASE o = q
      BY <3>1, <1>5, <2>1 DEF TypeOK
    <3>2. CASE o # q
      <4>1. reply'[o] = reply[o]
        BY <3>2, <1>5 DEF TypeOK
      <4>2. reply[o] = "ok" => IsCreator(o)
        BY DEF AnsweredCreateIsSettled, IsCreator, TypeOK
      <4> QED BY <3>2, <4>1, <4>2, <2>1, <2>10 DEF AnsweredCreateIsSettled
    <3> QED BY <3>1, <3>2
  <2> QED BY <2>3, <2>4, <2>5, <2>7, <2>8, <2>9, <2>11, <2>12, <2>13
<1> QED BY <1>4, <1>5 DEF DeleteRole, Answer, TypeOK

\* What the requests keep when a form has changed the role r at most: their own
\* roles and those they found count as edited from then on.
LEMMA EditKeepsRequests ==
    ASSUME IInv, NEW hit \in SUBSET RoleIds, edited' = edited \union hit,
           placed \subseteq placed', edits' = edits + 1,
           UNCHANGED <<tenants, registry, account, dropped>>,
           UNCHANGED <<pc, call, target, slug, codes, row, reply>>,
           spent \subseteq spent', managers \subseteq managers', Managing' \subseteq managers',
           \A r \in (DOMAIN role \union DOMAIN role') \ hit :
               r \in DOMAIN role /\ r \in DOMAIN role' /\ role'[r] = role[r],
           \A q \in Requests : doomed'[q] \ placed' \subseteq doomed[q] \ placed
    PROVE  /\ Counted' /\ LocalsRead' /\ FoundRole' /\ OwnRole' /\ UnfinishedRole'
           /\ Authority' /\ AnsweredCreateIsSettled'
<1> USE DEF IInv
<1>1. Counted'
  BY DEF Counted, TypeOK
<1>2. LocalsRead'
  BY DEF LocalsRead
<1>3. FoundRole'
  BY DEF FoundRole
<1>4. OwnRole'
  BY DEF OwnRole, IsCreator
<1>5. UnfinishedRole'
  BY DEF UnfinishedRole
<1>6. Authority'
  BY DEF Authority
<1>7. AnsweredCreateIsSettled'
  <2> SUFFICES ASSUME NEW q \in Requests, call[q] # Nobody, call[q].op = "create",
                      row[q] \notin edited', slug[q] \notin DefaultSlugs
               PROVE  /\ reply[q] = "ok" =>
                           /\ row[q] \in DOMAIN role'
                           /\ codes[q] \ dropped \subseteq role'[row[q]].permissions
                           /\ role'[row[q]].permissions \subseteq codes[q]
                      /\ reply[q] = "invalid" => row[q] \notin DOMAIN role'
    BY DEF AnsweredCreateIsSettled
  <2>1. row[q] \notin edited /\ row[q] \notin hit
    OBVIOUS
  <2> QED BY <2>1 DEF AnsweredCreateIsSettled
<1> HIDE DEF IInv
<1> QED BY <1>1, <1>2, <1>3, <1>4, <1>5, <1>6, <1>7

LEMMA SaveRoleIInv ==
    ASSUME IInv, edits < MaxEdits, NEW r \in RoleIds, NEW new \in RoleRow, SaveRole(r, new)
    PROVE  IInv'
<1> USE DEF IInv
<1>1. /\ edits' = edits + 1 /\ edited' = edited \union {r} /\ placed' = placed
      /\ UNCHANGED <<tenants, membership, registry, account, dropped>>
      /\ UNCHANGED <<pc, call, target, slug, codes, row, doomed, reply>>
      /\ managers' = managers \union Managing'
      /\ new.tenant \in tenants /\ RolesNamed(new.tenant, new.slug) \subseteq {r}
  BY DEF SaveRole, SavedByHand, locals
<1>2. /\ DOMAIN role' = DOMAIN role \union {r}
      /\ role' = [k \in DOMAIN role' |-> role'[k]]
      /\ role'[r] = new
      /\ \A k \in DOMAIN role \ {r} : role'[k] = role[k]
      /\ spent' = spent \union {r}
  BY DEF SaveRole, AddRoles
<1>3. /\ Counted' /\ LocalsRead' /\ FoundRole' /\ OwnRole' /\ UnfinishedRole'
      /\ Authority' /\ AnsweredCreateIsSettled'
  <2>1. PICK hit \in SUBSET RoleIds : hit = {r}
    OBVIOUS
  <2>2. \A k \in (DOMAIN role \union DOMAIN role') \ hit :
           k \in DOMAIN role /\ k \in DOMAIN role' /\ role'[k] = role[k]
    BY <1>2, <2>1
  <2>3. spent \subseteq spent' /\ managers \subseteq managers' /\ Managing' \subseteq managers'
        /\ edited' = edited \union hit
        /\ \A q \in Requests : doomed'[q] \ placed' \subseteq doomed[q] \ placed
    BY <1>1, <1>2, <2>1
  <2> HIDE DEF IInv
  <2> QED BY <1>1, <2>2, <2>3, EditKeepsRequests
<1>4. TypeOK'
  <2>1. role' \in [DOMAIN role' -> RoleRow]
    BY <1>2 DEF TypeOK
  <2>2. spent' \subseteq RoleIds /\ DOMAIN role' \subseteq spent' /\ edited' \subseteq spent'
        /\ row' \in [Requests -> spent' \union {Nobody}]
    BY <1>1, <1>2 DEF TypeOK
  <2>3. managers' \subseteq Pairs /\ edits' \in 0 .. MaxEdits
    BY <1>1 DEF TypeOK, Managing
  <2> QED BY <1>1, <2>1, <2>2, <2>3 DEF TypeOK
<1>5. RolesOfTenants'
  BY <1>1, <1>2 DEF RolesOfTenants
<1>6. SlugNamesOneRole'
  <2>1. \A k \in DOMAIN role \ {r} : ~ (role[k].tenant = new.tenant /\ role[k].slug = new.slug)
    BY <1>1 DEF RolesNamed
  <2> QED BY <2>1, <1>2 DEF SlugNamesOneRole
<1>7. RolesStayInTenant'
  BY <1>1, <1>2 DEF RolesStayInTenant
<1> QED BY <1>3, <1>4, <1>5, <1>6, <1>7

LEMMA RemoveRoleIInv ==
    ASSUME IInv, edits < MaxEdits, NEW r \in RoleIds, RemoveRole(r)
    PROVE  IInv'
<1> USE DEF IInv
<1>1. /\ edits' = edits + 1 /\ edited' = edited \union {r} /\ placed' = placed
      /\ UNCHANGED <<tenants, spent, registry, account, managers, dropped>>
      /\ UNCHANGED <<pc, call, target, slug, codes, row, reply>>
      /\ r \in DOMAIN role
  BY DEF RemoveRole, SavedByHand
<1>2. /\ DOMAIN role' = DOMAIN role \ {r}
      /\ role' = [k \in DOMAIN role' |-> role'[k]]
      /\ \A k \in DOMAIN role' : role'[k] = role[k]
  BY DEF RemoveRole, Restrict
<1>3. /\ \A p \in Pairs : membership'[p] # Nobody =>
            membership'[p] = membership[p] /\ membership[p] # r
      /\ \A q \in Requests : doomed'[q] \subseteq doomed[q]
  BY DEF RemoveRole, DeleteMemberships
<1>4. /\ Counted' /\ LocalsRead' /\ FoundRole' /\ OwnRole' /\ UnfinishedRole'
      /\ Authority' /\ AnsweredCreateIsSettled'
  <2>1. PICK hit \in SUBSET RoleIds : hit = {r}
    OBVIOUS
  <2>2. \A k \in (DOMAIN role \union DOMAIN role') \ hit :
           k \in DOMAIN role /\ k \in DOMAIN role' /\ role'[k] = role[k]
    BY <1>2, <2>1
  <2>3. Managing' \subseteq managers
    BY <1>2, <1>3 DEF Authority, Managing, RolesStayInTenant
  <2>4. edited' = edited \union hit /\ managers \subseteq managers'
        /\ \A q \in Requests : doomed'[q] \ placed' \subseteq doomed[q] \ placed
    BY <1>1, <1>3, <2>1
  <2> HIDE DEF IInv
  <2> QED BY <1>1, <2>2, <2>3, <2>4, EditKeepsRequests
<1>5. TypeOK'
  <2>1. role' \in [DOMAIN role' -> RoleRow]
    BY <1>2 DEF TypeOK
  <2>2. DOMAIN role' \subseteq spent' /\ edited' \subseteq spent' /\ edits' \in 0 .. MaxEdits
    BY <1>1, <1>2 DEF TypeOK
  <2>3. membership' \in [Pairs -> RoleIds \union {Nobody}]
        /\ doomed' \in [Requests -> SUBSET Pairs]
    BY DEF RemoveRole, DeleteMemberships, TypeOK
  <2> QED BY <1>1, <2>1, <2>2, <2>3 DEF TypeOK
<1>6. RolesOfTenants' /\ SlugNamesOneRole'
  BY <1>1, <1>2 DEF RolesOfTenants, SlugNamesOneRole
<1>7. RolesStayInTenant'
  BY <1>1, <1>2, <1>3 DEF RolesStayInTenant
<1> QED BY <1>4, <1>5, <1>6, <1>7

LEMMA SaveMembershipIInv ==
    ASSUME IInv, edits < MaxEdits, NEW from \in Pairs, NEW p \in Pairs, NEW r \in RoleIds,
           SaveMembership(from, p, r)
    PROVE  IInv'
<1> USE DEF IInv
<1>1. /\ edits' = edits + 1 /\ edited' = edited /\ placed' = placed \union {from, p}
      /\ UNCHANGED <<tenants, role, spent, registry, account, dropped>>
      /\ UNCHANGED <<pc, call, target, slug, codes, row, reply>>
      /\ r \in DOMAIN role /\ account[p[1]] # "deleted"
      /\ managers' = managers \union Managing'
  BY DEF SaveMembership, SavedByHand
<1>2. /\ membership' = [membership EXCEPT ![from] = Nobody, ![p] = r]
      /\ \A o \in Pairs \ {from, p} : membership'[o] = membership[o]
      /\ membership'[p] = r
      /\ from # p => membership'[from] = Nobody
  BY DEF SaveMembership, TypeOK
<1>3. \A q \in Requests : /\ doomed'[q] \subseteq Pairs
                          /\ doomed'[q] \ placed' \subseteq doomed[q] \ placed
  BY <1>1 DEF SaveMembership, TypeOK
<1>4. /\ Counted' /\ LocalsRead' /\ FoundRole' /\ OwnRole' /\ UnfinishedRole'
      /\ Authority' /\ AnsweredCreateIsSettled'
  <2>1. PICK hit \in SUBSET RoleIds : hit = {}
    OBVIOUS
  <2>2. \A k \in (DOMAIN role \union DOMAIN role') \ hit :
           k \in DOMAIN role /\ k \in DOMAIN role' /\ role'[k] = role[k]
    BY <1>1
  <2>3. /\ edited' = edited \union hit /\ placed \subseteq placed' /\ spent \subseteq spent'
        /\ managers \subseteq managers' /\ Managing' \subseteq managers'
    BY <1>1, <2>1
  <2> HIDE DEF IInv
  <2> QED BY <1>1, <1>3, <2>2, <2>3, EditKeepsRequests
<1>5. TypeOK'
  <2>1. membership' \in [Pairs -> RoleIds \union {Nobody}]
    BY <1>2 DEF TypeOK
  <2>2. doomed' \in [Requests -> SUBSET Pairs]
    BY <1>3 DEF SaveMembership
  <2>3. managers' \subseteq Pairs /\ placed' \subseteq Pairs /\ edits' \in 0 .. MaxEdits
    BY <1>1 DEF TypeOK, Managing
  <2> QED BY <1>1, <2>1, <2>2, <2>3 DEF TypeOK
<1>6. RolesOfTenants' /\ SlugNamesOneRole'
  BY <1>1 DEF RolesOfTenants, SlugNamesOneRole
<1>7. RolesStayInTenant'
  <2> SUFFICES ASSUME NEW o \in Pairs, membership'[o] # Nobody
               PROVE  /\ membership'[o] \in DOMAIN role
                      /\ account[o[1]] # "deleted"
                      /\ \/ role[membership'[o]].tenant = o[2]
                         \/ o \in placed' \/ membership'[o] \in edited
    BY <1>1 DEF RolesStayInTenant
  <2>1. CASE o \in {from, p}
    BY <2>1, <1>1, <1>2
  <2>2. CASE o \notin {from, p}
    BY <2>2, <1>1, <1>2 DEF RolesStayInTenant
  <2> QED BY <2>1, <2>2
<1> QED BY <1>4, <1>5, <1>6, <1>7

LEMMA RemoveMembershipIInv ==
    ASSUME IInv, edits < MaxEdits, NEW p \in Pairs, RemoveMembership(p)
    PROVE  IInv'
<1> USE DEF IInv
<1>1. /\ edits' = edits + 1 /\ edited' = edited /\ placed' = placed \union {p}
      /\ UNCHANGED <<tenants, role, spent, registry, account, managers, dropped>>
      /\ UNCHANGED <<pc, call, target, slug, codes, row, reply>>
  BY DEF RemoveMembership, SavedByHand
<1>2. /\ \A o \in Pairs : membership'[o] # Nobody => membership'[o] = membership[o]
      /\ \A q \in Requests : doomed'[q] \subseteq doomed[q]
  BY DEF RemoveMembership, DeleteMemberships
<1>3. /\ Counted' /\ LocalsRead' /\ FoundRole' /\ OwnRole' /\ UnfinishedRole'
      /\ Authority' /\ AnsweredCreateIsSettled'
  <2>1. PICK hit \in SUBSET RoleIds : hit = {}
    OBVIOUS
  <2>2. \A k \in (DOMAIN role \union DOMAIN role') \ hit :
           k \in DOMAIN role /\ k \in DOMAIN role' /\ role'[k] = role[k]
    BY <1>1
  <2>3. Managing' \subseteq managers
    BY <1>1, <1>2 DEF Authority, Managing
  <2>4. /\ edited' = edited \union hit /\ placed \subseteq placed'
        /\ \A q \in Requests : doomed'[q] \ placed' \subseteq doomed[q] \ placed
    BY <1>1, <1>2, <2>1
  <2> HIDE DEF IInv
  <2> QED BY <1>1, <2>2, <2>3, <2>4, EditKeepsRequests
<1>4. TypeOK'
  <2>1. membership' \in [Pairs -> RoleIds \union {Nobody}]
        /\ doomed' \in [Requests -> SUBSET Pairs]
    BY DEF RemoveMembership, DeleteMemberships, TypeOK
  <2>2. placed' \subseteq Pairs /\ edits' \in 0 .. MaxEdits
    BY <1>1 DEF TypeOK
  <2> QED BY <1>1, <2>1, <2>2 DEF TypeOK
<1>5. RolesOfTenants' /\ SlugNamesOneRole'
  BY <1>1 DEF RolesOfTenants, SlugNamesOneRole
<1>6. RolesStayInTenant'
  BY <1>1, <1>2 DEF RolesStayInTenant
<1> QED BY <1>3, <1>4, <1>5, <1>6

LEMMA HandleIInv ==
    ASSUME NEW q \in Requests, IInv, Handle(q)
    PROVE  IInv'
<1>1. CASE \E op \in Ops, u \in Users, t \in Tenants : Receive(q, op, u, t)
  BY <1>1, ReceiveIInv
<1>2. CASE Gate(q) \/ ManagerCheck(q)
  BY <1>2, GateIInv, ManagerCheckIInv
<1>3. CASE \E u \in Users : ReadTarget(q, u)
  BY <1>3, ReadTargetIInv
<1>4. CASE \E s \in Slugs, cs \in SUBSET Codes : ExistsCheck(q, s, cs)
  BY <1>4, ExistsCheckIInv
<1>5. CASE \E s \in Slugs : FindRole(q, s)
  BY <1>5, FindRoleIInv
<1>6. CASE AssignCommit(q) \/ AssignRollback(q) \/ Revoke(q)
  BY <1>6, AssignCommitIInv, AssignRollbackIInv, RevokeIInv
<1>7. CASE InsertRole(q) \/ LookupCodes(q) \/ GrantCodes(q)
  BY <1>7, InsertRoleIInv, LookupCodesIInv, GrantCodesIInv
<1>8. CASE CollectRole(q) \/ DeleteRole(q) \/ Crash(q)
  BY <1>8, CollectRoleIInv, DeleteRoleIInv, CrashIInv
<1> QED BY <1>1, <1>2, <1>3, <1>4, <1>5, <1>6, <1>7, <1>8 DEF Handle

LEMMA StutterIInv == ASSUME IInv, UNCHANGED vars PROVE IInv'
<1> USE DEF IInv, vars, locals
<1>1. Quiet
  BY DEF Quiet
<1>2. TypeOK' /\ LocalsRead'
  BY DEF TypeOK, LocalsRead, db, history, byHand
<1>3. FoundRole' /\ OwnRole' /\ UnfinishedRole'
  BY DEF FoundRole, OwnRole, IsCreator, UnfinishedRole, db, history, byHand
<1>4. Authority' /\ AnsweredCreateIsSettled'
  BY DEF Authority, Managing, AnsweredCreateIsSettled, db, history, byHand
<1> QED BY <1>1, <1>2, <1>3, <1>4, QuietTables

\* No step of the system or of a request leaves the inductive invariant.
LEMMA NextIInv == IInv /\ [Next]_vars => IInv'
<1> SUFFICES ASSUME IInv, [Next]_vars PROVE IInv'
  OBVIOUS
<1>1. CASE Surroundings
  BY <1>1, ProvisionIInv, SeedIInv, RegisterPermissionIInv, DeletePermissionIInv,
     EraseIInv DEF Surroundings
<1>2. CASE \E q \in Requests : Handle(q)
  BY <1>2, HandleIInv
<1>3. CASE UNCHANGED vars
  BY <1>3, StutterIInv
<1>4. CASE AdminSite
  BY <1>4, SaveRoleIInv, RemoveRoleIInv, SaveMembershipIInv, RemoveMembershipIInv
     DEF AdminSite
<1> QED BY <1>1, <1>2, <1>3, <1>4 DEF Next

-----------------------------------------------------------------------------
(* Theorems *)

\* The inductive invariant holds in every behaviour of Rbac, for any number of
\* users, tenants, slugs, codes and requests.
THEOREM Invariance == Spec => []IInv
BY InitIInv, NextIInv, PTL DEF Spec

\* The tables and the locals of the requests always hold values of their types.
THEOREM TypeCorrect == Spec => []TypeOK
<1>1. IInv => TypeOK
  BY DEF IInv
<1> QED BY <1>1, Invariance, PTL

\* Roles do not transfer across tenants: a membership points at an existing role of
\* its own tenant, whatever interleaves, unless an administrator placed the
\* membership or edited the role by hand.
THEOREM Isolation == Spec => []RolesStayInTenant
<1>1. IInv => RolesStayInTenant
  BY DEF IInv
<1> QED BY <1>1, Invariance, PTL

\* A slug names at most one role of a tenant.
THEOREM SlugsUnique == Spec => []SlugNamesOneRole
<1>1. IInv => SlugNamesOneRole
  BY DEF IInv
<1> QED BY <1>1, Invariance, PTL

\* What create_role answered describes the role it left behind.
THEOREM CreateSettled == Spec => []AnsweredCreateIsSettled
<1>1. IInv => AnsweredCreateIsSettled
  BY DEF IInv
<1> QED BY <1>1, Invariance, PTL

\* What DefaultRolesStay asks of one step.
KeepsDefaults ==
    \A r \in DOMAIN role \ edited' : role[r].is_default =>
        /\ r \in DOMAIN role'
        /\ role'[r].tenant = role[r].tenant
        /\ role'[r].slug = role[r].slug
        /\ role'[r].is_default

\* Default roles are created under keys that no role has.
LEMMA FreshKeys ==
    ASSUME IInv, NEW lacking \in SUBSET (Tenants \X DefaultSlugs),
           Injection(lacking, Unspent) # {}
    PROVE  DOMAIN DefaultRows(lacking) \cap (DOMAIN role \union edited) = {}
<1>1. DOMAIN DefaultRows(lacking) \subseteq Unspent
  BY DefaultRowsFacts
<1> QED BY <1>1 DEF Unspent, IInv, TypeOK

LEMMA ProvisionKeepsRoles ==
    ASSUME IInv, NEW t \in Tenants, Provision(t)
    PROVE  /\ \A r \in DOMAIN role : r \in DOMAIN role' /\ role'[r] = role[r]
           /\ \A r \in DOMAIN role' \ DOMAIN role : r \notin edited
<1>1. PICK lacking \in SUBSET (Tenants \X DefaultSlugs) : lacking = {t} \X DefaultSlugs
  OBVIOUS
<1>2. DOMAIN DefaultRows(lacking) \cap (DOMAIN role \union edited) = {}
  BY <1>1, FreshKeys DEF Provision
<1> QED BY <1>1, <1>2 DEF Provision, AddRoles

LEMMA SeedKeepsRoles ==
    ASSUME IInv, Seed
    PROVE  /\ \A r \in DOMAIN role : /\ r \in DOMAIN role'
                                     /\ role'[r].tenant = role[r].tenant
                                     /\ role'[r].slug = role[r].slug
                                     /\ role'[r].is_default = role[r].is_default
           /\ \A r \in DOMAIN role' \ DOMAIN role : r \notin edited
<1>1. PICK lacking \in SUBSET (Tenants \X DefaultSlugs) : lacking = Lacking
  BY DEF Lacking
<1>2. DOMAIN DefaultRows(lacking) \cap (DOMAIN role \union edited) = {}
  BY <1>1, FreshKeys DEF Seed
<1>3. PICK rows : rows = DefaultRows(lacking)
  OBVIOUS
<1>4. /\ DOMAIN role' = DOMAIN role \union DOMAIN rows
      /\ \A r \in DOMAIN role :
           role'[r] = IF role[r].tenant \in DemoTenants /\ role[r].slug \in DefaultSlugs
                      THEN [role[r] EXCEPT !.permissions = DemoGrants[role[r].slug]]
                      ELSE role[r]
  BY <1>1, <1>2, <1>3 DEF Seed
<1>5. \A r \in DOMAIN role : role[r] \in RoleRow
  BY DEF IInv, TypeOK
<1> QED BY <1>2, <1>3, <1>4, <1>5 DEF RoleRow

LEMMA NextKeepsDefaults == ASSUME IInv, [Next]_vars PROVE KeepsDefaults
<1>1. CASE UNCHANGED role
  BY <1>1 DEF KeepsDefaults
<1>2. ASSUME NEW t \in Tenants, Provision(t)
      PROVE  KeepsDefaults
  BY <1>2, ProvisionKeepsRoles DEF KeepsDefaults
<1>3. ASSUME NEW c \in Codes, DeletePermission(c)
      PROVE  KeepsDefaults
  BY <1>3 DEF DeletePermission, KeepsDefaults, IInv, TypeOK, RoleRow
<1>4. ASSUME NEW q \in Requests, InsertRole(q)
      PROVE  KeepsDefaults
  <2>1. CASE UNCHANGED role
    BY <2>1 DEF KeepsDefaults
  <2>2. CASE \E id \in Unspent : AddRoles([r \in {id} |-> CustomRow(q)])
    <3>1. PICK id \in Unspent : AddRoles([r \in {id} |-> CustomRow(q)])
      BY <2>2
    <3>2. id \notin DOMAIN role
      BY DEF Unspent, IInv, TypeOK
    <3>3. \A r \in DOMAIN role : r \in DOMAIN role' /\ role'[r] = role[r]
      BY <3>1, <3>2 DEF AddRoles
    <3> QED BY <3>3 DEF KeepsDefaults
  <2> QED BY <1>4, <2>1, <2>2 DEF InsertRole
<1>5. ASSUME NEW q \in Requests, GrantCodes(q)
      PROVE  KeepsDefaults
  BY <1>5 DEF GrantCodes, KeepsDefaults, IInv, TypeOK, RoleRow
<1>6. ASSUME NEW q \in Requests, DeleteRole(q)
      PROVE  KeepsDefaults
  <2>1. edited' = edited /\ IsCreator(q)
    BY <1>6 DEF DeleteRole, IInv, IsCreator, UnfinishedRole, LocalsRead, TypeOK, history, byHand
  <2>1a. row[q] \in DOMAIN role \ edited' => ~ role[row[q]].is_default
    BY <2>1 DEF IInv, OwnRole
  <2>2. role' = role \/ role' = Restrict(role, DOMAIN role \ {row[q]})
    BY <1>6 DEF DeleteRole
  <2> QED BY <2>1a, <2>2 DEF KeepsDefaults, Restrict
<1>7. ASSUME NEW q \in Requests, Handle(q)
      PROVE  KeepsDefaults
  BY <1>1, <1>4, <1>5, <1>6, <1>7 DEF Handle, db, Receive, Gate, ManagerCheck,
     ReadTarget, ExistsCheck, FindRole, AssignCommit, AssignRollback, Revoke,
     LookupCodes, CollectRole, Crash
<1>8. CASE Surroundings
  BY <1>8, <1>1, <1>2, <1>3, SeedKeepsRoles DEF KeepsDefaults, Surroundings,
     RegisterPermission, Erase
<1>8a. ASSUME NEW r \in RoleIds, RemoveRole(r) \/ \E new \in RoleRow : SaveRole(r, new)
       PROVE  KeepsDefaults
  <2>1. r \in edited'
    BY <1>8a DEF RemoveRole, SaveRole, SavedByHand
  <2>2. \A k \in DOMAIN role \ {r} : k \in DOMAIN role' /\ role'[k] = role[k]
    BY <1>8a DEF RemoveRole, SaveRole, AddRoles, Restrict
  <2> QED BY <2>1, <2>2 DEF KeepsDefaults
<1>8b. CASE AdminSite
  BY <1>8b, <1>1, <1>8a DEF AdminSite, SaveMembership, RemoveMembership
<1>9. CASE UNCHANGED vars
  BY <1>9, <1>1 DEF vars, db
<1> QED BY <1>7, <1>8, <1>8b, <1>9 DEF Next

\* No step but a form of the role itself deletes or renames a default role, moves
\* it to another tenant or makes it an ordinary one.
THEOREM DefaultsStay == Spec => DefaultRolesStay
<1>1. IInv /\ [Next]_vars => [KeepsDefaults]_vars
  BY NextKeepsDefaults
<1> QED BY <1>1, Invariance, PTL DEF Spec, DefaultRolesStay, KeepsDefaults

-----------------------------------------------------------------------------
\* What a step changes of memberships and roles is the tenant's of the call of q,
\* unless an administrator placed it elsewhere.
Confined(q) ==
    \/ call[q].op = "create" /\ row[q] \in edited
    \/ /\ \A p \in Pairs \ placed : membership'[p] # membership[p] => p[2] = call[q].tenant
       /\ \A r \in DOMAIN role :
            (r \notin DOMAIN role' \/ role'[r] # role[r]) => role[r].tenant = call[q].tenant
       /\ \A r \in DOMAIN role' \ DOMAIN role : role'[r].tenant = call[q].tenant

\* Whoever calls is a superuser or has been a manager of the tenant.
Entitled(q) ==
    call[q].actor \in Superusers \/ <<call[q].actor, call[q].tenant>> \in managers

\* A request that is past its gate is of somebody entitled to it.
LEMMA PastTheGate ==
    ASSUME IInv, NEW q \in Requests,
           pc[q] \in {"upsert", "find", "insert", "grant", "delete"}
    PROVE  Entitled(q)
  BY DEF IInv, Authority, Entitled

LEMMA AssignConfined ==
    ASSUME IInv, NEW q \in Requests, AssignCommit(q)
    PROVE  Confined(q) /\ Entitled(q)
<1> DEFINE pair == <<target[q], call[q].tenant>>
<1>1. pair \in Pairs
  BY DEF AssignCommit, IInv, LocalsRead, TypeOK, Call, Pairs
<1>2. role' = role /\ (membership' = membership \/ membership' = [membership EXCEPT ![pair] = row[q]])
  BY DEF AssignCommit
<1>3. \A p \in Pairs : membership'[p] # membership[p] => p = pair
  BY <1>1, <1>2 DEF IInv, TypeOK
<1> QED BY <1>2, <1>3, PastTheGate DEF AssignCommit, Confined

LEMMA RevokeConfined ==
    ASSUME IInv, NEW q \in Requests, Revoke(q)
    PROVE  Confined(q) /\ Entitled(q)
<1>1. /\ role' = role
      /\ \A p \in Pairs : membership'[p] # membership[p] => p = <<target[q], call[q].tenant>>
  BY DEF Revoke, DeleteMemberships, IInv, TypeOK
<1> QED BY <1>1, PastTheGate DEF Revoke, Confined

LEMMA InsertConfined ==
    ASSUME IInv, NEW q \in Requests, InsertRole(q)
    PROVE  Confined(q) /\ Entitled(q)
<1>1. membership' = membership
  BY DEF InsertRole
<1>2. CASE role' = role
  BY <1>1, <1>2, PastTheGate DEF InsertRole, Confined
<1>3. CASE \E id \in Unspent : AddRoles([r \in {id} |-> CustomRow(q)])
  <2>1. PICK id \in Unspent : AddRoles([r \in {id} |-> CustomRow(q)])
    BY <1>3
  <2>2. id \notin DOMAIN role
    BY DEF Unspent, IInv, TypeOK
  <2>3. /\ DOMAIN role' = DOMAIN role \union {id}
        /\ \A r \in DOMAIN role : role'[r] = role[r]
        /\ role'[id].tenant = call[q].tenant
    BY <2>1, <2>2 DEF AddRoles, CustomRow
  <2> QED BY <1>1, <2>3, PastTheGate DEF InsertRole, Confined
<1> QED BY <1>2, <1>3 DEF InsertRole

LEMMA GrantConfined ==
    ASSUME IInv, NEW q \in Requests, GrantCodes(q)
    PROVE  Confined(q) /\ Entitled(q)
<1>1. /\ call[q].op = "create" /\ IsCreator(q)
      /\ row[q] \in DOMAIN role \ edited => role[row[q]].tenant = call[q].tenant
  BY DEF GrantCodes, IInv, OwnRole, IsCreator, UnfinishedRole, LocalsRead, TypeOK
<1>2. /\ membership' = membership
      /\ DOMAIN role' = DOMAIN role
      /\ \A r \in DOMAIN role : role'[r] # role[r] => r = row[q]
  BY DEF GrantCodes, IInv, TypeOK
<1> QED BY <1>1, <1>2, PastTheGate DEF GrantCodes, Confined

\* The memberships that the cleanup deletes were collected for the role it made,
\* whose tenant is that of the call.
LEMMA DeleteConfined ==
    ASSUME IInv, NEW q \in Requests, DeleteRole(q)
    PROVE  Confined(q) /\ Entitled(q)
<1>1. CASE row[q] \in edited
  BY <1>1, PastTheGate DEF DeleteRole, Confined, IInv, LocalsRead
<1>2. CASE UNCHANGED <<membership, role>>
  BY <1>2, PastTheGate DEF DeleteRole, Confined
<1>3. CASE /\ row[q] \notin edited
           /\ DeleteMemberships(doomed[q]) /\ role' = Restrict(role, DOMAIN role \ {row[q]})
  <2>1. IsCreator(q)
    BY DEF DeleteRole, IInv, IsCreator, UnfinishedRole, LocalsRead, TypeOK
  <2>2. /\ row[q] \in DOMAIN role
        /\ role[row[q]].tenant = call[q].tenant
        /\ \A p \in doomed[q] \ placed : p[2] = call[q].tenant
    BY <1>3, <2>1 DEF DeleteRole, IInv, OwnRole, UnfinishedRole
  <2>3. \A p \in Pairs : membership'[p] # membership[p] => p \in doomed[q]
    BY <1>3 DEF DeleteMemberships
  <2>4. /\ DOMAIN role' = DOMAIN role \ {row[q]}
        /\ \A r \in DOMAIN role' : role'[r] = role[r]
    BY <1>3 DEF Restrict
  <2> QED BY <2>2, <2>3, <2>4, PastTheGate DEF DeleteRole, Confined
<1> QED BY <1>1, <1>2, <1>3 DEF DeleteRole

\* What OnlyManagersWrite asks of one step and one request.
ManagersWrite(q) ==
    LET t == call[q].tenant
        touched == {p \in Pairs : membership'[p] # membership[p]}
        changed == {role[r].tenant : r \in {x \in DOMAIN role :
                        x \notin DOMAIN role' \/ role'[x] # role[x]}}
                   \union {role'[r].tenant : r \in DOMAIN role' \ DOMAIN role}
    IN  (touched # {} \/ changed # {}) =>
          /\ \/ call[q].op = "create" /\ row[q] \in edited
             \/ /\ \A p \in touched \ placed : p[2] = t
                /\ changed \subseteq {t}
          /\ call[q].actor \in Superusers \/ <<call[q].actor, t>> \in managers

LEMMA ConfinedSuffices ==
    ASSUME NEW q \in Requests, Confined(q), Entitled(q)
    PROVE  ManagersWrite(q)
  BY DEF Confined, Entitled, ManagersWrite

LEMMA QuietWritesNothing ==
    ASSUME NEW q \in Requests, UNCHANGED <<membership, role>>
    PROVE  ManagersWrite(q)
  BY DEF ManagersWrite

LEMMA HandleWrites ==
    ASSUME IInv, NEW q \in Requests, Handle(q)
    PROVE  ManagersWrite(q)
<1>1. CASE AssignCommit(q) \/ Revoke(q) \/ InsertRole(q) \/ GrantCodes(q) \/ DeleteRole(q)
  BY <1>1, AssignConfined, RevokeConfined, InsertConfined, GrantConfined, DeleteConfined,
     ConfinedSuffices
<1>2. CASE UNCHANGED <<membership, role>>
  BY <1>2, QuietWritesNothing
<1> QED BY <1>1, <1>2 DEF Handle, db, Receive, Gate, ManagerCheck, ReadTarget,
     ExistsCheck, FindRole, AssignRollback, LookupCodes, CollectRole, Crash

\* A request moves in its own steps only.
LEMMA OwnSteps ==
    ASSUME IInv, NEW o \in Requests, [Next]_vars, pc'[o] # pc[o]
    PROVE  Handle(o)
<1>1. ASSUME NEW q \in Requests, Handle(q) PROVE pc' = [pc EXCEPT ![q] = pc'[q]]
  <2>1. \E s : pc' = [pc EXCEPT ![q] = s]
    BY <1>1 DEF Handle, Goto, Answer, Close, Receive, Gate, ManagerCheck, ReadTarget,
       ExistsCheck, FindRole, AssignCommit, AssignRollback, Revoke, InsertRole,
       LookupCodes, GrantCodes, CollectRole, DeleteRole, Crash
  <2> QED BY <2>1 DEF IInv, TypeOK
<1>2. CASE \E q \in Requests : Handle(q)
  BY <1>1, <1>2 DEF IInv, TypeOK
<1>3. CASE Surroundings \/ AdminSite \/ UNCHANGED vars
  BY <1>3 DEF Surroundings, Provision, Seed, RegisterPermission, DeletePermission,
     Erase, AdminSite, SaveRole, RemoveRole, SaveMembership, RemoveMembership, vars, locals
<1> QED BY <1>2, <1>3 DEF Next

\* A request writes memberships and roles of the tenant in its URL only, but for what
\* an administrator moved meanwhile, and only for a superuser or somebody who has
\* held a manager's role there.
THEOREM OnlyManagers == Spec => OnlyManagersWrite
<1>1. IInv /\ [Next]_vars =>
        [\A q \in Requests : pc'[q] # pc[q] => ManagersWrite(q)]_vars
  BY OwnSteps, HandleWrites
<1> QED BY <1>1, Invariance, PTL DEF Spec, OnlyManagersWrite, ManagersWrite

-----------------------------------------------------------------------------
(* Rbac implements RoleTable: what its variables mean in terms of the tables *)

Defined == NamesOf(Untouched)
Default == NamesOf({r \in Untouched : role[r].is_default})
Held == [p \in Pairs |-> IF p \in placed \/ membership[p] \notin Untouched
                         THEN Nobody ELSE role[membership[p]].slug]
Gone == {u \in Users : account[u] # "active"}

\* There is a pair of a user and a tenant: that of the demo.
LEMMA SomePair == <<DemoAdmin, DemoHome>> \in Pairs
  BY DEF Pairs

\* What the invariant says of a role held in the table: it is the tenant's own.
LEMMA HeldFacts ==
    ASSUME IInv, NEW p \in Pairs, Held[p] # Nobody
    PROVE  /\ p \notin placed /\ membership[p] \in Untouched
           /\ Held[p] = role[membership[p]].slug
           /\ role[membership[p]].tenant = p[2]
<1>1. p \notin placed /\ membership[p] \in Untouched /\ Held[p] = role[membership[p]].slug
  BY DEF Held
<1>2. membership[p] # Nobody /\ membership[p] \notin edited
  BY <1>1 DEF Untouched, IInv, TypeOK
<1> QED BY <1>1, <1>2 DEF IInv, RolesStayInTenant

\* A step that adds roles and changes at most one membership, to a role its
\* tenant then has or to none, extends the table.
LEMMA ExtendBy ==
    ASSUME IInv', Defined \subseteq Defined', Default \subseteq Default',
           NEW pair \in Pairs,
           \A p \in Pairs \ {pair} : Held'[p] = Held[p],
           \/ Held'[pair] \in {Held[pair], Nobody}
           \/ <<pair[2], Held'[pair]>> \in Defined',
           Gone' = Gone, edits' = edits
    PROVE  Table!Extend
<1>1. Defined' \subseteq Tenants \X Slugs /\ Default' \subseteq Defined'
  BY DEF IInv, TypeOK, RoleRow, Defined, Default, NamesOf, Untouched
<1>2. Held' = [Held EXCEPT ![pair] = Held'[pair]]
  BY DEF Held
<1>3. /\ edits' = edits /\ Gone' = Gone
      /\ Defined \subseteq Defined' /\ Default \subseteq Default'
      /\ Default' \subseteq Defined' /\ Defined' \subseteq Tenants \X Slugs
      /\ \E p \in Users \X Tenants :
           /\ Held' = [Held EXCEPT ![p] = Held'[p]]
           /\ Held'[p] \in {Held[p], Nobody} \/ <<p[2], Held'[p]>> \in Defined'
  BY <1>1, <1>2 DEF Pairs
<1> QED BY <1>3 DEF Table!Extend, Table!Pairs, Defined, Default, Held, Gone

\* Steps that leave memberships and what they count as alone, and keep the slug of
\* every role that nobody edited.
LEMMA HeldKept ==
    ASSUME IInv, IInv', UNCHANGED <<membership, edited, placed>>,
           \A r \in DOMAIN role : r \in DOMAIN role' /\ role'[r].slug = role[r].slug
    PROVE  Held' = Held
<1>1. ASSUME NEW p \in Pairs
      PROVE  /\ membership[p] \in Untouched => membership[p] \in Untouched'
             /\ membership[p] \in Untouched' => membership[p] \in Untouched
  <2>1. Nobody \notin DOMAIN role'
    BY DEF IInv, TypeOK
  <2>2. membership[p] # Nobody => membership[p] \in DOMAIN role
    BY DEF IInv, RolesStayInTenant
  <2> QED BY <2>1, <2>2 DEF Untouched
<1> QED BY <1>1 DEF Held, Untouched

\* Roles are added, memberships and accounts stay.
LEMMA TableGrows ==
    ASSUME IInv, IInv', UNCHANGED <<membership, account, edits, edited, placed>>,
           \A r \in DOMAIN role : /\ r \in DOMAIN role'
                                  /\ role'[r].tenant = role[r].tenant
                                  /\ role'[r].slug = role[r].slug
                                  /\ role'[r].is_default = role[r].is_default
    PROVE  Table!Extend
<1>1. Held' = Held
  BY HeldKept
<1>2. Defined \subseteq Defined' /\ Default \subseteq Default' /\ Gone' = Gone
  BY DEF Defined, Default, NamesOf, Untouched, Gone
<1> QED BY <1>1, <1>2, SomePair, ExtendBy

\* Edits of permissions are no business of the table.
LEMMA TableStutters ==
    ASSUME IInv, IInv', UNCHANGED <<membership, account, edits, edited, placed>>,
           DOMAIN role' = DOMAIN role,
           \A r \in DOMAIN role : /\ role'[r].tenant = role[r].tenant
                                  /\ role'[r].slug = role[r].slug
                                  /\ role'[r].is_default = role[r].is_default
    PROVE  UNCHANGED Table!rvars
<1>1. Held' = Held
  BY HeldKept
<1>2. Defined' = Defined /\ Default' = Default /\ Gone' = Gone
  <2>1. Untouched' = Untouched
    BY DEF Untouched
  <2> QED BY <2>1 DEF Defined, Default, NamesOf, Untouched, Gone
<1> QED BY <1>1, <1>2 DEF Table!rvars, Defined, Default, Held, Gone

LEMMA InitMaps == Init => Table!Init
<1> SUFFICES ASSUME Init PROVE Table!Init
  OBVIOUS
<1>1. Untouched = {}
  BY DEF Init, Untouched
<1>2. Defined = {} /\ Default = {}
  BY <1>1 DEF Defined, Default, NamesOf
<1>3. Held = [p \in Users \X Tenants |-> Nobody]
  BY <1>1 DEF Held, Pairs
<1>4. Gone = {} /\ edits = 0
  BY DEF Init, Gone
<1> QED BY <1>2, <1>3, <1>4 DEF Table!Init, Table!Pairs, Defined, Default, Held, Gone

LEMMA ProvisionMaps ==
    ASSUME IInv, IInv', NEW t \in Tenants, Provision(t)
    PROVE  Table!Extend
  BY ProvisionKeepsRoles, TableGrows DEF Provision, history, byHand

\* Seeding gives the demo administrator a role of its home.
LEMMA SeedMaps ==
    ASSUME IInv, IInv', Seed
    PROVE  Table!Extend
<1>0. PICK pair \in Pairs : pair = <<DemoAdmin, DemoHome>>
  BY SomePair
<1>1. /\ \A r \in DOMAIN role : /\ r \in DOMAIN role'
                                /\ role'[r].tenant = role[r].tenant
                                /\ role'[r].slug = role[r].slug
                                /\ role'[r].is_default = role[r].is_default
  BY SeedKeepsRoles
<1>2. UNCHANGED <<account, edits, edited, placed>>
  BY DEF Seed, byHand
<1>3. CASE membership' = membership
  BY <1>1, <1>2, <1>3, TableGrows
<1>4. CASE /\ account[DemoAdmin] = "active"
           /\ \A p \in Pairs \ {pair} : membership'[p] = membership[p]
           /\ membership'[pair] = CHOOSE r \in DOMAIN role' : /\ role'[r].tenant = DemoHome
                                                              /\ role'[r].slug = DemoRole
  <2>1. \A p \in Pairs \ {pair} : Held'[p] = Held[p]
    <3>1. ASSUME NEW p \in Pairs \ {pair}
          PROVE  membership[p] \in Untouched <=> membership[p] \in Untouched'
      <4>1. membership[p] # Nobody => membership[p] \in DOMAIN role
        BY DEF IInv, RolesStayInTenant
      <4>2. Nobody \notin DOMAIN role' /\ Nobody \notin DOMAIN role
        BY DEF IInv, TypeOK
      <4> QED BY <4>1, <4>2, <1>1, <1>2 DEF Untouched
    <3> QED BY <3>1, <1>1, <1>2, <1>4 DEF Held, Untouched
  <2>2. Held'[pair] = Nobody \/ <<pair[2], Held'[pair]>> \in Defined'
    <3>1. PICK key : key = membership'[pair]
      OBVIOUS
    <3>2. CASE pair \in placed' \/ key \notin Untouched'
      BY <3>1, <3>2 DEF Held
    <3>3. CASE pair \notin placed' /\ key \in Untouched'
      <4>1. Held'[pair] = role'[key].slug
        BY <3>1, <3>3 DEF Held
      <4>2. key \in DOMAIN role' /\ key # Nobody /\ key \notin edited'
        BY <3>3 DEF Untouched, IInv, TypeOK
      <4>3. role'[key].tenant = pair[2]
        BY <3>1, <3>3, <4>2 DEF IInv, RolesStayInTenant
      <4>4. <<role'[key].tenant, role'[key].slug>> \in Defined'
        BY <3>3 DEF Defined, NamesOf
      <4> QED BY <4>1, <4>3, <4>4
    <3> QED BY <3>2, <3>3
  <2>3. Defined \subseteq Defined' /\ Default \subseteq Default' /\ Gone' = Gone
    BY <1>1, <1>2 DEF Defined, Default, NamesOf, Untouched, Gone
  <2> QED BY <1>2, <2>1, <2>2, <2>3, ExtendBy
<1>5. membership' = membership \/ account[DemoAdmin] = "active"
  BY DEF Seed
<1>6. CASE account[DemoAdmin] = "active"
  <2>1. membership' = [membership EXCEPT ![pair] =
                         CHOOSE r \in DOMAIN role' : /\ role'[r].tenant = DemoHome
                                                     /\ role'[r].slug = DemoRole]
    BY <1>0, <1>6 DEF Seed
  <2> QED BY <1>4, <1>6, <2>1 DEF IInv, TypeOK
<1> QED BY <1>3, <1>5, <1>6

LEMMA EraseMaps ==
    ASSUME IInv, NEW u \in Users, NEW state \in {"anonymized", "deleted"}, Erase(u, state)
    PROVE  Table!Forget(u)
<1>1. Gone' = Gone \union {u}
  BY DEF Erase, Gone, IInv, TypeOK
<1>2. /\ UNCHANGED <<role, edits, edited, placed>>
      /\ membership' = [p \in Pairs |-> IF p[1] = u THEN Nobody ELSE membership[p]]
  <2>1. \A p \in Pairs : p \in {u} \X Tenants <=> p[1] = u
    BY DEF Pairs
  <2> QED BY <2>1 DEF Erase, DeleteMemberships, history, byHand
<1>3. Untouched' = Untouched /\ Nobody \notin Untouched
  BY <1>2 DEF Untouched, IInv, TypeOK
<1>4. Defined' = Defined /\ Default' = Default
  BY <1>2, <1>3 DEF Defined, Default, NamesOf
<1>5. \A p \in Pairs : Held'[p] = IF p[1] = u THEN Nobody ELSE Held[p]
  BY <1>2, <1>3 DEF Held
<1>6. /\ Gone' = Gone \union {u} /\ UNCHANGED <<Defined, Default, edits>>
      /\ Held' = [p \in Users \X Tenants |->
                    IF p \in {u} \X Tenants /\ Held'[p] = Nobody THEN Nobody ELSE Held[p]]
      /\ \A t \in Tenants : Held'[<<u, t>>] = Nobody
  <2>1. \A p \in Users \X Tenants : p \in {u} \X Tenants <=> p[1] = u
    OBVIOUS
  <2>2. Held' = [p \in Users \X Tenants |-> Held'[p]]
    BY DEF Held, Pairs
  <2>3. \A p \in Users \X Tenants :
          Held'[p] = IF p \in {u} \X Tenants /\ Held'[p] = Nobody THEN Nobody ELSE Held[p]
    BY <1>5, <2>1 DEF Pairs
  <2>4. \A t \in Tenants : <<u, t>> \in Pairs /\ <<u, t>>[1] = u
    BY DEF Pairs
  <2> QED BY <1>1, <1>2, <1>4, <1>5, <2>2, <2>3, <2>4
<1> QED BY <1>6 DEF Table!Forget, Table!Lose, Table!Pairs, Defined, Default, Held, Gone

\* A step in which pairs lose what they hold in the table and no pair gains.
Loses(gone) ==
    \A p \in Pairs : Held'[p] = Held[p] \/ (p \in gone /\ Held'[p] = Nobody)

LEMMA LosesMaps ==
    ASSUME NEW gone \in SUBSET Pairs, Loses(gone)
    PROVE  Held' = [p \in Users \X Tenants |->
                      IF p \in gone /\ Held'[p] = Nobody THEN Nobody ELSE Held[p]]
<1>1. Held' = [p \in Users \X Tenants |-> Held'[p]]
  BY DEF Held, Pairs
<1>2. \A p \in Users \X Tenants :
        Held'[p] = IF p \in gone /\ Held'[p] = Nobody THEN Nobody ELSE Held[p]
  BY DEF Loses, Pairs
<1> QED BY <1>1, <1>2

\* The role r, which nobody had edited, is no longer counted: whoever held it holds
\* nothing, and who loses a role with it is of the same tenant.
LEMMA WithoutMaps ==
    ASSUME IInv, NEW r \in Untouched, Untouched' = Untouched \ {r},
           \A k \in Untouched' : role'[k] = role[k],
           placed' = placed, UNCHANGED account,
           \A p \in Pairs : \/ membership'[p] = membership[p]
                            \/ membership'[p] = Nobody /\ (p \in placed \/ p[2] = role[r].tenant)
    PROVE  \E d \in Defined : /\ role[r].is_default \/ d \notin Default
                             /\ Table!Without(d[1], d[2])
<1>0. PICK t \in Tenants, s \in Slugs : t = role[r].tenant /\ s = role[r].slug
  BY DEF Untouched, IInv, TypeOK, RoleRow
<1>1. \A k \in Untouched : role[k].tenant = t /\ role[k].slug = s => k = r
  BY <1>0 DEF Untouched, IInv, SlugNamesOneRole
<1>2. Nobody \notin Untouched
  BY DEF Untouched, IInv, TypeOK
<1>3. Defined' = Defined \ {<<t, s>>} /\ Default' = Default \ {<<t, s>>}
  BY <1>0, <1>1 DEF Defined, Default, NamesOf
<1>4. <<t, s>> \in Defined
  BY <1>0 DEF Defined, NamesOf
<1>5. role[r].is_default \/ <<t, s>> \notin Default
  BY <1>0, <1>1 DEF Default, NamesOf
<1>6. ASSUME NEW p \in Pairs
      PROVE  Held'[p] = Held[p] \/ (p[2] = t /\ Held'[p] = Nobody)
  <2>1. CASE Held[p] = Nobody
    <3>1. p \in placed \/ membership[p] \notin Untouched
      BY <2>1, <1>0 DEF Held, Untouched, IInv, TypeOK, RoleRow
    <3>2. p \in placed' \/ membership'[p] \notin Untouched'
      BY <3>1, <1>2
    <3> QED BY <2>1, <3>2 DEF Held
  <2>2. CASE Held[p] # Nobody
    <3>1. /\ p \notin placed /\ membership[p] \in Untouched
          /\ Held[p] = role[membership[p]].slug /\ role[membership[p]].tenant = p[2]
      BY <2>2, HeldFacts
    <3>2. CASE membership'[p] = membership[p] /\ membership[p] # r
      <4>1. membership'[p] \in Untouched' /\ role'[membership'[p]] = role[membership[p]]
        BY <3>1, <3>2
      <4> QED BY <3>1, <4>1 DEF Held
    <3>3. CASE membership[p] = r
      <4>1. membership'[p] \notin Untouched'
        BY <3>3, <1>2
      <4> QED BY <3>1, <3>3, <4>1, <1>0 DEF Held
    <3>4. CASE membership'[p] = Nobody
      <4>1. membership'[p] \notin Untouched' /\ (membership[p] = r \/ p[2] = t)
        BY <3>1, <3>4, <1>0, <1>2
      <4> QED BY <3>1, <3>3, <4>1 DEF Held
    <3> QED BY <3>2, <3>3, <3>4
  <2> QED BY <2>1, <2>2
<1>7. ASSUME NEW u \in Users, Held'[<<u, t>>] = s
      PROVE  FALSE
  <2>1. PICK p \in Pairs : p = <<u, t>>
    BY DEF Pairs
  <2>2. p[2] = t /\ Held'[p] = s /\ s # Nobody
    BY <1>7, <2>1
  <2>3. Held[p] = s
    BY <1>6, <2>2
  <2>4. /\ membership[p] \in Untouched /\ role[membership[p]].tenant = t
        /\ role[membership[p]].slug = s
    BY <2>2, <2>3, HeldFacts
  <2>5. membership[p] = r
    BY <1>1, <2>4
  <2>6. membership'[p] \notin Untouched'
    BY <2>5, <1>2
  <2>7. Held'[p] = Nobody
    BY <2>6 DEF Held
  <2> QED BY <2>2, <2>7
<1>8. Loses(Users \X {t})
  <2>1. \A p \in Pairs : p[2] = t => p \in Users \X {t}
    BY DEF Pairs
  <2> QED BY <1>6, <2>1 DEF Loses
<1>9. PICK gone \in SUBSET Pairs : gone = Users \X {t}
  BY DEF Pairs
<1>10. Held' = [p \in Users \X Tenants |->
                  IF p \in Users \X {t} /\ Held'[p] = Nobody THEN Nobody ELSE Held[p]]
  BY <1>8, <1>9, LosesMaps
<1>11. Gone' = Gone
  BY DEF Gone
<1>12. PICK d \in Defined : d = <<t, s>>
  BY <1>4
<1>13. d[1] = t /\ d[2] = s
  BY <1>12
<1>14. /\ Gone' = Gone
       /\ Defined' = Defined \ {<<d[1], d[2]>>} /\ Default' = Default \ {<<d[1], d[2]>>}
       /\ Held' = [p \in Users \X Tenants |->
                     IF p \in Users \X {d[1]} /\ Held'[p] = Nobody THEN Nobody ELSE Held[p]]
       /\ \A u \in Users : Held'[<<u, d[1]>>] # d[2]
  BY <1>3, <1>7, <1>10, <1>11, <1>13
<1>15. Table!Without(d[1], d[2])
  BY <1>14 DEF Table!Without, Table!Lose, Table!Pairs, Defined, Default, Held, Gone
<1> QED BY <1>5, <1>12, <1>15

\* A step that takes an unedited role out of the table by a form.
LEMMA EditOfRole ==
    ASSUME IInv, edits' = edits + 1, NEW r \in Untouched, Untouched' = Untouched \ {r},
           \A k \in Untouched' : role'[k] = role[k],
           placed' = placed, UNCHANGED account,
           \A p \in Pairs : \/ membership'[p] = membership[p]
                            \/ membership'[p] = Nobody /\ (p \in placed \/ p[2] = role[r].tenant)
    PROVE  Table!Edit
<1>1. \E d \in Defined : Table!Without(d[1], d[2])
  BY WithoutMaps
<1> QED BY <1>1 DEF Table!Edit, Defined

\* A form that takes no role out of the table, and the memberships of at most two
\* pairs.
LEMMA EditOfPairs ==
    ASSUME edits' = edits + 1, Defined' = Defined, Default' = Default, Gone' = Gone,
           NEW p1 \in Pairs, NEW p2 \in Pairs, Loses({p1, p2})
    PROVE  Table!Edit
<1>1. PICK gone \in SUBSET Pairs : gone = {p1, p2}
  OBVIOUS
<1>2. Held' = [p \in Users \X Tenants |->
                 IF p \in {p1, p2} /\ Held'[p] = Nobody THEN Nobody ELSE Held[p]]
  BY <1>1, LosesMaps
<1>3. /\ edits' = edits + 1 /\ UNCHANGED <<Defined, Default, Gone>>
      /\ \E q1, q2 \in Users \X Tenants :
           Held' = [p \in Users \X Tenants |->
                      IF p \in {q1, q2} /\ Held'[p] = Nobody THEN Nobody ELSE Held[p]]
  BY <1>2 DEF Pairs
<1> QED BY <1>3 DEF Table!Edit, Table!Lose, Table!Pairs, Defined, Default, Held, Gone

LEMMA SaveRoleMaps ==
    ASSUME IInv, IInv', NEW r \in RoleIds, NEW new \in RoleRow, SaveRole(r, new)
    PROVE  Table!Edit
<1>1. /\ edits' = edits + 1 /\ edited' = edited \union {r} /\ placed' = placed
      /\ UNCHANGED <<account, membership>>
      /\ DOMAIN role' = DOMAIN role \union {r}
      /\ \A k \in DOMAIN role \ {r} : role'[k] = role[k]
  BY DEF SaveRole, SavedByHand, AddRoles
<1>2. Untouched' = Untouched \ {r} /\ \A k \in Untouched' : role'[k] = role[k]
  BY <1>1 DEF Untouched
<1>3. CASE r \in Untouched
  BY <1>1, <1>2, <1>3, EditOfRole
<1>4. CASE r \notin Untouched
  <2>1. Untouched' = Untouched
    BY <1>2, <1>4
  <2>2. Defined' = Defined /\ Default' = Default /\ Gone' = Gone
    BY <1>1, <1>2, <2>1 DEF Defined, Default, NamesOf, Gone
  <2>3. \A p \in Pairs : Held'[p] = Held[p]
    BY <1>1, <1>2, <2>1 DEF Held
  <2> QED BY <1>1, <2>2, <2>3, SomePair, EditOfPairs DEF Loses
<1> QED BY <1>3, <1>4

LEMMA RemoveRoleMaps ==
    ASSUME IInv, IInv', NEW r \in RoleIds, RemoveRole(r)
    PROVE  Table!Edit
<1>1. /\ edits' = edits + 1 /\ edited' = edited \union {r} /\ placed' = placed
      /\ UNCHANGED account
      /\ r \in DOMAIN role
      /\ DOMAIN role' = DOMAIN role \ {r}
      /\ \A k \in DOMAIN role \ {r} : role'[k] = role[k]
      /\ membership' = [p \in Pairs |-> IF membership[p] = r THEN Nobody ELSE membership[p]]
  BY DEF RemoveRole, SavedByHand, DeleteMemberships, Restrict
<1>2. Untouched' = Untouched \ {r} /\ \A k \in Untouched' : role'[k] = role[k]
  BY <1>1 DEF Untouched
<1>3. CASE r \in Untouched
  <2>1. ASSUME NEW p \in Pairs, membership'[p] # membership[p]
        PROVE  membership'[p] = Nobody /\ (p \in placed \/ p[2] = role[r].tenant)
    <3>1. membership[p] = r /\ membership'[p] = Nobody /\ r \notin edited /\ r # Nobody
      BY <2>1, <1>1, <1>3 DEF Untouched
    <3> QED BY <3>1 DEF IInv, RolesStayInTenant
  <2> QED BY <1>1, <1>2, <1>3, <2>1, EditOfRole
<1>4. CASE r \notin Untouched
  <2>1. Untouched' = Untouched
    BY <1>2, <1>4
  <2>2. Defined' = Defined /\ Default' = Default /\ Gone' = Gone
    BY <1>1, <1>2, <2>1 DEF Defined, Default, NamesOf, Gone
  <2>3. \A p \in Pairs : Held'[p] = Held[p]
    <3>1. Nobody \notin Untouched
      BY DEF Untouched, IInv, TypeOK
    <3> QED BY <3>1, <1>1, <1>2, <1>4, <2>1 DEF Held
  <2> QED BY <1>1, <2>2, <2>3, SomePair, EditOfPairs DEF Loses
<1> QED BY <1>3, <1>4

LEMMA MembershipFormMaps ==
    ASSUME IInv, NEW from \in Pairs, NEW p \in Pairs,
           edits' = edits + 1, edited' = edited, placed' = placed \union {from, p},
           UNCHANGED <<role, account>>,
           \A o \in Pairs \ {from, p} : membership'[o] = membership[o]
    PROVE  Table!Edit
<1>1. Untouched' = Untouched
  BY DEF Untouched
<1>2. Defined' = Defined /\ Default' = Default /\ Gone' = Gone
  BY <1>1 DEF Defined, Default, NamesOf, Gone
<1>3. Loses({from, p})
  BY <1>1 DEF Loses, Held
<1> QED BY <1>2, <1>3, EditOfPairs

LEMMA AdminMaps ==
    ASSUME IInv, IInv', AdminSite
    PROVE  Table!Edit
<1>1. CASE \E r \in RoleIds : RemoveRole(r) \/ \E new \in RoleRow : SaveRole(r, new)
  BY <1>1, SaveRoleMaps, RemoveRoleMaps
<1>2. ASSUME NEW p \in Pairs, RemoveMembership(p) PROVE Table!Edit
  <2>1. /\ edits' = edits + 1 /\ edited' = edited /\ placed' = placed \union {p, p}
        /\ UNCHANGED <<role, account>>
        /\ \A o \in Pairs \ {p, p} : membership'[o] = membership[o]
    BY <1>2 DEF RemoveMembership, SavedByHand, DeleteMemberships
  <2> QED BY <2>1, MembershipFormMaps
<1>3. ASSUME NEW from \in Pairs, NEW p \in Pairs, NEW r \in RoleIds, SaveMembership(from, p, r)
      PROVE  Table!Edit
  <2>1. /\ edits' = edits + 1 /\ edited' = edited /\ placed' = placed \union {from, p}
        /\ UNCHANGED <<role, account>>
        /\ \A o \in Pairs \ {from, p} : membership'[o] = membership[o]
    BY <1>3 DEF SaveMembership, SavedByHand, IInv, TypeOK
  <2> QED BY <2>1, MembershipFormMaps
<1> QED BY <1>1, <1>2, <1>3 DEF AdminSite

\* assign_role gives the role it has found by its slug, if that still exists.
LEMMA AssignMaps ==
    ASSUME IInv, IInv', NEW q \in Requests, AssignCommit(q)
    PROVE  Table!Extend \/ UNCHANGED Table!rvars
<1>0. PICK pair \in Pairs : pair = <<target[q], call[q].tenant>>
  BY DEF AssignCommit, IInv, LocalsRead, TypeOK, Call, Pairs
<1>1. UNCHANGED <<role, account, edits, edited, placed>>
  BY DEF AssignCommit, byHand
<1>2. CASE UNCHANGED membership
  BY <1>1, <1>2, TableStutters
<1>3. CASE /\ row[q] \in DOMAIN role
           /\ membership' = [membership EXCEPT ![pair] = row[q]]
  <2>1. Untouched' = Untouched
    BY <1>1 DEF Untouched
  <2>2. Defined' = Defined /\ Default' = Default /\ Gone' = Gone
    BY <1>1, <2>1 DEF Defined, Default, NamesOf, Gone
  <2>3. \A p \in Pairs \ {pair} : membership'[p] = membership[p]
    BY <1>3 DEF IInv, TypeOK
  <2>4. membership'[pair] = row[q]
    BY <1>3 DEF IInv, TypeOK
  <2>5. \A p \in Pairs \ {pair} : Held'[p] = Held[p]
    BY <1>1, <2>1, <2>3 DEF Held
  <2>6. Held'[pair] = Nobody \/ <<pair[2], Held'[pair]>> \in Defined'
    <3>1. CASE pair \in placed \/ row[q] \notin Untouched
      BY <3>1, <1>1, <2>1, <2>4 DEF Held
    <3>2. CASE pair \notin placed /\ row[q] \in Untouched
      <4>1. Held'[pair] = role[row[q]].slug
        BY <3>2, <1>1, <2>1, <2>4 DEF Held
      <4>2. role[row[q]].tenant = pair[2]
        BY <3>2, <1>0 DEF AssignCommit, Untouched, IInv, FoundRole
      <4>3. <<role[row[q]].tenant, role[row[q]].slug>> \in Defined'
        BY <3>2, <2>2 DEF Defined, NamesOf
      <4> QED BY <4>1, <4>2, <4>3
    <3> QED BY <3>1, <3>2
  <2> QED BY <1>1, <2>2, <2>5, <2>6, ExtendBy
<1> QED BY <1>0, <1>2, <1>3 DEF AssignCommit, AssignKeysValid

LEMMA RevokeMaps ==
    ASSUME IInv, IInv', NEW q \in Requests, Revoke(q)
    PROVE  Table!Extend \/ UNCHANGED Table!rvars
<1>0. PICK pair \in Pairs : pair = <<target[q], call[q].tenant>>
  BY DEF Revoke, IInv, LocalsRead, TypeOK, Call, Pairs
<1>1. UNCHANGED <<role, account, edits, edited, placed>>
  BY DEF Revoke, history, byHand
<1>2. CASE UNCHANGED membership
  BY <1>1, <1>2, TableStutters
<1>3. CASE DeleteMemberships({pair})
  <2>1. Untouched' = Untouched /\ Nobody \notin Untouched
    BY <1>1 DEF Untouched, IInv, TypeOK
  <2>2. Defined' = Defined /\ Default' = Default /\ Gone' = Gone
    BY <1>1, <2>1 DEF Defined, Default, NamesOf, Gone
  <2>3. /\ \A p \in Pairs \ {pair} : membership'[p] = membership[p]
        /\ membership'[pair] = Nobody
    BY <1>3 DEF DeleteMemberships
  <2>4. (\A p \in Pairs \ {pair} : Held'[p] = Held[p]) /\ Held'[pair] = Nobody
    BY <1>1, <2>1, <2>3 DEF Held
  <2> QED BY <1>1, <2>2, <2>4, ExtendBy
<1> QED BY <1>0, <1>2, <1>3 DEF Revoke

LEMMA InsertMaps ==
    ASSUME IInv, IInv', NEW q \in Requests, InsertRole(q)
    PROVE  Table!Extend \/ UNCHANGED Table!rvars
<1>1. UNCHANGED <<membership, account, edits, edited, placed>>
  BY DEF InsertRole, history, byHand
<1>2. CASE role' = role
  BY <1>1, <1>2, TableStutters
<1>3. CASE \E id \in Unspent : AddRoles([r \in {id} |-> CustomRow(q)])
  <2>1. \A r \in DOMAIN role : r \in DOMAIN role' /\ role'[r] = role[r]
    BY <1>3 DEF AddRoles, Unspent, IInv, TypeOK
  <2> QED BY <1>1, <2>1, TableGrows
<1> QED BY <1>2, <1>3 DEF InsertRole

\* The role a create_role takes back is the only one of its slug; who holds it
\* has been collected, or the delete fails.  If a form has edited the role, the table
\* no longer has it, and those who lose something were collected at that role.
LEMMA DeleteMaps ==
    ASSUME IInv, IInv', NEW q \in Requests, DeleteRole(q)
    PROVE  Table!Drop \/ Table!Purge \/ UNCHANGED Table!rvars
<1>1. UNCHANGED <<account, edits, edited, placed>>
  BY DEF DeleteRole, history, byHand
<1>2. CASE UNCHANGED <<membership, role>>
  BY <1>1, <1>2, TableStutters
<1>3. CASE /\ DeleteMemberships(doomed[q])
           /\ role' = Restrict(role, DOMAIN role \ {row[q]})
  <2>1. IsCreator(q) /\ (row[q] \notin edited => row[q] \in DOMAIN role)
    BY DEF DeleteRole, IInv, IsCreator, UnfinishedRole, LocalsRead, TypeOK
  <2>2. DOMAIN role' = DOMAIN role \ {row[q]} /\ \A r \in DOMAIN role' : role'[r] = role[r]
    BY <1>3 DEF Restrict
  <2>3. Untouched' = Untouched \ {row[q]} /\ \A k \in Untouched' : role'[k] = role[k]
    BY <1>1, <2>2 DEF Untouched
  <2>4. \A p \in Pairs : membership'[p] = IF p \in doomed[q] THEN Nobody ELSE membership[p]
    BY <1>3 DEF DeleteMemberships
  <2>5. CASE row[q] \in Untouched
    <3>1. PICK r \in Untouched : r = row[q]
      BY <2>5
    <3>2. role[r].tenant = call[q].tenant /\ ~ role[r].is_default /\ r \notin edited
      BY <2>1, <3>1 DEF IInv, OwnRole, Untouched
    <3>3. \A p \in doomed[q] \ placed : p[2] = role[r].tenant
      BY <3>1, <3>2 DEF DeleteRole, IInv, UnfinishedRole
    <3>4. \A p \in Pairs : \/ membership'[p] = membership[p]
                           \/ membership'[p] = Nobody /\ (p \in placed \/ p[2] = role[r].tenant)
      BY <2>4, <3>3
    <3>5. \E d \in Defined : d \notin Default /\ Table!Without(d[1], d[2])
      BY <1>1, <2>3, <3>1, <3>2, <3>4, WithoutMaps
    <3>6. \E d \in Defined \ Default : Table!Without(d[1], d[2])
      BY <3>5
    <3> QED BY <1>1, <3>6 DEF Table!Drop, Defined, Default
  <2>6. CASE row[q] \notin Untouched
    <3>1. edits > 0
      BY <2>1, <2>6 DEF Untouched, IInv, Counted
    <3>2. Untouched' = Untouched /\ Nobody \notin Untouched
      BY <2>3, <2>6 DEF Untouched, IInv, TypeOK
    <3>3. Defined' = Defined /\ Default' = Default /\ Gone' = Gone
      BY <1>1, <2>3, <3>2 DEF Defined, Default, NamesOf, Gone
    <3>4. \A p \in Pairs : Held'[p] = Held[p] \/ Held'[p] = Nobody
      BY <1>1, <2>3, <2>4, <3>2 DEF Held
    <3>5. PICK gone \in SUBSET Pairs : gone = Users \X Tenants
      BY DEF Pairs
    <3>6. Held' = [p \in Users \X Tenants |->
                     IF p \in Users \X Tenants /\ Held'[p] = Nobody THEN Nobody ELSE Held[p]]
      <4>1. Loses(gone)
        BY <3>4, <3>5 DEF Loses, Pairs
      <4> QED BY <4>1, <3>5, LosesMaps
    <3> QED BY <1>1, <3>1, <3>3, <3>6
          DEF Table!Purge, Table!Lose, Table!Pairs, Defined, Default, Held, Gone
  <2> QED BY <2>5, <2>6
<1> QED BY <1>2, <1>3 DEF DeleteRole

LEMMA GrantMaps ==
    ASSUME IInv, IInv', NEW q \in Requests, GrantCodes(q)
    PROVE  UNCHANGED Table!rvars
<1>1. /\ UNCHANGED <<membership, account, edits, edited, placed>>
      /\ \/ role' = role
         \/ role' = [role EXCEPT ![row[q]].permissions = codes[q] \cap registry]
  BY DEF GrantCodes, history, byHand
<1>2. \A r \in DOMAIN role : role[r] \in RoleRow
  BY DEF IInv, TypeOK
<1>3. DOMAIN role' = DOMAIN role
  BY <1>1
<1>4. \A r \in DOMAIN role : /\ role'[r].tenant = role[r].tenant
                             /\ role'[r].slug = role[r].slug
                             /\ role'[r].is_default = role[r].is_default
  BY <1>1, <1>2 DEF RoleRow
<1> QED BY <1>1, <1>3, <1>4, TableStutters

LEMMA RegistryMaps ==
    ASSUME IInv, IInv', NEW c \in Codes, RegisterPermission(c) \/ DeletePermission(c)
    PROVE  UNCHANGED Table!rvars
<1>1. UNCHANGED <<membership, account, edits, edited, placed>>
  BY DEF RegisterPermission, DeletePermission, history, byHand
<1>2. \A r \in DOMAIN role : role[r] \in RoleRow
  BY DEF IInv, TypeOK
<1>3. /\ DOMAIN role' = DOMAIN role
      /\ \A r \in DOMAIN role : /\ role'[r].tenant = role[r].tenant
                                /\ role'[r].slug = role[r].slug
                                /\ role'[r].is_default = role[r].is_default
  BY <1>2 DEF RegisterPermission, DeletePermission, RoleRow
<1> QED BY <1>1, <1>3, TableStutters

LEMMA NextMaps ==
    ASSUME IInv, IInv', [Next]_vars
    PROVE  Table!Next \/ UNCHANGED Table!rvars
<1>1. CASE UNCHANGED <<role, membership, account, edits, edited, placed>>
  BY <1>1, TableStutters
<1>2. CASE Surroundings
  <2>1. ASSUME NEW t \in Tenants, Provision(t) PROVE Table!Next
    BY <2>1, ProvisionMaps DEF Table!Next
  <2>2. CASE Seed
    BY <2>2, SeedMaps DEF Table!Next
  <2>3. ASSUME NEW u \in Users, NEW state \in {"anonymized", "deleted"}, Erase(u, state)
        PROVE  Table!Next
    BY <2>3, EraseMaps DEF Table!Next
  <2> QED BY <1>2, <2>1, <2>2, <2>3, RegistryMaps DEF Surroundings
<1>3. ASSUME NEW q \in Requests, Handle(q)
      PROVE  Table!Next \/ UNCHANGED Table!rvars
  <2>1. CASE AssignCommit(q) \/ InsertRole(q) \/ GrantCodes(q) \/ Revoke(q)
    BY <2>1, AssignMaps, InsertMaps, GrantMaps, RevokeMaps DEF Table!Next
  <2>2. CASE DeleteRole(q)
    BY <2>2, DeleteMaps DEF Table!Next
  <2>3. CASE UNCHANGED <<role, membership, account, edits, edited, placed>>
    BY <1>1, <2>3
  <2> QED BY <1>3, <2>1, <2>2, <2>3 DEF Handle, db, history, byHand, Receive, Gate,
       ManagerCheck, ReadTarget, ExistsCheck, FindRole, AssignRollback, LookupCodes,
       CollectRole, Crash
<1>4. CASE AdminSite
  BY <1>4, AdminMaps DEF Table!Next
<1>5. CASE UNCHANGED vars
  BY <1>1, <1>5 DEF vars, db, history, byHand
<1> QED BY <1>2, <1>3, <1>4, <1>5 DEF Next

\* The tables of Rbac, seen through the slugs they relate and without what was edited
\* by hand, do nothing but what RoleTable allows.
THEOREM Refinement == Spec => ImplementsRoleTable
<1>1. IInv /\ IInv' /\ [Next]_vars => [Table!Next]_(Table!rvars)
  BY NextMaps
<1> QED BY <1>1, InitMaps, Invariance, PTL DEF Spec, ImplementsRoleTable, Table!Spec

=============================================================================
