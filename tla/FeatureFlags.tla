---------------------------- MODULE FeatureFlags ----------------------------
(***************************************************************************)
(* Feature flags: the rows of FeatureFlag, the requests that evaluate and  *)
(* toggle them one statement at a time, and the admin site.  A flag is an  *)
(* override of one tenant or, without a tenant, global; an override wins.  *)
(*                                                                         *)
(* A listing is modelled at one of its names, which may be any: the dicts  *)
(* that get_active_features merges treat their names alike.                *)
(***************************************************************************)
CONSTANTS
    Calls,          \* requests
    Ids,            \* primary keys of FeatureFlag
    Tenants,
    Names,
    None            \* no tenant, no row

Flags == [tenant : Tenants \union {None}, name : Names, on : BOOLEAN]

\* The value a toggle sets; evaluations carry none.
Requests ==
    [op : {"ask", "list"}, tenant : Tenants, name : Names, on : {FALSE}]
    \union [op : {"toggle"}, tenant : Tenants, name : Names, on : BOOLEAN]

ASSUME FeatureFlagsAssumption == None \notin Tenants \union Flags \union Requests

VARIABLES
    tenants, rows,              \* tenants that exist; id -> flag or None
    at, call, answer, reply,    \* a request
    \* history
    inForce,        \* values of the flag that were in force since the request began
    changed,        \* which kinds of rows have changed during an evaluation
    vanished        \* toggles whose override was deleted after they met it

tables == <<tenants, rows>>
request == <<at, call, answer, reply>>
history == <<inForce, changed, vanished>>
vars == <<tables, request, history>>

Ongoing(q) == at[q] \notin {"new", "done"}

Evaluating(q) == Ongoing(q) /\ call[q].op # "toggle"

-----------------------------------------------------------------------------
(* What the rows say *)

Of(t, n) == {i \in Ids : rows[i] # None /\ rows[i].tenant = t /\ rows[i].name = n}

Values(t, n) == {rows[i].on : i \in Of(t, n)}

\* Nothing makes global flags unique: the first of several may be any.
GlobalValues(n) == IF Of(None, n) = {} THEN {FALSE} ELSE Values(None, n)

\* The documented priority: the override, the global flag, off.
Effective(t, n) == IF Of(t, n) = {} THEN GlobalValues(n) ELSE Values(t, n)

EffectiveFor(q) == Effective(call[q].tenant, call[q].name)

Override(q) == Of(call[q].tenant, call[q].name)

\* The rows a request could read, as two layers.
Layer(q, layer) ==
    LET t == IF layer = "override" THEN call[q].tenant ELSE None
    IN  <<Of(t, call[q].name), Values(t, call[q].name)>>

\* History: what the changed rows mean for the requests under way.
Observe ==
    /\ inForce' = [q \in Calls |->
           IF Ongoing(q) THEN inForce[q] \union EffectiveFor(q)' ELSE inForce[q]]
    /\ changed' = [q \in Calls |->
           changed[q] \union {l \in {"override", "global"} :
                                Evaluating(q) /\ Layer(q, l)' # Layer(q, l)}]
    /\ vanished' = vanished \union
           {q \in Calls : at[q] = "again" /\ Override(q) # {} /\ Override(q)' = {}}

Goto(q, step) == at' = [at EXCEPT ![q] = step]

Respond(q, r) == Goto(q, "done") /\ reply' = [reply EXCEPT ![q] = r]

Say(q, v) == Respond(q, "ok") /\ answer' = [answer EXCEPT ![q] = v]

-----------------------------------------------------------------------------
(* Requests *)

\* The gate of a view asks for the tenant of the request, which it does not look
\* up again; the other views look up the tenant of the URL.
Receive(q, c) ==
    /\ at[q] = "new"
    /\ call' = [call EXCEPT ![q] = c]
    /\ Goto(q, IF c.op = "ask" THEN "override" ELSE "tenant")
    /\ inForce' = [inForce EXCEPT ![q] = Effective(c.tenant, c.name)]
    /\ UNCHANGED <<tables, answer, reply, changed, vanished>>

GetTenant(q) ==
    /\ at[q] = "tenant"
    /\ IF call[q].tenant \in tenants
       THEN Goto(q, IF call[q].op = "list" THEN "globals" ELSE "find") /\ UNCHANGED reply
       ELSE Respond(q, "notfound")
    /\ UNCHANGED <<tables, call, answer, history>>

\* An evaluation that takes an override that is off for none.
AskTruthyOverride(q) ==
    /\ at[q] = "override"
    /\ \/ \E i \in Override(q) : rows[i].on /\ Say(q, TRUE)
       \/ /\ \A i \in Override(q) : ~ rows[i].on
          /\ Goto(q, "global")
          /\ UNCHANGED <<answer, reply>>
    /\ UNCHANGED <<tables, call, history>>

AskOverride(q) ==
    /\ at[q] = "override"
    /\ \/ \E i \in Override(q) : Say(q, rows[i].on)
       \/ /\ Override(q) = {}
          /\ Goto(q, "global")
          /\ UNCHANGED <<answer, reply>>
    /\ UNCHANGED <<tables, call, history>>

AskGlobal(q) ==
    /\ at[q] = "global"
    /\ \E v \in GlobalValues(call[q].name) : Say(q, v)
    /\ UNCHANGED <<tables, call, history>>

\* get_active_features reads in the other order.
ListGlobals(q) ==
    /\ at[q] = "globals"
    /\ \E v \in GlobalValues(call[q].name) : answer' = [answer EXCEPT ![q] = v]
    /\ Goto(q, "overrides")
    /\ UNCHANGED <<tables, call, reply, history>>

ListOverrides(q) ==
    /\ at[q] = "overrides"
    /\ \E v \in IF Override(q) = {} THEN {answer[q]}
                ELSE Values(call[q].tenant, call[q].name) : Say(q, v)
    /\ UNCHANGED <<tables, call, history>>

\* An update of the flags of that name, whoever's they are.
UpdateByName(q) ==
    /\ Override(q) # {}
    /\ rows' = [i \in Ids |-> IF rows[i] # None /\ rows[i].name = call[q].name
                             THEN [rows[i] EXCEPT !.on = call[q].on] ELSE rows[i]]
    /\ Say(q, call[q].on)
    /\ UNCHANGED <<tenants, call>>
    /\ Observe

\* update_or_create locks the row it gets until it has saved and committed.
Update(q) ==
    /\ \E i \in Override(q) : rows' = [rows EXCEPT ![i].on = call[q].on]
    /\ Say(q, call[q].on)
    /\ UNCHANGED <<tenants, call>>
    /\ Observe

FindFlag(q) ==
    /\ at[q] = "find"
    /\ \/ Update(q)
       \/ /\ Override(q) = {}
          /\ Goto(q, "insert")
          /\ UNCHANGED <<tables, call, answer, reply, history>>

\* The database refuses a second override of a name at the insert, and one of a
\* tenant that has gone at the commit.
Create(q) ==
    /\ Override(q) = {}
    /\ call[q].tenant \in tenants
    /\ \E i \in Ids :
           /\ rows[i] = None
           /\ rows' = [rows EXCEPT ![i] =
                  [tenant |-> call[q].tenant, name |-> call[q].name, on |-> call[q].on]]
    /\ Say(q, call[q].on)
    /\ UNCHANGED <<tenants, call>>
    /\ Observe

\* An insert whose failure is not followed by a second look.
InsertOnce(q) ==
    /\ at[q] = "insert"
    /\ \/ Create(q)
       \/ /\ call[q].tenant \notin tenants \/ Override(q) # {}
          /\ Respond(q, "integrity")
          /\ UNCHANGED <<tables, call, answer, history>>

InsertFlag(q) ==
    /\ at[q] = "insert"
    /\ \/ Create(q)
       \/ /\ call[q].tenant \notin tenants
          /\ Respond(q, "integrity")
          /\ UNCHANGED <<tables, call, answer, history>>
       \/ /\ Override(q) # {}
          /\ Goto(q, "again")
          /\ UNCHANGED <<tables, call, answer, reply, history>>

FindAgain(q) ==
    /\ at[q] = "again"
    /\ \/ Update(q)
       \/ /\ Override(q) = {}
          /\ Respond(q, "integrity")
          /\ UNCHANGED <<tables, call, answer, history>>

-----------------------------------------------------------------------------
(* The admin site *)

\* The form adds a flag, or writes every column of one: the tenant and the name
\* may change, and a flag deleted since the form was opened comes back.
SaveFlag(i, f) ==
    /\ f.tenant \in tenants \union {None}
    /\ f.tenant # None => Of(f.tenant, f.name) \subseteq {i}
    /\ rows' = [rows EXCEPT ![i] = f]
    /\ UNCHANGED <<tenants, request>>
    /\ Observe

DeleteFlag(i) ==
    /\ rows[i] # None
    /\ rows' = [rows EXCEPT ![i] = None]
    /\ UNCHANGED <<tenants, request>>
    /\ Observe

\* A deletion that leaves the flags of the tenant.
DeleteTenantOnly(t) ==
    /\ t \in tenants
    /\ tenants' = tenants \ {t}
    /\ UNCHANGED <<rows, request, history>>

DeleteTenant(t) ==
    /\ t \in tenants
    /\ tenants' = tenants \ {t}
    /\ rows' = [i \in Ids |->
           IF rows[i] # None /\ rows[i].tenant = t THEN None ELSE rows[i]]
    /\ UNCHANGED request
    /\ Observe

-----------------------------------------------------------------------------
Init ==
    /\ tenants = Tenants
    /\ rows = [i \in Ids |-> None]
    /\ at = [q \in Calls |-> "new"]
    /\ call = [q \in Calls |-> None]
    /\ answer = [q \in Calls |-> FALSE]
    /\ reply = [q \in Calls |-> "none"]
    /\ inForce = [q \in Calls |-> {}]
    /\ changed = [q \in Calls |-> {}]
    /\ vanished = {}

Next ==
    \/ \E q \in Calls :
           \/ \E c \in Requests : Receive(q, c)
           \/ GetTenant(q)
           \/ AskOverride(q) \/ AskGlobal(q)
           \/ ListGlobals(q) \/ ListOverrides(q)
           \/ FindFlag(q) \/ InsertFlag(q) \/ FindAgain(q)
    \/ \E i \in Ids : DeleteFlag(i) \/ \E f \in Flags : SaveFlag(i, f)
    \/ \E t \in Tenants : DeleteTenant(t)

Spec == Init /\ [][Next]_vars

-----------------------------------------------------------------------------
Steps == {"new", "tenant", "override", "global", "globals", "overrides",
          "find", "insert", "again", "done"}

\* Requests and rows have their types; a tenant has one override of a name, and a
\* flag is of a tenant that exists.
TypeOK ==
    /\ tenants \subseteq Tenants
    /\ rows \in [Ids -> Flags \union {None}]
    /\ \A i \in Ids : rows[i] # None => rows[i].tenant \in tenants \union {None}
    /\ \A t \in tenants, n \in Names, i, j \in Ids : i \in Of(t, n) /\ j \in Of(t, n) => i = j
    /\ at \in [Calls -> Steps]
    /\ call \in [Calls -> Requests \union {None}]
    /\ \A q \in Calls : at[q] # "new" => call[q] # None
    /\ answer \in [Calls -> BOOLEAN]
    /\ reply \in [Calls -> {"none", "ok", "notfound", "integrity"}]
    /\ inForce \in [Calls -> SUBSET BOOLEAN]
    /\ changed \in [Calls -> SUBSET {"override", "global"}]
    /\ vanished \subseteq Calls

\* is_feature_active and get_active_features read overrides and global flags in
\* two statements, in opposite orders.  Unless both kinds change meanwhile, what
\* they answer was the effective value of the flag at some moment of the call.
\* What a toggle reports was so in any race.
AnswersWereInForce ==
    \A q \in Calls :
        reply[q] = "ok" /\ changed[q] # {"override", "global"} => answer[q] \in inForce[q]

\* Two toggles that create one override together both succeed: the database refuses
\* set_feature only if the tenant, or the override another toggle made, was deleted
\* meanwhile.  (A broker that refuses the record of the change, in the signal of the
\* audit trail, fails a toggle too; AuditTrail has that failure.)
TogglesDoNotCollide ==
    \A q \in Calls :
        reply[q] = "integrity" => call[q].tenant \notin tenants \/ q \in vanished

-----------------------------------------------------------------------------
(* FeatureFlags implements FlagTable *)

Toggling(q) == call[q] # None /\ call[q].op = "toggle"

Asked(q) ==
    IF Toggling(q)
    THEN [tenant |-> call[q].tenant, name |-> call[q].name, on |-> call[q].on]
    ELSE None

Outcome(q) ==
    IF ~ Toggling(q) THEN "none"
    ELSE CASE reply[q] = "none" -> "open"
           [] reply[q] = "ok" -> "made"
           [] OTHER -> "refused"

ValueAt(t, n) ==
    IF Of(t, n) = {} THEN None ELSE CHOOSE v \in Values(t, n) : TRUE

Overrides == [c \in Tenants \X Names |-> ValueAt(c[1], c[2])]

Table == INSTANCE FlagTable WITH
    Unset <- None,
    override <- Overrides,
    asked <- [q \in Calls |-> Asked(q)],
    outcome <- [q \in Calls |-> Outcome(q)]

\* However the statements of toggles, of the admin site and of deletions of tenants
\* fall among each other, each toggle is one write of its own tenant's override.
ImplementsFlagTable == Table!Spec

=============================================================================
