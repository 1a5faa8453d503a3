------------------------- MODULE FeatureFlagsProofs -------------------------
(***************************************************************************)
(* Proofs about FeatureFlags: what evaluations and toggles answer was in   *)
(* force, toggles do not fail each other, and the rows implement FlagTable, *)
(* for any number of requests, tenants, names and rows.                    *)
(***************************************************************************)
EXTENDS FeatureFlags, TLAPS

Globals(q) == GlobalValues(call[q].name)

\* Requests under way have no reply, and evaluations alone read in two steps.
Stepping(q) ==
    /\ reply[q] # "none" => at[q] = "done"
    /\ at[q] \in {"override", "global", "globals", "overrides"} => call[q].op # "toggle"

\* The history of a request under way has what is in force now.
Current(q) == Ongoing(q) => EffectiveFor(q) \subseteq inForce[q]

\* After its first read an evaluation knows as much as the layers that have not
\* changed since still say.
AskedOverride(q) ==
    at[q] = "global" =>
        /\ "global" \notin changed[q] => Globals(q) \subseteq inForce[q]
        /\ "override" \notin changed[q] => Override(q) = {}

ListedGlobals(q) ==
    at[q] = "overrides" =>
        /\ "global" \notin changed[q] => answer[q] \in Globals(q)
        /\ "override" \notin changed[q] /\ Override(q) = {} => answer[q] \in inForce[q]

\* The override an insert met is there, or was deleted.
MetOverride(q) == at[q] = "again" => Override(q) # {} \/ q \in vanished

Answered(q) ==
    /\ reply[q] = "ok" /\ changed[q] # {"override", "global"} => answer[q] \in inForce[q]
    /\ reply[q] = "integrity" => call[q].tenant \notin tenants \/ q \in vanished

Fine(q) ==
    /\ Stepping(q)
    /\ Current(q)
    /\ AskedOverride(q)
    /\ ListedGlobals(q)
    /\ MetOverride(q)
    /\ Answered(q)

IInv == TypeOK /\ \A q \in Calls : Fine(q)

-----------------------------------------------------------------------------
(* Rows and what requests see of them *)

LEMMA RequestTyped ==
    ASSUME TypeOK, NEW q \in Calls, at[q] # "new"
    PROVE  call[q] \in Requests /\ call[q].tenant \in Tenants /\ call[q].name \in Names
           /\ call[q].on \in BOOLEAN /\ call[q].tenant # None
  BY FeatureFlagsAssumption DEF TypeOK, Requests

LEMMA EffectiveTyped ==
    ASSUME TypeOK, NEW t, NEW n
    PROVE  Effective(t, n) \subseteq BOOLEAN /\ GlobalValues(n) \subseteq BOOLEAN
  <1>1. \A s, m : Values(s, m) \subseteq BOOLEAN
    BY DEF TypeOK, Values, Of, Flags
  <1>2. QED
    BY <1>1 DEF Effective, GlobalValues

\* A request sees the same as long as the rows and its call are the same.
LEMMA SameRows ==
    ASSUME rows' = rows, NEW q, call'[q] = call[q]
    PROVE  /\ Override(q)' = Override(q)
           /\ EffectiveFor(q)' = EffectiveFor(q)
           /\ Globals(q)' = Globals(q)
  BY DEF Override, EffectiveFor, Effective, Globals, GlobalValues, Values, Of

LEMMA SameLayers ==
    ASSUME NEW q, call'[q] = call[q]
    PROVE  /\ Layer(q, "override")' = Layer(q, "override") => Override(q)' = Override(q)
           /\ Layer(q, "global")' = Layer(q, "global") => Globals(q)' = Globals(q)
  BY DEF Layer, Override, Globals, GlobalValues, Values, Of

\* What is in force is the globals, where there is no override.
LEMMA NoOverride ==
    ASSUME NEW q, Override(q) = {}
    PROVE  EffectiveFor(q) = Globals(q)
  BY DEF Override, EffectiveFor, Effective, Globals

LEMMA WithOverride ==
    ASSUME NEW q, NEW i \in Override(q)
    PROVE  rows[i].on \in EffectiveFor(q)
  BY DEF Override, EffectiveFor, Effective, Values

\* The types of rows and requests, apart.
RowsTyped ==
    /\ tenants \subseteq Tenants
    /\ rows \in [Ids -> Flags \union {None}]
    /\ \A i \in Ids : rows[i] # None => rows[i].tenant \in tenants \union {None}
    /\ \A t \in tenants, n \in Names, i, j \in Ids : i \in Of(t, n) /\ j \in Of(t, n) => i = j

RequestsTyped ==
    /\ at \in [Calls -> Steps]
    /\ call \in [Calls -> Requests \union {None}]
    /\ \A q \in Calls : at[q] # "new" => call[q] # None
    /\ answer \in [Calls -> BOOLEAN]
    /\ reply \in [Calls -> {"none", "ok", "notfound", "integrity"}]

HistoryTyped ==
    /\ inForce \in [Calls -> SUBSET BOOLEAN]
    /\ changed \in [Calls -> SUBSET {"override", "global"}]
    /\ vanished \subseteq Calls

LEMMA TypesApart == TypeOK <=> RowsTyped /\ RequestsTyped /\ HistoryTyped
  BY DEF TypeOK, RowsTyped, RequestsTyped, HistoryTyped

LEMMA TypesTogether ==
    ASSUME RowsTyped', RequestsTyped', HistoryTyped'
    PROVE  TypeOK'
  BY DEF TypeOK, RowsTyped, RequestsTyped, HistoryTyped

LEMMA SameRowsTyped ==
    ASSUME RowsTyped, UNCHANGED tables
    PROVE  RowsTyped'
  BY DEF RowsTyped, tables, Of

LEMMA ObserveTyped ==
    ASSUME HistoryTyped, RowsTyped', RequestsTyped', Observe
    PROVE  HistoryTyped'
  <1>1. ASSUME NEW q \in Calls PROVE EffectiveFor(q)' \subseteq BOOLEAN
    <2>1. \A s, m : Values(s, m)' \subseteq BOOLEAN
      BY DEF RowsTyped, Values, Of, Flags
    <2>2. QED
      BY <2>1 DEF EffectiveFor, Effective, GlobalValues
  <1>2. QED
    BY <1>1 DEF HistoryTyped, Observe

-----------------------------------------------------------------------------
(* Requests that do not take the step *)

Same(p) ==
    /\ at'[p] = at[p] /\ call'[p] = call[p]
    /\ answer'[p] = answer[p] /\ reply'[p] = reply[p]

LEMMA Untouched ==
    ASSUME NEW p \in Calls, Fine(p), Same(p), UNCHANGED tables,
           inForce'[p] = inForce[p], changed'[p] = changed[p], vanished' = vanished
    PROVE  Fine(p)'
  <1>1. /\ rows' = rows /\ tenants' = tenants
        /\ Override(p)' = Override(p) /\ EffectiveFor(p)' = EffectiveFor(p)
        /\ Globals(p)' = Globals(p)
    BY SameRows DEF tables, Same
  <1>2. Stepping(p)' /\ Current(p)' /\ MetOverride(p)'
    BY <1>1 DEF Fine, Same, Stepping, Current, MetOverride, Ongoing
  <1>3. AskedOverride(p)' /\ ListedGlobals(p)' /\ Answered(p)'
    BY <1>1 DEF Fine, Same, AskedOverride, ListedGlobals, Answered
  <1>4. QED
    BY <1>2, <1>3 DEF Fine

\* Rows change, and what a request has read stays as good as it must be.
LEMMA Observing ==
    ASSUME NEW p \in Calls, Fine(p), Same(p), Observe, tenants' \subseteq tenants
    PROVE  Fine(p)'
  <1>1. CASE ~ Ongoing(p)
    <2>1. inForce'[p] = inForce[p] /\ changed'[p] = changed[p] /\ (p \in vanished <=> p \in vanished')
      BY <1>1 DEF Observe, Ongoing, Evaluating
    <2>2. Answered(p)'
      BY <2>1 DEF Fine, Answered, Same
    <2>3. Stepping(p)' /\ Current(p)' /\ AskedOverride(p)' /\ ListedGlobals(p)' /\ MetOverride(p)'
      BY <1>1 DEF Fine, Same, Ongoing, Stepping, Current, AskedOverride, ListedGlobals, MetOverride
    <2>4. QED
      BY <2>2, <2>3 DEF Fine
  <1>2. CASE Ongoing(p)
    <2>1. /\ inForce'[p] = inForce[p] \union EffectiveFor(p)'
          /\ changed[p] \subseteq changed'[p]
          /\ vanished \subseteq vanished'
      BY <1>2 DEF Observe
    <2>2. Stepping(p)' /\ Current(p)' /\ Answered(p)'
      <3>1. reply[p] = "none"
        BY <1>2 DEF Fine, Stepping, Ongoing
      <3>2. QED
        BY <1>2, <2>1, <3>1 DEF Fine, Same, Stepping, Current, Answered
    <2>3. MetOverride(p)'
      BY <2>1 DEF Observe, Fine, Same, MetOverride
    <2>4. ASSUME Evaluating(p), NEW l \in {"override", "global"}, l \notin changed'[p]
          PROVE  l \notin changed[p] /\ Layer(p, l)' = Layer(p, l)
      BY <2>1, <2>4 DEF Observe
    <2>5. Evaluating(p) =>
            /\ "override" \notin changed'[p] => Override(p)' = Override(p)
            /\ "global" \notin changed'[p] => Globals(p)' = Globals(p)
      BY <2>4, SameLayers DEF Same
    <2>6. AskedOverride(p)'
      <3>1. CASE at[p] = "global"
        <4>1. Evaluating(p)
          BY <1>2, <3>1 DEF Fine, Stepping, Evaluating
        <4>2. QED
          BY <2>1, <2>4, <2>5, <3>1, <4>1 DEF Fine, Same, AskedOverride
      <3>2. QED
        BY <3>1 DEF Same, AskedOverride
    <2>7. ListedGlobals(p)'
      <3>1. CASE at[p] = "overrides"
        <4>1. Evaluating(p)
          BY <1>2, <3>1 DEF Fine, Stepping, Evaluating
        <4>2. QED
          BY <2>1, <2>4, <2>5, <3>1, <4>1 DEF Fine, Same, ListedGlobals
      <3>2. QED
        BY <3>1 DEF Same, ListedGlobals
    <2>8. QED
      BY <2>2, <2>3, <2>6, <2>7 DEF Fine
  <1>3. QED
    BY <1>1, <1>2

LEMMA UntouchedAll ==
    ASSUME \A p \in Calls : Fine(p), NEW q \in Calls, UNCHANGED <<tables, history>>,
           \A p \in Calls \ {q} : Same(p)
    PROVE  \A p \in Calls \ {q} : Fine(p)'
  BY Untouched DEF history

LEMMA ObservingAll ==
    ASSUME \A p \in Calls : Fine(p), NEW q \in Calls, Observe, tenants' \subseteq tenants,
           \A p \in Calls \ {q} : Same(p)
    PROVE  \A p \in Calls \ {q} : Fine(p)'
  BY Observing

-----------------------------------------------------------------------------
(* The steps of a request *)

\* A statement that changes no row changes one request only.
LEMMA LocalStep ==
    ASSUME IInv, NEW q \in Calls, UNCHANGED tables, UNCHANGED history,
           RequestsTyped', \A p \in Calls \ {q} : Same(p), Fine(q)'
    PROVE  IInv'
  <1>1. RowsTyped' /\ HistoryTyped'
    BY SameRowsTyped, TypesApart DEF IInv, history, HistoryTyped
  <1>2. \A p \in Calls \ {q} : Fine(p)'
    BY UntouchedAll DEF IInv
  <1>3. QED
    BY <1>1, <1>2, TypesTogether DEF IInv

\* Moving on to another statement of the same request.
LEMMA GotoSame ==
    ASSUME RequestsTyped, NEW q \in Calls, NEW s \in Steps, at[q] # "new",
           Goto(q, s), UNCHANGED <<call, answer, reply>>
    PROVE  /\ RequestsTyped'
           /\ at'[q] = s
           /\ \A p \in Calls \ {q} : Same(p)
  BY DEF RequestsTyped, Goto, Same, Steps

LEMMA RespondSame ==
    ASSUME RequestsTyped, NEW q \in Calls, NEW r \in {"ok", "notfound", "integrity"},
           at[q] # "new", Respond(q, r), UNCHANGED <<call, answer>>
    PROVE  /\ RequestsTyped'
           /\ at'[q] = "done" /\ reply'[q] = r
           /\ \A p \in Calls \ {q} : Same(p)
  BY DEF RequestsTyped, Respond, Goto, Same, Steps

LEMMA SaySame ==
    ASSUME RequestsTyped, NEW q \in Calls, NEW v \in BOOLEAN, at[q] # "new",
           Say(q, v), UNCHANGED call
    PROVE  /\ RequestsTyped'
           /\ at'[q] = "done" /\ reply'[q] = "ok" /\ answer'[q] = v
           /\ \A p \in Calls \ {q} : Same(p)
  BY DEF RequestsTyped, Say, Respond, Goto, Same, Steps

\* An evaluation answers what was in force, unless both layers have changed.
LEMMA SayStep ==
    ASSUME IInv, NEW q \in Calls, NEW v \in BOOLEAN, at[q] # "new",
           Say(q, v), UNCHANGED <<tables, call, history>>,
           changed[q] # {"override", "global"} => v \in inForce[q]
    PROVE  IInv'
  <1>1. /\ RequestsTyped' /\ at'[q] = "done" /\ reply'[q] = "ok" /\ answer'[q] = v
        /\ \A p \in Calls \ {q} : Same(p)
    BY SaySame, TypesApart DEF IInv
  <1>2. Fine(q)'
    BY <1>1 DEF Fine, Stepping, Current, Ongoing, AskedOverride, ListedGlobals, MetOverride,
                Answered, history
  <1>3. QED
    BY <1>1, <1>2, LocalStep

LEMMA FailStep ==
    ASSUME IInv, NEW q \in Calls, NEW r \in {"notfound", "integrity"}, at[q] # "new",
           Respond(q, r), UNCHANGED <<tables, call, answer, history>>,
           r = "integrity" => call[q].tenant \notin tenants \/ q \in vanished
    PROVE  IInv'
  <1>1. /\ RequestsTyped' /\ at'[q] = "done" /\ reply'[q] = r
        /\ \A p \in Calls \ {q} : Same(p)
    BY RespondSame, TypesApart DEF IInv
  <1>2. Fine(q)'
    BY <1>1 DEF Fine, Stepping, Current, Ongoing, AskedOverride, ListedGlobals, MetOverride,
                Answered, tables, history
  <1>3. QED
    BY <1>1, <1>2, LocalStep

LEMMA GotoStep ==
    ASSUME IInv, NEW q \in Calls, NEW s \in Steps \ {"new", "done"}, Ongoing(q),
           Goto(q, s), UNCHANGED <<tables, call, answer, reply, history>>,
           s \in {"override", "global", "globals", "overrides"} => call[q].op # "toggle",
           s = "global" => Override(q) = {},
           s = "overrides" => FALSE,
           s = "again" => Override(q) # {}
    PROVE  IInv'
  <1>1. /\ RequestsTyped' /\ at'[q] = s /\ \A p \in Calls \ {q} : Same(p)
    BY GotoSame, TypesApart DEF IInv, Ongoing
  <1>2. /\ call'[q] = call[q] /\ reply'[q] = reply[q] /\ inForce' = inForce
        /\ vanished' = vanished /\ rows' = rows
    BY DEF history, tables
  <1>3. /\ Override(q)' = Override(q) /\ EffectiveFor(q)' = EffectiveFor(q)
        /\ Globals(q)' = Globals(q)
    BY <1>2, SameRows
  <1>4. reply[q] = "none" /\ EffectiveFor(q) \subseteq inForce[q]
    BY DEF IInv, Fine, Stepping, Current, Ongoing
  <1>5. Stepping(q)' /\ Current(q)' /\ ListedGlobals(q)' /\ MetOverride(q)' /\ Answered(q)'
    BY <1>1, <1>2, <1>3, <1>4 DEF Stepping, Current, ListedGlobals, MetOverride, Answered
  <1>6. AskedOverride(q)'
    BY <1>1, <1>2, <1>3, <1>4, NoOverride DEF AskedOverride
  <1>7. QED
    BY <1>1, <1>5, <1>6, LocalStep DEF Fine

-----------------------------------------------------------------------------
(* One lemma for each action that changes no row *)

LEMMA ReceiveSafe ==
    ASSUME IInv, NEW q \in Calls, NEW c \in Requests, Receive(q, c)
    PROVE  IInv'
  <1>1. reply[q] = "none" /\ changed[q] = changed'[q] /\ rows' = rows
    BY DEF IInv, Fine, Stepping, Receive, tables
  <1>2. /\ at'[q] \in {"override", "tenant"} /\ call'[q] = c /\ reply'[q] = "none"
        /\ at'[q] = "override" => c.op # "toggle"
        /\ inForce'[q] = Effective(c.tenant, c.name)
    BY <1>1, TypesApart DEF IInv, Receive, Goto, RequestsTyped, HistoryTyped
  <1>3. RequestsTyped'
    BY TypesApart, FeatureFlagsAssumption DEF IInv, Receive, Goto, RequestsTyped, Steps
  <1>4. RowsTyped' /\ HistoryTyped'
    BY SameRowsTyped, TypesApart, EffectiveTyped DEF IInv, Receive, HistoryTyped
  <1>5. ASSUME NEW p \in Calls, p # q PROVE Fine(p)'
    <2>1. Same(p) /\ inForce'[p] = inForce[p] /\ changed' = changed /\ vanished' = vanished
      BY <1>5, TypesApart DEF IInv, Receive, Goto, Same, RequestsTyped, HistoryTyped
    <2>2. QED
      BY <2>1, Untouched DEF IInv, Receive
  <1>6. EffectiveFor(q)' = Effective(c.tenant, c.name)
    BY <1>1, <1>2 DEF EffectiveFor, Effective, GlobalValues, Values, Of
  <1>7. Fine(q)'
    BY <1>2, <1>6 DEF Fine, Stepping, Current, AskedOverride, ListedGlobals, MetOverride, Answered
  <1>8. QED
    BY <1>3, <1>4, <1>5, <1>7, TypesTogether DEF IInv

LEMMA GetTenantSafe ==
    ASSUME IInv, NEW q \in Calls, GetTenant(q)
    PROVE  IInv'
  <1>1. CASE call[q].tenant \in tenants
    <2>1. PICK s \in {"globals", "find"} :
              Goto(q, s) /\ (s = "globals" => call[q].op # "toggle")
      BY <1>1 DEF GetTenant
    <2>2. QED
      BY <1>1, <2>1, GotoStep DEF GetTenant, Ongoing, Steps
  <1>2. CASE call[q].tenant \notin tenants
    BY <1>2, FailStep DEF GetTenant
  <1>3. QED
    BY <1>1, <1>2

LEMMA AskOverrideSafe ==
    ASSUME IInv, NEW q \in Calls, AskOverride(q)
    PROVE  IInv'
  <1>1. CASE \E i \in Override(q) : Say(q, rows[i].on)
    <2>1. PICK i \in Override(q) : Say(q, rows[i].on)
      BY <1>1
    <2>2. rows[i].on \in EffectiveFor(q) /\ EffectiveFor(q) \subseteq inForce[q]
      BY WithOverride DEF IInv, Fine, Current, Ongoing, AskOverride
    <2>3. rows[i].on \in BOOLEAN
      BY <2>2, EffectiveTyped DEF IInv, EffectiveFor
    <2>4. QED
      BY <2>1, <2>2, <2>3, SayStep DEF AskOverride
  <1>2. CASE Override(q) = {} /\ Goto(q, "global") /\ UNCHANGED <<answer, reply>>
    <2>1. call[q].op # "toggle"
      BY DEF IInv, Fine, Stepping, AskOverride
    <2>2. QED
      BY <1>2, <2>1, GotoStep DEF AskOverride, Ongoing, Steps
  <1>3. QED
    BY <1>1, <1>2 DEF AskOverride

LEMMA AskGlobalSafe ==
    ASSUME IInv, NEW q \in Calls, AskGlobal(q)
    PROVE  IInv'
  <1>1. PICK v \in Globals(q) : Say(q, v)
    BY DEF AskGlobal, Globals
  <1>2. v \in BOOLEAN
    BY EffectiveTyped DEF IInv, Globals
  <1>3. /\ EffectiveFor(q) \subseteq inForce[q]
        /\ "global" \notin changed[q] => Globals(q) \subseteq inForce[q]
        /\ "override" \notin changed[q] => Override(q) = {}
    BY DEF IInv, Fine, Current, AskedOverride, AskGlobal, Ongoing
  <1>4. changed[q] # {"override", "global"} => v \in inForce[q]
    <2>1. changed[q] \subseteq {"override", "global"}
      BY DEF IInv, TypeOK
    <2>2. QED
      BY <1>3, <2>1, NoOverride
  <1>5. QED
    BY <1>1, <1>2, <1>4, SayStep DEF AskGlobal

LEMMA ListGlobalsSafe ==
    ASSUME IInv, NEW q \in Calls, ListGlobals(q)
    PROVE  IInv'
  <1>1. PICK v \in Globals(q) : answer' = [answer EXCEPT ![q] = v]
    BY DEF ListGlobals, Globals
  <1>2. v \in BOOLEAN
    BY EffectiveTyped DEF IInv, Globals
  <1>3. RequestsTyped' /\ \A p \in Calls \ {q} : Same(p)
    BY <1>1, <1>2, TypesApart DEF IInv, ListGlobals, Goto, RequestsTyped, Same, Steps
  <1>4. /\ at[q] = "globals" /\ at'[q] = "overrides" /\ answer'[q] = v /\ call'[q] = call[q]
        /\ reply'[q] = reply[q] /\ inForce' = inForce /\ rows' = rows
    BY <1>1, TypesApart DEF IInv, ListGlobals, Goto, RequestsTyped, history, tables
  <1>5. /\ Override(q)' = Override(q) /\ EffectiveFor(q)' = EffectiveFor(q)
        /\ Globals(q)' = Globals(q)
    BY <1>4, SameRows
  <1>6. reply[q] = "none" /\ EffectiveFor(q) \subseteq inForce[q] /\ call[q].op # "toggle"
    BY <1>4 DEF IInv, Fine, Stepping, Current, Ongoing
  <1>7. Stepping(q)' /\ Current(q)' /\ AskedOverride(q)' /\ MetOverride(q)' /\ Answered(q)'
    BY <1>4, <1>5, <1>6 DEF Stepping, Current, AskedOverride, MetOverride, Answered
  <1>8. ListedGlobals(q)'
    BY <1>4, <1>5, <1>6, NoOverride DEF ListedGlobals
  <1>9. QED
    BY <1>3, <1>7, <1>8, LocalStep DEF Fine, ListGlobals

LEMMA ListOverridesSafe ==
    ASSUME IInv, NEW q \in Calls, ListOverrides(q)
    PROVE  IInv'
  <1>1. /\ EffectiveFor(q) \subseteq inForce[q]
        /\ "global" \notin changed[q] => answer[q] \in Globals(q)
        /\ "override" \notin changed[q] /\ Override(q) = {} => answer[q] \in inForce[q]
    BY DEF IInv, Fine, Current, ListedGlobals, ListOverrides, Ongoing
  <1>2. changed[q] \subseteq {"override", "global"} /\ answer[q] \in BOOLEAN
    BY DEF IInv, TypeOK
  <1>3. CASE Override(q) = {}
    <2>1. Say(q, answer[q])
      BY <1>3 DEF ListOverrides
    <2>2. changed[q] # {"override", "global"} => answer[q] \in inForce[q]
      BY <1>1, <1>2, <1>3, NoOverride
    <2>3. QED
      BY <1>2, <2>1, <2>2, SayStep DEF ListOverrides
  <1>4. CASE Override(q) # {}
    <2>1. PICK v \in EffectiveFor(q) : Say(q, v)
      BY <1>4 DEF ListOverrides, EffectiveFor, Effective, Override
    <2>2. v \in BOOLEAN
      BY EffectiveTyped DEF IInv, EffectiveFor
    <2>3. QED
      BY <1>1, <2>1, <2>2, SayStep DEF ListOverrides
  <1>5. QED
    BY <1>3, <1>4

-----------------------------------------------------------------------------
(* Steps that change rows *)

\* What a toggle reports is in force at the moment it commits.
LEMMA ToggleStep ==
    ASSUME IInv, NEW q \in Calls, at[q] \in {"find", "insert", "again"},
           Say(q, call[q].on), UNCHANGED <<tenants, call>>, Observe, RowsTyped',
           call[q].on \in EffectiveFor(q)'
    PROVE  IInv'
  <1>1. call[q].on \in BOOLEAN
    BY RequestTyped DEF IInv
  <1>2. /\ RequestsTyped' /\ at'[q] = "done" /\ reply'[q] = "ok" /\ answer'[q] = call[q].on
        /\ \A p \in Calls \ {q} : Same(p)
    BY <1>1, SaySame, TypesApart DEF IInv
  <1>3. HistoryTyped'
    BY <1>2, ObserveTyped, TypesApart DEF IInv
  <1>4. answer'[q] \in inForce'[q]
    BY <1>2 DEF Observe, Ongoing
  <1>5. Fine(q)'
    BY <1>2, <1>4 DEF Fine, Stepping, Current, Ongoing, AskedOverride, ListedGlobals,
                      MetOverride, Answered
  <1>6. \A p \in Calls \ {q} : Fine(p)'
    BY <1>2, ObservingAll DEF IInv
  <1>7. QED
    BY <1>2, <1>3, <1>5, <1>6, TypesTogether DEF IInv

LEMMA UpdateSafe ==
    ASSUME IInv, NEW q \in Calls, at[q] \in {"find", "again"}, Update(q)
    PROVE  IInv'
  <1>1. PICK i \in Override(q) : rows' = [rows EXCEPT ![i].on = call[q].on]
    BY DEF Update
  <1>2. call[q].on \in BOOLEAN /\ i \in Ids /\ rows[i] # None /\ rows[i] \in Flags
    BY RequestTyped DEF IInv, TypeOK, Override, Of
  <1>3. /\ rows'[i] = [rows[i] EXCEPT !.on = call[q].on]
        /\ \A j \in Ids : j # i => rows'[j] = rows[j]
        /\ rows' \in [Ids -> Flags \union {None}]
    BY <1>1, <1>2 DEF IInv, TypeOK, Flags
  <1>4. /\ rows'[i] # None /\ rows'[i].on = call[q].on
        /\ rows'[i].tenant = rows[i].tenant /\ rows'[i].name = rows[i].name
    BY <1>2, <1>3, FeatureFlagsAssumption DEF Flags
  <1>5. \A t, n : Of(t, n)' = Of(t, n)
    BY <1>2, <1>3, <1>4 DEF Of
  <1>6. RowsTyped'
    <2>1. \A j \in Ids : rows'[j] # None => rows'[j].tenant \in tenants \union {None}
      BY <1>2, <1>3, <1>4 DEF IInv, TypeOK
    <2>2. \A t \in tenants, n \in Names, j, k \in Ids :
              j \in Of(t, n)' /\ k \in Of(t, n)' => j = k
      BY <1>5 DEF IInv, TypeOK
    <2>3. tenants' = tenants /\ tenants \subseteq Tenants
      BY DEF IInv, TypeOK, Update
    <2>4. QED
      BY <1>3, <2>1, <2>2, <2>3 DEF RowsTyped
  <1>7. call[q].on \in EffectiveFor(q)'
    <2>1. i \in Of(call[q].tenant, call[q].name)' /\ call' = call
      BY <1>2, <1>3, <1>4 DEF Of, Override, Update
    <2>2. rows'[i].on \in Effective(call[q].tenant, call[q].name)'
      BY <2>1 DEF Effective, Values, Of, Update
    <2>3. QED
      BY <1>4, <2>1, <2>2 DEF EffectiveFor, Effective, Values, GlobalValues, Of
  <1>8. QED
    BY <1>6, <1>7, ToggleStep DEF Update

LEMMA CreateSafe ==
    ASSUME IInv, NEW q \in Calls, at[q] = "insert", Create(q)
    PROVE  IInv'
  <1> DEFINE f == [tenant |-> call[q].tenant, name |-> call[q].name, on |-> call[q].on]
  <1>1. PICK i \in Ids : rows[i] = None /\ rows' = [rows EXCEPT ![i] = f]
    BY DEF Create
  <1>2. /\ call[q].tenant \in tenants /\ call[q].tenant # None
        /\ call[q].on \in BOOLEAN /\ call[q].name \in Names
        /\ call[q].tenant \in Tenants
    BY RequestTyped DEF IInv, Create
  <1>3. f \in Flags /\ f # None
    BY <1>2, FeatureFlagsAssumption DEF Flags
  <1>4. /\ rows' \in [Ids -> Flags \union {None}]
        /\ rows'[i] = f /\ \A j \in Ids : j # i => rows'[j] = rows[j]
    BY <1>1, <1>3 DEF IInv, TypeOK
  <1>5. \A t, n : Of(t, n)' = IF t = f.tenant /\ n = f.name THEN {i} ELSE Of(t, n)
    BY <1>1, <1>3, <1>4 DEF Of, Create, Override
  <1>6. RowsTyped'
    <2>1. \A j \in Ids : rows'[j] # None => rows'[j].tenant \in tenants \union {None}
      BY <1>2, <1>4 DEF IInv, TypeOK
    <2>2. QED
      BY <1>4, <1>5, <2>1 DEF IInv, TypeOK, RowsTyped, Create
  <1>7. call[q].on \in EffectiveFor(q)'
    BY <1>3, <1>4 DEF EffectiveFor, Effective, Values, Of, Create
  <1>8. QED
    BY <1>6, <1>7, ToggleStep DEF Create

LEMMA FindFlagSafe ==
    ASSUME IInv, NEW q \in Calls, FindFlag(q)
    PROVE  IInv'
  BY UpdateSafe, GotoStep DEF FindFlag, Ongoing, Steps

LEMMA InsertFlagSafe ==
    ASSUME IInv, NEW q \in Calls, InsertFlag(q)
    PROVE  IInv'
  BY CreateSafe, FailStep, GotoStep DEF InsertFlag, Ongoing, Steps

LEMMA FindAgainSafe ==
    ASSUME IInv, NEW q \in Calls, FindAgain(q)
    PROVE  IInv'
  <1>1. CASE Update(q)
    BY <1>1, UpdateSafe DEF FindAgain
  <1>2. CASE Override(q) = {} /\ Respond(q, "integrity")
             /\ UNCHANGED <<tables, call, answer, history>>
    <2>1. q \in vanished
      BY <1>2 DEF IInv, Fine, MetOverride, FindAgain
    <2>2. QED
      BY <1>2, <2>1, FailStep DEF FindAgain
  <1>3. QED
    BY <1>1, <1>2 DEF FindAgain

\* The admin site changes rows and no request.
LEMMA AdminStep ==
    ASSUME IInv, RowsTyped', UNCHANGED request, Observe, tenants' \subseteq tenants
    PROVE  IInv'
  <1>1. RequestsTyped'
    BY TypesApart DEF IInv, RequestsTyped, request
  <1>2. HistoryTyped'
    BY <1>1, ObserveTyped, TypesApart DEF IInv
  <1>3. \A p \in Calls : Fine(p)'
    BY Observing DEF IInv, Same, request
  <1>4. QED
    BY <1>1, <1>2, <1>3, TypesTogether DEF IInv

LEMMA SaveFlagSafe ==
    ASSUME IInv, NEW i \in Ids, NEW f \in Flags, SaveFlag(i, f)
    PROVE  IInv'
  <1>1. f # None /\ f.tenant \in tenants \union {None}
    BY FeatureFlagsAssumption DEF SaveFlag
  <1>2. /\ rows' \in [Ids -> Flags \union {None}]
        /\ rows'[i] = f /\ \A j \in Ids : j # i => rows'[j] = rows[j]
    BY DEF IInv, TypeOK, SaveFlag
  <1>3. \A t, n : Of(t, n)' = IF t = f.tenant /\ n = f.name
                              THEN Of(t, n) \union {i} ELSE Of(t, n) \ {i}
    BY <1>1, <1>2 DEF Of
  <1>4. \A j \in Ids : rows'[j] # None => rows'[j].tenant \in tenants \union {None}
    BY <1>1, <1>2 DEF IInv, TypeOK
  <1>5. None \notin tenants
    BY FeatureFlagsAssumption DEF IInv, TypeOK
  <1>6. \A t \in tenants, n \in Names, j, k \in Ids :
            j \in Of(t, n)' /\ k \in Of(t, n)' => j = k
    BY <1>3, <1>5 DEF IInv, TypeOK, SaveFlag
  <1>7. RowsTyped'
    BY <1>2, <1>4, <1>6 DEF IInv, TypeOK, RowsTyped, SaveFlag
  <1>8. QED
    BY <1>7, AdminStep DEF SaveFlag

LEMMA DeleteFlagSafe ==
    ASSUME IInv, NEW i \in Ids, DeleteFlag(i)
    PROVE  IInv'
  <1>1. /\ rows' \in [Ids -> Flags \union {None}]
        /\ \A j \in Ids : rows'[j] # None => rows'[j] = rows[j]
    BY DEF IInv, TypeOK, DeleteFlag
  <1>2. \A t, n : Of(t, n)' \subseteq Of(t, n)
    BY <1>1 DEF Of
  <1>3. RowsTyped'
    BY <1>1, <1>2 DEF IInv, TypeOK, RowsTyped, DeleteFlag
  <1>4. QED
    BY <1>3, AdminStep DEF DeleteFlag

LEMMA DeleteTenantSafe ==
    ASSUME IInv, NEW t \in Tenants, DeleteTenant(t)
    PROVE  IInv'
  <1>1. /\ rows' \in [Ids -> Flags \union {None}]
        /\ \A j \in Ids : rows'[j] # None => rows'[j] = rows[j] /\ rows[j].tenant # t
    BY DEF IInv, TypeOK, DeleteTenant
  <1>2. \A s, n : Of(s, n)' \subseteq Of(s, n)
    BY <1>1 DEF Of
  <1>3. RowsTyped'
    BY <1>1, <1>2 DEF IInv, TypeOK, RowsTyped, DeleteTenant
  <1>4. QED
    BY <1>3, AdminStep DEF DeleteTenant

-----------------------------------------------------------------------------
LEMMA InitSafe == Init => IInv
  BY DEF Init, IInv, TypeOK, Of, Steps, Fine, Stepping, Current, Ongoing, AskedOverride,
         ListedGlobals, MetOverride, Answered

LEMMA StutterSafe ==
    ASSUME IInv, UNCHANGED vars
    PROVE  IInv'
  <1>1. RowsTyped' /\ RequestsTyped' /\ HistoryTyped'
    BY SameRowsTyped, TypesApart DEF IInv, vars, request, history, RequestsTyped, HistoryTyped
  <1>2. \A p \in Calls : Fine(p)'
    BY Untouched DEF IInv, vars, request, history, Same
  <1>3. QED
    BY <1>1, <1>2, TypesTogether DEF IInv

LEMMA NextSafe == IInv /\ [Next]_vars => IInv'
  <1> SUFFICES ASSUME IInv, [Next]_vars PROVE IInv'
    OBVIOUS
  <1>1. ASSUME NEW q \in Calls, NEW c \in Requests, Receive(q, c) PROVE IInv'
    BY <1>1, ReceiveSafe
  <1>2. ASSUME NEW q \in Calls, GetTenant(q) \/ AskOverride(q) \/ AskGlobal(q) PROVE IInv'
    BY <1>2, GetTenantSafe, AskOverrideSafe, AskGlobalSafe
  <1>3. ASSUME NEW q \in Calls, ListGlobals(q) \/ ListOverrides(q) PROVE IInv'
    BY <1>3, ListGlobalsSafe, ListOverridesSafe
  <1>4. ASSUME NEW q \in Calls, FindFlag(q) \/ InsertFlag(q) \/ FindAgain(q) PROVE IInv'
    BY <1>4, FindFlagSafe, InsertFlagSafe, FindAgainSafe
  <1>5. ASSUME NEW i \in Ids, DeleteFlag(i) \/ \E f \in Flags : SaveFlag(i, f) PROVE IInv'
    BY <1>5, DeleteFlagSafe, SaveFlagSafe
  <1>6. ASSUME NEW t \in Tenants, DeleteTenant(t) PROVE IInv'
    BY <1>6, DeleteTenantSafe
  <1>7. QED
    BY <1>1, <1>2, <1>3, <1>4, <1>5, <1>6, StutterSafe DEF Next

\* The inductive invariant: what a request has read is as good as the layers that
\* have not changed since make it.
THEOREM Invariance == Spec => []IInv
  BY InitSafe, NextSafe, PTL DEF Spec

\* Rows and requests have their types, a tenant has one override of a name, and
\* every override is of a tenant that exists.
THEOREM TypeCorrect == Spec => []TypeOK
  <1>1. IInv => TypeOK
    BY DEF IInv
  <1>2. QED
    BY <1>1, Invariance, PTL

\* An evaluation answers with a value that was in force during it, unless both
\* the override and the global flags change meanwhile; a toggle always does.
THEOREM Evaluations == Spec => []AnswersWereInForce
  <1>1. IInv => AnswersWereInForce
    BY DEF IInv, Fine, Answered, AnswersWereInForce
  <1>2. QED
    BY <1>1, Invariance, PTL

\* Toggles of one flag never make each other fail.
THEOREM Toggles == Spec => []TogglesDoNotCollide
  <1>1. IInv => TogglesDoNotCollide
    BY DEF IInv, Fine, Answered, TogglesDoNotCollide
  <1>2. QED
    BY <1>1, Invariance, PTL

-----------------------------------------------------------------------------
(* FeatureFlags implements FlagTable *)

\* What a request has been called with, by its position.
Placed(q) ==
    /\ at[q] = "new" => call[q] = None
    /\ at[q] = "tenant" => call[q].op # "ask"
    /\ at[q] \in {"find", "insert", "again"} => Toggling(q)

AllPlaced == \A q \in Calls : Placed(q)

LEMMA InitPlaced == Init => AllPlaced
  BY DEF Init, AllPlaced, Placed

LEMMA NextPlaced == IInv /\ AllPlaced /\ [Next]_vars => AllPlaced'
  <1> SUFFICES ASSUME IInv, AllPlaced, [Next]_vars, NEW p \in Calls PROVE Placed(p)'
    BY DEF AllPlaced
  <1>1. /\ at \in [Calls -> Steps] /\ call \in [Calls -> Requests \union {None}]
        /\ \A q \in Calls : at[q] # "new" => call[q] \in Requests /\ call[q] # None
        /\ \A q \in Calls : Placed(q)
    BY FeatureFlagsAssumption DEF IInv, TypeOK, AllPlaced
  <1>2. ASSUME NEW q \in Calls, NEW c \in Requests, Receive(q, c) PROVE Placed(p)'
    BY <1>1, <1>2 DEF Receive, Goto, Placed, Toggling
  <1>3. ASSUME NEW q \in Calls, GetTenant(q) PROVE Placed(p)'
    <2>1. call' = call /\ (p # q => at'[p] = at[p]) /\ at'[q] \in {"globals", "find", "done"}
          /\ (at'[q] = "find" => Toggling(q))
      BY <1>1, <1>3 DEF GetTenant, Goto, Respond, Placed, Toggling, Requests
    <2>2. QED
      BY <1>1, <2>1 DEF Placed, Toggling
  <1>4. ASSUME NEW q \in Calls, AskOverride(q) \/ AskGlobal(q) \/ ListGlobals(q) \/ ListOverrides(q)
        PROVE  Placed(p)'
    <2>1. call' = call /\ (p # q => at'[p] = at[p]) /\ at'[q] \in {"global", "overrides", "done"}
      BY <1>1, <1>4 DEF AskOverride, AskGlobal, ListGlobals, ListOverrides, Goto, Say, Respond
    <2>2. QED
      BY <1>1, <2>1 DEF Placed, Toggling
  <1>5. ASSUME NEW q \in Calls, FindFlag(q) \/ InsertFlag(q) \/ FindAgain(q)
        PROVE  Placed(p)'
    <2>1. call' = call /\ (p # q => at'[p] = at[p]) /\ at'[q] \in {"insert", "again", "done"}
          /\ at[q] \in {"find", "insert", "again"}
      BY <1>1, <1>5 DEF FindFlag, InsertFlag, FindAgain, Update, Create, Goto, Say, Respond
    <2>2. QED
      BY <1>1, <2>1 DEF Placed, Toggling
  <1>6. CASE UNCHANGED request
    BY <1>1, <1>6 DEF Placed, Toggling, request
  <1>7. QED
    BY <1>2, <1>3, <1>4, <1>5, <1>6 DEF Next, DeleteFlag, SaveFlag, DeleteTenant, vars

MInv == IInv /\ AllPlaced

\* With one row for each override its value is what that row says.
Determined ==
    /\ None \notin tenants
    /\ \A t \in Tenants, n \in Names :
        /\ Of(t, n) # {} => t \in tenants
        /\ \A i \in Of(t, n) : ValueAt(t, n) = rows[i].on /\ rows[i].on \in BOOLEAN

LEMMA RowsDetermine == RowsTyped => Determined
  <1> SUFFICES ASSUME RowsTyped PROVE Determined
    OBVIOUS
  <1>1. None \notin Tenants /\ tenants \subseteq Tenants
    BY FeatureFlagsAssumption DEF RowsTyped
  <1>2. ASSUME NEW t \in Tenants, NEW n \in Names, NEW i \in Of(t, n)
        PROVE  t \in tenants /\ ValueAt(t, n) = rows[i].on /\ rows[i].on \in BOOLEAN
    <2>1. i \in Ids /\ rows[i] # None /\ rows[i].tenant = t /\ rows[i] \in Flags
      BY DEF Of, RowsTyped
    <2>2. t \in tenants
      BY <1>1, <2>1 DEF RowsTyped
    <2>3. Of(t, n) = {i}
      BY <2>2 DEF RowsTyped, Of
    <2>4. Values(t, n) = {rows[i].on}
      BY <2>3 DEF Values
    <2>5. QED
      BY <2>1, <2>2, <2>3, <2>4 DEF ValueAt, Flags
  <1>3. QED
    BY <1>1, <1>2 DEF Determined

\* The cell of a tenant and a name keeps its value if its rows do.
LEMMA SameCell ==
    ASSUME NEW t, NEW n, Of(t, n)' = Of(t, n), \A i \in Of(t, n) : rows'[i].on = rows[i].on
    PROVE  ValueAt(t, n)' = ValueAt(t, n)
  <1>1. Values(t, n)' = Values(t, n)
    BY DEF Values
  <1>2. QED
    BY <1>1 DEF ValueAt

LEMMA SameCells ==
    ASSUME rows' = rows
    PROVE  Overrides' = Overrides
  BY DEF Overrides, ValueAt, Values, Of

LEMMA SameToggles ==
    ASSUME call' = call, \A q \in Calls : Toggling(q) => reply'[q] = reply[q]
    PROVE  /\ [q \in Calls |-> Asked(q)]' = [q \in Calls |-> Asked(q)]
           /\ [q \in Calls |-> Outcome(q)]' = [q \in Calls |-> Outcome(q)]
  BY DEF Asked, Outcome, Toggling

LEMMA Stutters ==
    ASSUME UNCHANGED <<tables, call>>, \A q \in Calls : Toggling(q) => reply'[q] = reply[q]
    PROVE  UNCHANGED Table!tvars
  BY SameCells, SameToggles DEF tables, Table!tvars

\* A reply to a toggle is its outcome.
LEMMA ToggleAnswered ==
    ASSUME MInv, NEW q \in Calls, NEW r \in {"ok", "notfound", "integrity"}, Toggling(q),
           at[q] \notin {"new", "done"}, call' = call, Respond(q, r)
    PROVE  /\ Outcome(q) = "open"
           /\ [p \in Calls |-> Asked(p)]' = [p \in Calls |-> Asked(p)]
           /\ [p \in Calls |-> Outcome(p)]' =
                 [[p \in Calls |-> Outcome(p)] EXCEPT ![q] = IF r = "ok" THEN "made" ELSE "refused"]
  <1>1. reply[q] = "none" /\ reply' = [reply EXCEPT ![q] = r] /\ DOMAIN reply = Calls
    BY DEF MInv, IInv, Fine, Stepping, TypeOK, Respond
  <1>2. Outcome(q) = "open"
    BY <1>1 DEF Outcome
  <1>3. \A p \in Calls : Asked(p)' = Asked(p)
    BY DEF Asked, Toggling
  <1>4. \A p \in Calls : p # q => Outcome(p)' = Outcome(p)
    BY <1>1 DEF Outcome, Toggling
  <1>5. Outcome(q)' = IF r = "ok" THEN "made" ELSE "refused"
    BY <1>1 DEF Outcome, Toggling
  <1>6. QED
    BY <1>2, <1>3, <1>4, <1>5

LEMMA RefuseMaps ==
    ASSUME MInv, NEW q \in Calls, NEW r \in {"notfound", "integrity"}, Toggling(q),
           at[q] \notin {"new", "done"}, Respond(q, r), UNCHANGED <<tables, call>>
    PROVE  Table!Refuse(q)
  BY ToggleAnswered, SameCells DEF Table!Refuse, tables

\* A toggle that answers has set its cell.
LEMMA MakeMaps ==
    ASSUME MInv, NEW q \in Calls, Toggling(q), at[q] \in {"find", "insert", "again"},
           Say(q, call[q].on), UNCHANGED <<tenants, call>>, call[q].tenant \in tenants,
           ValueAt(call[q].tenant, call[q].name)' = call[q].on,
           \A t \in Tenants, n \in Names :
               <<t, n>> # <<call[q].tenant, call[q].name>> => ValueAt(t, n)' = ValueAt(t, n)
    PROVE  Table!Make(q)
  <1> DEFINE c == <<call[q].tenant, call[q].name>>
  <1>1. call[q].tenant \in Tenants /\ call[q].name \in Names
    BY RequestTyped DEF MInv, IInv
  <1>2. Overrides' = [Overrides EXCEPT ![c] = call[q].on]
    <2>1. ASSUME NEW d \in Tenants \X Names
          PROVE  ValueAt(d[1], d[2])' = IF d = c THEN call[q].on ELSE ValueAt(d[1], d[2])
      BY <1>1
    <2>2. QED
      BY <1>1, <2>1 DEF Overrides
  <1>3. Asked(q).tenant = call[q].tenant /\ Asked(q).name = call[q].name
        /\ Asked(q).on = call[q].on
    BY DEF Asked
  <1>4. /\ Outcome(q) = "open"
        /\ [p \in Calls |-> Asked(p)]' = [p \in Calls |-> Asked(p)]
        /\ [p \in Calls |-> Outcome(p)]' = [[p \in Calls |-> Outcome(p)] EXCEPT ![q] = "made"]
    BY ToggleAnswered DEF Say
  <1>5. QED
    BY <1>2, <1>3, <1>4 DEF Table!Make

LEMMA UpdateMaps ==
    ASSUME MInv, NEW q \in Calls, at[q] \in {"find", "again"}, Update(q)
    PROVE  Table!Make(q)
  <1>1. PICK i \in Override(q) : rows' = [rows EXCEPT ![i].on = call[q].on]
    BY DEF Update
  <1>2. /\ Toggling(q) /\ call[q].on \in BOOLEAN /\ i \in Ids /\ rows[i] # None
        /\ rows[i] \in Flags /\ rows[i].tenant = call[q].tenant /\ rows[i].name = call[q].name
        /\ call[q].tenant \in Tenants /\ call[q].name \in Names
    BY RequestTyped DEF MInv, IInv, TypeOK, Override, Of, AllPlaced, Placed
  <1>3. /\ rows'[i] = [rows[i] EXCEPT !.on = call[q].on]
        /\ \A j \in Ids : j # i => rows'[j] = rows[j]
    BY <1>1, <1>2 DEF MInv, IInv, TypeOK
  <1>4. /\ rows'[i] # None /\ rows'[i].on = call[q].on
        /\ rows'[i].tenant = rows[i].tenant /\ rows'[i].name = rows[i].name
    BY <1>2, <1>3, FeatureFlagsAssumption DEF Flags
  <1>5. \A t, n : Of(t, n)' = Of(t, n)
    BY <1>2, <1>3, <1>4 DEF Of
  <1>6. Determined
    BY RowsDetermine, TypesApart DEF MInv, IInv
  <1>7. call[q].tenant \in tenants /\ Override(q) = {i}
    BY <1>2, <1>6 DEF Determined, Override, MInv, IInv, TypeOK, Of
  <1>8. ValueAt(call[q].tenant, call[q].name)' = call[q].on
    <2>1. call' = call /\ Of(call[q].tenant, call[q].name)' = {i}
      BY <1>5, <1>7 DEF Override, Update
    <2>2. Values(call[q].tenant, call[q].name)' = {call[q].on}
      BY <1>4, <2>1 DEF Values
    <2>3. QED
      BY <2>1, <2>2 DEF ValueAt
  <1>9. ASSUME NEW t \in Tenants, NEW n \in Names, <<t, n>> # <<call[q].tenant, call[q].name>>
        PROVE  ValueAt(t, n)' = ValueAt(t, n)
    <2>1. i \notin Of(t, n)
      BY <1>2, <1>9 DEF Of
    <2>2. \A j \in Of(t, n) : rows'[j].on = rows[j].on
      BY <1>3, <2>1 DEF Of
    <2>3. QED
      BY <1>5, <2>2, SameCell
  <1>10. QED
    BY <1>2, <1>7, <1>8, <1>9, MakeMaps DEF Update

LEMMA CreateMaps ==
    ASSUME MInv, NEW q \in Calls, at[q] = "insert", Create(q)
    PROVE  Table!Make(q)
  <1> DEFINE f == [tenant |-> call[q].tenant, name |-> call[q].name, on |-> call[q].on]
  <1>1. PICK i \in Ids : rows[i] = None /\ rows' = [rows EXCEPT ![i] = f]
    BY DEF Create
  <1>2. /\ Toggling(q) /\ call[q].on \in BOOLEAN
        /\ call[q].tenant \in Tenants /\ call[q].name \in Names
    BY RequestTyped DEF MInv, IInv, AllPlaced, Placed
  <1>3. f \in Flags /\ f # None
    BY <1>2, FeatureFlagsAssumption DEF Flags
  <1>4. rows'[i] = f /\ \A j \in Ids : j # i => rows'[j] = rows[j]
    BY <1>1 DEF MInv, IInv, TypeOK
  <1>5. \A t, n : Of(t, n)' = IF t = f.tenant /\ n = f.name THEN {i} ELSE Of(t, n)
    BY <1>1, <1>3, <1>4 DEF Of, Create, Override
  <1>6. ValueAt(call[q].tenant, call[q].name)' = call[q].on
    <2>1. call' = call /\ Of(call[q].tenant, call[q].name)' = {i}
      BY <1>5 DEF Create
    <2>2. Values(call[q].tenant, call[q].name)' = {call[q].on}
      BY <1>4, <2>1 DEF Values
    <2>3. QED
      BY <2>1, <2>2 DEF ValueAt
  <1>7. ASSUME NEW t \in Tenants, NEW n \in Names, <<t, n>> # <<call[q].tenant, call[q].name>>
        PROVE  ValueAt(t, n)' = ValueAt(t, n)
    <2>1. Of(t, n)' = Of(t, n)
      BY <1>5, <1>7
    <2>2. \A j \in Of(t, n) : rows'[j].on = rows[j].on
      BY <1>1, <1>4 DEF Of
    <2>3. QED
      BY <2>1, <2>2, SameCell
  <1>8. QED
    BY <1>2, <1>6, <1>7, MakeMaps DEF Create

LEMMA ReceiveMaps ==
    ASSUME MInv, NEW q \in Calls, NEW c \in Requests, Receive(q, c)
    PROVE  Table!Ask(q) \/ UNCHANGED Table!tvars
  <1>1. /\ call[q] = None /\ reply[q] = "none" /\ reply' = reply
        /\ call'[q] = c /\ c # None /\ \A p \in Calls : p # q => call'[p] = call[p]
    BY FeatureFlagsAssumption
       DEF MInv, IInv, TypeOK, AllPlaced, Placed, Fine, Stepping, Receive
  <1>2. UNCHANGED <<tenants, Overrides>>
    BY SameCells DEF Receive, tables
  <1>3. Asked(q) = None /\ Outcome(q) = "none"
    BY <1>1 DEF Asked, Outcome, Toggling
  <1>4. \A p \in Calls : p # q => Asked(p)' = Asked(p) /\ Outcome(p)' = Outcome(p)
    BY <1>1 DEF Asked, Outcome, Toggling
  <1>5. CASE c.op = "toggle"
    <2>1. /\ Asked(q)' = [tenant |-> c.tenant, name |-> c.name, on |-> c.on]
          /\ Outcome(q)' = "open"
      BY <1>1, <1>5 DEF Asked, Outcome, Toggling
    <2>2. [tenant |-> c.tenant, name |-> c.name, on |-> c.on] \in Table!Asks
      BY DEF Requests, Table!Asks
    <2>3. QED
      BY <1>2, <1>3, <1>4, <2>1, <2>2 DEF Table!Ask
  <1>6. CASE c.op # "toggle"
    <2>1. Asked(q)' = None /\ Outcome(q)' = "none"
      BY <1>1, <1>6 DEF Asked, Outcome, Toggling
    <2>2. QED
      BY <1>2, <1>3, <1>4, <2>1 DEF Table!tvars
  <1>7. QED
    BY <1>5, <1>6

\* Evaluations change no cell and answer no toggle.
LEMMA EvaluateMaps ==
    ASSUME MInv, NEW q \in Calls,
           AskOverride(q) \/ AskGlobal(q) \/ ListGlobals(q) \/ ListOverrides(q)
    PROVE  UNCHANGED Table!tvars
  <1>1. ~ Toggling(q) /\ UNCHANGED <<tables, call>>
    BY DEF MInv, IInv, Fine, Stepping, Toggling, AskOverride, AskGlobal, ListGlobals, ListOverrides
  <1>2. \A p \in Calls : p # q => reply'[p] = reply[p]
    BY DEF MInv, IInv, TypeOK, AskOverride, AskGlobal, ListGlobals, ListOverrides, Say, Respond
  <1>3. QED
    BY <1>1, <1>2, Stutters

LEMMA GetTenantMaps ==
    ASSUME MInv, NEW q \in Calls, GetTenant(q)
    PROVE  Table!Refuse(q) \/ UNCHANGED Table!tvars
  <1>1. UNCHANGED <<tables, call>> /\ (Respond(q, "notfound") \/ reply' = reply)
    BY DEF GetTenant
  <1>2. CASE Toggling(q) /\ Respond(q, "notfound")
    BY <1>1, <1>2, RefuseMaps DEF GetTenant
  <1>3. CASE ~ Toggling(q) /\ Respond(q, "notfound")
    <2>1. \A p \in Calls : p # q => reply'[p] = reply[p]
      BY <1>3 DEF MInv, IInv, TypeOK, Respond
    <2>2. QED
      BY <1>1, <1>3, <2>1, Stutters
  <1>4. CASE reply' = reply
    BY <1>1, <1>4, Stutters
  <1>5. QED
    BY <1>1, <1>2, <1>3, <1>4

LEMMA ToggleMaps ==
    ASSUME MInv, NEW q \in Calls, FindFlag(q) \/ InsertFlag(q) \/ FindAgain(q)
    PROVE  Table!Make(q) \/ Table!Refuse(q) \/ UNCHANGED Table!tvars
  <1>1. at[q] \in {"find", "insert", "again"} /\ Toggling(q)
    BY DEF FindFlag, InsertFlag, FindAgain, MInv, AllPlaced, Placed
  <1>2. CASE at[q] \in {"find", "again"} /\ Update(q)
    BY <1>2, UpdateMaps
  <1>3. CASE at[q] = "insert" /\ Create(q)
    BY <1>3, CreateMaps
  <1>4. CASE Respond(q, "integrity") /\ UNCHANGED <<tables, call>>
    BY <1>1, <1>4, RefuseMaps
  <1>5. CASE UNCHANGED <<tables, call, reply>>
    BY <1>5, Stutters
  <1>6. QED
    BY <1>2, <1>3, <1>4, <1>5 DEF FindFlag, InsertFlag, FindAgain

\* A cell after an edit of row i.
LEMMA SaveFlagCells ==
    ASSUME MInv, NEW i \in Ids, NEW f \in Flags, SaveFlag(i, f),
           NEW t \in Tenants, NEW n \in Names
    PROVE  ValueAt(t, n)' = IF t = f.tenant /\ n = f.name THEN f.on
                            ELSE IF i \in Of(t, n) THEN None ELSE ValueAt(t, n)
  <1>1. f # None /\ f.tenant \in tenants \union {None} /\ t # None
    BY FeatureFlagsAssumption DEF SaveFlag
  <1>2. rows'[i] = f /\ \A j \in Ids : j # i => rows'[j] = rows[j]
    BY DEF MInv, IInv, TypeOK, SaveFlag
  <1>3. \A s, m : Of(s, m)' = IF s = f.tenant /\ m = f.name
                              THEN Of(s, m) \union {i} ELSE Of(s, m) \ {i}
    BY <1>1, <1>2 DEF Of
  <1>4. CASE t = f.tenant /\ n = f.name
    <2>1. Of(t, n)' = {i}
      BY <1>1, <1>3, <1>4 DEF SaveFlag
    <2>2. Values(t, n)' = {f.on}
      BY <1>2, <2>1 DEF Values
    <2>3. QED
      BY <1>4, <2>1, <2>2 DEF ValueAt
  <1>5. CASE ~ (t = f.tenant /\ n = f.name) /\ i \in Of(t, n)
    <2>1. t \in tenants
      BY <1>1, <1>5 DEF MInv, IInv, TypeOK, Of
    <2>2. Of(t, n) = {i}
      BY <1>5, <2>1 DEF MInv, IInv, TypeOK, Of
    <2>3. Of(t, n)' = {}
      BY <1>3, <1>5, <2>2
    <2>4. QED
      BY <1>5, <2>3 DEF ValueAt
  <1>6. CASE ~ (t = f.tenant /\ n = f.name) /\ i \notin Of(t, n)
    <2>1. Of(t, n)' = Of(t, n)
      BY <1>3, <1>6
    <2>2. \A j \in Of(t, n) : rows'[j].on = rows[j].on
      BY <1>2, <1>6 DEF Of
    <2>3. QED
      BY <1>6, <2>1, <2>2, SameCell
  <1>7. QED
    BY <1>4, <1>5, <1>6

LEMMA SaveFlagMaps ==
    ASSUME MInv, NEW i \in Ids, NEW f \in Flags, SaveFlag(i, f)
    PROVE  \/ \E c \in Tenants \X Names : Table!Edit(c)
           \/ \E c, d \in Tenants \X Names : Table!Move(c, d)
           \/ UNCHANGED Table!tvars
  <1> DEFINE Cells == Tenants \X Names
             to == <<f.tenant, f.name>>
  <1>1. /\ UNCHANGED <<tenants, [q \in Calls |-> Asked(q)], [q \in Calls |-> Outcome(q)]>>
        /\ f.on \in BOOLEAN /\ f.name \in Names /\ f.tenant \in tenants \union {None}
        /\ tenants \subseteq Tenants
    BY SameToggles DEF SaveFlag, request, Flags, MInv, IInv, TypeOK
  <1>2. Overrides = [c \in Cells |-> Overrides[c]] /\ Overrides' = [c \in Cells |-> Overrides'[c]]
    BY DEF Overrides
  <1>3. ASSUME NEW c \in Cells
        PROVE  Overrides'[c] = IF c = to THEN f.on
                               ELSE IF i \in Of(c[1], c[2]) THEN None ELSE Overrides[c]
    <2>1. c[1] \in Tenants /\ c[2] \in Names /\ (c = to <=> c[1] = f.tenant /\ c[2] = f.name)
      BY DEF Cells
    <2>2. Overrides[c] = ValueAt(c[1], c[2]) /\ Overrides'[c] = ValueAt(c[1], c[2])'
      BY DEF Overrides
    <2>3. QED
      BY <2>1, <2>2, SaveFlagCells
  <1>4. \A c, d \in Cells : i \in Of(c[1], c[2]) /\ i \in Of(d[1], d[2]) => c = d
    BY DEF Of
  <1>5. CASE f.tenant \in tenants /\ \E c \in Cells : c # to /\ i \in Of(c[1], c[2])
    <2>1. PICK c \in Cells : c # to /\ i \in Of(c[1], c[2])
      BY <1>5
    <2>2. to \in Cells /\ i \notin Of(f.tenant, f.name)
      BY <1>1, <1>4, <1>5, <2>1
    <2>3. Of(f.tenant, f.name) = {}
      BY <1>5, <2>2, FeatureFlagsAssumption DEF SaveFlag, MInv, IInv, TypeOK
    <2>4. Overrides[to] = None
      BY <2>2, <2>3 DEF Overrides, ValueAt
    <2>5. Overrides' = [Overrides EXCEPT ![c] = None, ![to] = Overrides'[to]]
      BY <1>2, <1>3, <1>4, <2>1, <2>2
    <2>6. Overrides'[to] \in BOOLEAN /\ to[1] \in tenants
      BY <1>1, <1>3, <1>5, <2>2
    <2>7. Table!Move(c, to)
      BY <1>1, <2>4, <2>5, <2>6 DEF Table!Move
    <2>8. QED
      BY <2>1, <2>2, <2>7
  <1>6. CASE f.tenant \in tenants /\ \A c \in Cells : c # to => i \notin Of(c[1], c[2])
    <2>1. to \in Cells
      BY <1>1, <1>6
    <2>2. Overrides' = [Overrides EXCEPT ![to] = Overrides'[to]]
      BY <1>2, <1>3, <1>6, <2>1
    <2>3. Overrides'[to] \in BOOLEAN /\ to[1] \in tenants
      BY <1>1, <1>3, <1>6, <2>1
    <2>4. Table!Edit(to)
      BY <1>1, <2>2, <2>3 DEF Table!Edit
    <2>5. QED
      BY <2>1, <2>4
  <1>7. CASE f.tenant \notin tenants
    <2>1. f.tenant = None /\ None \notin Tenants
      BY <1>1, <1>7, FeatureFlagsAssumption
    <2>2. \A c \in Cells : c # to
      BY <2>1
    <2>3. CASE \E c \in Cells : i \in Of(c[1], c[2])
      <3>1. PICK c \in Cells : i \in Of(c[1], c[2])
        BY <2>3
      <3>2. Overrides'[c] = None
        BY <1>3, <2>2, <3>1
      <3>3. Overrides' = [Overrides EXCEPT ![c] = Overrides'[c]]
        BY <1>2, <1>3, <1>4, <2>2, <3>1
      <3>4. Table!Edit(c)
        BY <1>1, <3>2, <3>3 DEF Table!Edit
      <3>5. QED
        BY <3>1, <3>4
    <2>4. CASE \A c \in Cells : i \notin Of(c[1], c[2])
      <3>1. Overrides' = Overrides
        BY <1>2, <1>3, <2>2, <2>4
      <3>2. QED
        BY <1>1, <3>1 DEF Table!tvars
    <2>5. QED
      BY <2>3, <2>4
  <1>8. QED
    BY <1>5, <1>6, <1>7

\* A cell loses its value with its row.
LEMMA RowsGone ==
    ASSUME MInv, NEW gone \in SUBSET Ids,
           \A j \in Ids : rows'[j] = IF j \in gone THEN None ELSE rows[j],
           NEW t \in Tenants, NEW n \in Names
    PROVE  ValueAt(t, n)' = IF Of(t, n) \intersect gone # {} THEN None ELSE ValueAt(t, n)
  <1>1. Of(t, n)' = Of(t, n) \ gone
    BY DEF Of
  <1>2. CASE Of(t, n) \intersect gone # {}
    <2>1. PICK i \in Of(t, n) : i \in gone
      BY <1>2
    <2>2. t \in tenants
      BY FeatureFlagsAssumption DEF MInv, IInv, TypeOK, Of
    <2>3. Of(t, n) = {i}
      BY <2>2 DEF MInv, IInv, TypeOK, Of
    <2>4. QED
      BY <1>1, <1>2, <2>1, <2>3 DEF ValueAt
  <1>3. CASE Of(t, n) \intersect gone = {}
    <2>1. Of(t, n)' = Of(t, n) /\ \A j \in Of(t, n) : rows'[j].on = rows[j].on
      BY <1>1, <1>3 DEF Of
    <2>2. QED
      BY <1>3, <2>1, SameCell
  <1>4. QED
    BY <1>2, <1>3

LEMMA DeleteFlagMaps ==
    ASSUME MInv, NEW i \in Ids, DeleteFlag(i)
    PROVE  (\E c \in Tenants \X Names : Table!Edit(c)) \/ UNCHANGED Table!tvars
  <1> DEFINE Cells == Tenants \X Names
  <1>1. UNCHANGED <<tenants, [q \in Calls |-> Asked(q)], [q \in Calls |-> Outcome(q)]>>
    BY SameToggles DEF DeleteFlag, request
  <1>2. Overrides = [c \in Cells |-> Overrides[c]] /\ Overrides' = [c \in Cells |-> Overrides'[c]]
    BY DEF Overrides
  <1>3. ASSUME NEW c \in Cells
        PROVE  Overrides'[c] = IF i \in Of(c[1], c[2]) THEN None ELSE Overrides[c]
    <2>1. PICK gone \in SUBSET Ids : gone = {i}
      OBVIOUS
    <2>2. \A j \in Ids : rows'[j] = IF j \in gone THEN None ELSE rows[j]
      BY <2>1 DEF DeleteFlag, MInv, IInv, TypeOK
    <2>3. c[1] \in Tenants /\ c[2] \in Names
      OBVIOUS
    <2>4. ValueAt(c[1], c[2])' =
             IF Of(c[1], c[2]) \intersect gone # {} THEN None ELSE ValueAt(c[1], c[2])
      BY <2>2, <2>3, RowsGone
    <2>5. QED
      BY <2>1, <2>4 DEF Overrides
  <1>4. CASE \E c \in Cells : i \in Of(c[1], c[2])
    <2>1. PICK c \in Cells : i \in Of(c[1], c[2])
      BY <1>4
    <2>2. \A d \in Cells : i \in Of(d[1], d[2]) => d = c
      BY <2>1 DEF Of
    <2>3. Overrides'[c] = None /\ Overrides' = [Overrides EXCEPT ![c] = Overrides'[c]]
      BY <1>2, <1>3, <2>1, <2>2
    <2>4. Table!Edit(c)
      BY <1>1, <2>3 DEF Table!Edit
    <2>5. QED
      BY <2>1, <2>4
  <1>5. CASE \A c \in Cells : i \notin Of(c[1], c[2])
    <2>1. Overrides' = Overrides
      BY <1>2, <1>3, <1>5
    <2>2. QED
      BY <1>1, <2>1 DEF Table!tvars
  <1>6. QED
    BY <1>4, <1>5

LEMMA DeleteTenantMaps ==
    ASSUME MInv, NEW t \in Tenants, DeleteTenant(t)
    PROVE  Table!Drop(t)
  <1> DEFINE gone == {i \in Ids : rows[i] # None /\ rows[i].tenant = t}
  <1>1. /\ UNCHANGED <<[q \in Calls |-> Asked(q)], [q \in Calls |-> Outcome(q)]>>
        /\ t \in tenants /\ tenants' = tenants \ {t}
    BY SameToggles DEF DeleteTenant, request
  <1>2. ASSUME NEW c \in Tenants \X Names
        PROVE  ValueAt(c[1], c[2])' = IF c[1] = t THEN None ELSE Overrides[c]
    <2>1. \A j \in Ids : rows'[j] = IF j \in gone THEN None ELSE rows[j]
      BY DEF DeleteTenant, gone
    <2>2. ValueAt(c[1], c[2])' =
             IF Of(c[1], c[2]) \intersect gone # {} THEN None ELSE ValueAt(c[1], c[2])
      <3>1. gone \in SUBSET Ids /\ c[1] \in Tenants /\ c[2] \in Names
        OBVIOUS
      <3> HIDE DEF gone
      <3>2. QED
        BY <2>1, <3>1, RowsGone
    <2>3. CASE c[1] = t
      <3>1. Of(c[1], c[2]) \subseteq gone
        BY <2>3 DEF Of
      <3>2. QED
        BY <2>2, <2>3, <3>1 DEF ValueAt
    <2>4. CASE c[1] # t
      <3>1. Of(c[1], c[2]) \intersect gone = {}
        BY <2>4 DEF Of
      <3>2. QED
        BY <2>2, <2>4, <3>1 DEF Overrides
    <2>5. QED
      BY <2>3, <2>4
  <1>3. Overrides' = [c \in Tenants \X Names |-> IF c[1] = t THEN None ELSE Overrides[c]]
    BY <1>2 DEF Overrides
  <1>4. QED
    BY <1>1, <1>3 DEF Table!Drop, Table!Cells

LEMMA InitMaps == Init => Table!Init
  BY DEF Init, Table!Init, Table!Cells, Overrides, ValueAt, Of, Asked, Outcome, Toggling

LEMMA NextMaps == MInv /\ [Next]_vars => [Table!Next]_(Table!tvars)
  <1> SUFFICES ASSUME MInv, [Next]_vars PROVE Table!Next \/ UNCHANGED Table!tvars
    OBVIOUS
  <1>1. ASSUME NEW q \in Calls, NEW c \in Requests, Receive(q, c)
        PROVE  Table!Next \/ UNCHANGED Table!tvars
    BY <1>1, ReceiveMaps DEF Table!Next
  <1>2. ASSUME NEW q \in Calls, GetTenant(q) \/ AskOverride(q) \/ AskGlobal(q)
                                 \/ ListGlobals(q) \/ ListOverrides(q)
        PROVE  Table!Next \/ UNCHANGED Table!tvars
    BY <1>2, GetTenantMaps, EvaluateMaps DEF Table!Next
  <1>3. ASSUME NEW q \in Calls, FindFlag(q) \/ InsertFlag(q) \/ FindAgain(q)
        PROVE  Table!Next \/ UNCHANGED Table!tvars
    BY <1>3, ToggleMaps DEF Table!Next
  <1>4. ASSUME NEW i \in Ids, DeleteFlag(i) \/ \E f \in Flags : SaveFlag(i, f)
        PROVE  Table!Next \/ UNCHANGED Table!tvars
    BY <1>4, DeleteFlagMaps, SaveFlagMaps DEF Table!Next, Table!Cells
  <1>5. ASSUME NEW t \in Tenants, DeleteTenant(t)
        PROVE  Table!Next \/ UNCHANGED Table!tvars
    BY <1>5, DeleteTenantMaps DEF Table!Next
  <1>6. CASE UNCHANGED vars
    BY <1>6, Stutters DEF vars, request
  <1>7. QED
    BY <1>1, <1>2, <1>3, <1>4, <1>5, <1>6 DEF Next

\* Every step of FeatureFlags is a step of FlagTable, or none: toggles are single
\* writes of single cells, whatever comes between their statements.
THEOREM Refinement == Spec => ImplementsFlagTable
  <1>1. Spec => []AllPlaced
    <2>1. IInv /\ AllPlaced /\ [Next]_vars => AllPlaced'
      BY NextPlaced
    <2>2. QED
      BY <2>1, InitPlaced, Invariance, PTL DEF Spec
  <1>2. IInv /\ AllPlaced /\ [Next]_vars => [Table!Next]_(Table!tvars)
    BY NextMaps DEF MInv
  <1>3. QED
    BY <1>1, <1>2, InitMaps, Invariance, PTL DEF Spec, ImplementsFlagTable, Table!Spec

=============================================================================
