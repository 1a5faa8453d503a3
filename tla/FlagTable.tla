------------------------------ MODULE FlagTable ------------------------------
(***************************************************************************)
(* What the overrides of the tenants promise to whoever toggles them: one  *)
(* table of values, where a toggle takes effect at once, on its own cell,  *)
(* or not at all.  Nothing is said here of rows, keys, locks or retries;   *)
(* module FeatureFlags describes those and implements this one.            *)
(***************************************************************************)
CONSTANTS
    Calls,          \* toggles
    Tenants,
    Names,
    Unset           \* no override

VARIABLES
    tenants,        \* those that exist
    override,       \* <<tenant, name>> -> its value, or Unset
    asked,          \* toggle -> what it was called with
    outcome         \* toggle -> how far it is

tvars == <<tenants, override, asked, outcome>>

Cells == Tenants \X Names

Asks == [tenant : Tenants, name : Names, on : BOOLEAN]

Init ==
    /\ tenants = Tenants
    /\ override = [c \in Cells |-> Unset]
    /\ asked = [q \in Calls |-> Unset]
    /\ outcome = [q \in Calls |-> "none"]

Ask(q) ==
    /\ outcome[q] = "none"
    /\ outcome' = [outcome EXCEPT ![q] = "open"]
    /\ asked'[q] \in Asks
    /\ asked' = [asked EXCEPT ![q] = asked'[q]]
    /\ UNCHANGED <<tenants, override>>

\* A toggle that succeeds has set the override of its tenant, which exists, and
\* no other, in one step.
Make(q) ==
    /\ outcome[q] = "open"
    /\ outcome' = [outcome EXCEPT ![q] = "made"]
    /\ asked[q].tenant \in tenants
    /\ override' = [override EXCEPT ![<<asked[q].tenant, asked[q].name>>] = asked[q].on]
    /\ UNCHANGED <<tenants, asked>>

\* One that fails has changed nothing.
Refuse(q) ==
    /\ outcome[q] = "open"
    /\ outcome' = [outcome EXCEPT ![q] = "refused"]
    /\ UNCHANGED <<tenants, override, asked>>

\* An edit of one override, of a tenant that exists.
Edit(c) ==
    /\ UNCHANGED <<tenants, asked, outcome>>
    /\ override'[c] \in IF c[1] \in tenants THEN BOOLEAN \union {Unset} ELSE {Unset}
    /\ override' = [override EXCEPT ![c] = override'[c]]

\* An edit may move an override to a tenant and name that have none.
Move(c, d) ==
    /\ UNCHANGED <<tenants, asked, outcome>>
    /\ d[1] \in tenants
    /\ override[d] = Unset /\ override'[d] \in BOOLEAN
    /\ override' = [override EXCEPT ![c] = Unset, ![d] = override'[d]]

\* A tenant goes with all its overrides and no other's.
Drop(t) ==
    /\ t \in tenants
    /\ tenants' = tenants \ {t}
    /\ override' = [c \in Cells |-> IF c[1] = t THEN Unset ELSE override[c]]
    /\ UNCHANGED <<asked, outcome>>

Next ==
    \/ \E q \in Calls : Ask(q) \/ Make(q) \/ Refuse(q)
    \/ \E c \in Cells : Edit(c)
    \/ \E c, d \in Cells : Move(c, d)
    \/ \E t \in Tenants : Drop(t)

Spec == Init /\ [][Next]_tvars
=============================================================================
