----------------------------- MODULE RoleTable -----------------------------
(***************************************************************************)
(* What the RBAC tables promise to every reader, whatever the interleaving *)
(* of the requests that write them: which roles a tenant defines, and who  *)
(* holds which of them.  Nothing is said here of requests, database rows   *)
(* or foreign keys; module Rbac describes those and implements this one.   *)
(*                                                                         *)
(* An administrator may edit roles and memberships by hand.  The table is  *)
(* of what nobody has edited so: an edit takes something out of it.        *)
(***************************************************************************)
EXTENDS Naturals

CONSTANTS
    Users,          \* user accounts
    Tenants,        \* tenants
    Slugs,          \* role slugs
    Nobody          \* "no role", not a slug

VARIABLES
    defined,        \* <<tenant, slug>>: the tenant has a role of that slug
    default,        \* those of them that are default roles
    holds,          \* <<user, tenant>> -> slug of the role held, or Nobody
    erased,         \* users whose account was anonymised or deleted
    edits           \* how often somebody edited by hand

rvars == <<defined, default, holds, erased, edits>>

Pairs == Users \X Tenants

Init ==
    /\ defined = {} /\ default = {}
    /\ holds = [p \in Pairs |-> Nobody]
    /\ erased = {}
    /\ edits = 0

\* Nobody gains or changes a role, and those who lose theirs are in gone.
Lose(gone) ==
    LET left == holds'
    IN  holds' = [p \in Pairs |-> IF p \in gone /\ left[p] = Nobody THEN Nobody ELSE holds[p]]

\* Tenants gain roles, and at most one user is given a role that its own
\* tenant defines, or loses one.
Extend ==
    /\ UNCHANGED <<edits, erased>>
    /\ defined \subseteq defined' /\ default \subseteq default'
    /\ default' \subseteq defined' /\ defined' \subseteq Tenants \X Slugs
    /\ LET got == holds'
       IN  \E p \in Pairs :
             /\ holds' = [holds EXCEPT ![p] = got[p]]
             /\ got[p] \in {holds[p], Nobody} \/ <<p[2], got[p]>> \in defined'

\* A tenant is without one of its roles.  Whoever holds it goes without; other
\* users of the same tenant may lose theirs with it, users of other tenants may not.
Without(t, s) ==
    /\ UNCHANGED erased
    /\ defined' = defined \ {<<t, s>>}
    /\ default' = default \ {<<t, s>>}
    /\ Lose(Users \X {t})
    /\ \A u \in Users : holds'[<<u, t>>] # s

\* A tenant drops a role that is not a default one.
Drop ==
    /\ UNCHANGED edits
    /\ \E d \in defined \ default : Without(d[1], d[2])

\* An administrator edits, moves or deletes a role, or one that was edited before,
\* or the memberships of one or two pairs.
Edit ==
    /\ edits' = edits + 1
    /\ \/ \E p1, p2 \in Pairs : Lose({p1, p2}) /\ UNCHANGED <<defined, default, erased>>
       \/ \E d \in defined : Without(d[1], d[2])

\* The deletion of an edited role takes memberships with it that pointed at it.
Purge ==
    /\ edits > 0
    /\ UNCHANGED <<defined, default, erased, edits>>
    /\ Lose(Pairs)

\* An erased user holds no role from then on until somebody assigns one.
Forget(u) ==
    /\ erased' = erased \union {u}
    /\ UNCHANGED <<defined, default, edits>>
    /\ Lose({u} \X Tenants)
    /\ \A t \in Tenants : holds'[<<u, t>>] = Nobody

Next == Extend \/ Drop \/ Edit \/ Purge \/ \E u \in Users : Forget(u)

Spec == Init /\ [][Next]_rvars
=============================================================================
