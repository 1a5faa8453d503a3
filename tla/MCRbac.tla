------------------------------- MODULE MCRbac -------------------------------
(***************************************************************************)
(* Small instances of Rbac for TLC.  The slugs and users are strings and   *)
(* model values; each cfg picks one of the instances below.                *)
(***************************************************************************)
EXTENDS Rbac, TLC

CONSTANTS t1, t2, demo, root, eve

\* Two seeded slugs instead of three: enough to tell managers from members.
MCDefaults == {"admin", "member"}
MCManagers == {"admin"}
MCSlugs == MCDefaults \union {"buyer"}
MCGrants == [s \in MCDefaults |-> IF s = "member" THEN {} ELSE {"po"}]
MCDemoTenants == {t1}

RequestSymmetry == Permutations(Requests)

=============================================================================
