--------------------------- MODULE MCAuthContext ---------------------------
(***************************************************************************)
(* A small instance of AuthContext for TLC: a tenant with a default role   *)
(* and one without roles to switch to.                                     *)
(***************************************************************************)
EXTENDS AuthContext

CONSTANTS t1, t2

InT1 == [r \in RoleIds |-> t1]

=============================================================================
