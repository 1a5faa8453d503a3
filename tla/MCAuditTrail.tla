---------------------------- MODULE MCAuditTrail ----------------------------
(***************************************************************************)
(* Small instances of AuditTrail for TLC: a flag and a role of an existing *)
(* tenant, acme, and a default role of a tenant yet to be created, globex. *)
(***************************************************************************)
EXTENDS AuditTrail, TLC

CONSTANTS flag, role, owner, acme, globex

MCTenantOf == [i \in Items |-> IF i = owner THEN globex ELSE acme]
AllOps == {"toggle", "edit", "create", "remove", "provision"}
AllSymmetry == Permutations(Writers) \union Permutations(Workers) \union Permutations(Values)

=============================================================================
