-------------------------- MODULE MCTenantRouting --------------------------
(***************************************************************************)
(* A small instance of TenantRouting for TLC: one host that tenants take   *)
(* over from each other.                                                   *)
(***************************************************************************)
EXTENDS TenantRouting, TLC

CONSTANTS old, demo, shop, demo_schema

MCDemoHost == [t \in DemoTenants |-> shop]
MCOldSchema == [t \in OldTenants \union DemoTenants |-> demo_schema]
AllSymmetry == Permutations(Workers) \union Permutations(Creators)

=============================================================================
