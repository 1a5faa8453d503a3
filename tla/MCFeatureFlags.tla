--------------------------- MODULE MCFeatureFlags ---------------------------
(***************************************************************************)
(* A small instance of FeatureFlags for TLC: one name, because names do    *)
(* not meet, and two rows, so that an override meets a global flag and     *)
(* global flags meet each other.                                           *)
(***************************************************************************)
EXTENDS FeatureFlags, TLC

AllSymmetry == Permutations(Calls) \union Permutations(Ids) \union Permutations(Tenants)

=============================================================================
