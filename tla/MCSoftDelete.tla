---------------------------- MODULE MCSoftDelete ----------------------------
(***************************************************************************)
(* A small instance of SoftDelete for TLC.                                 *)
(***************************************************************************)
EXTENDS SoftDelete, TLC

AllSymmetry == Permutations(Users) \union Permutations(Records) \union Permutations(Handlers)

=============================================================================
