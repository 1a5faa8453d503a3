-------------------------- MODULE MCNotifications --------------------------
(***************************************************************************)
(* A small instance of Notifications for TLC.  A page holds one row, so    *)
(* that two notifications of a user already make a walk of two pages.      *)
(***************************************************************************)
EXTENDS Notifications, TLC

AllSymmetry == Permutations(Calls) \union Permutations(Sockets) \union Permutations(Users)

=============================================================================
