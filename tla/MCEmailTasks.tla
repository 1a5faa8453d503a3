---------------------------- MODULE MCEmailTasks ----------------------------
(***************************************************************************)
(* Small instances of EmailTasks for TLC; the cfgs name jobs and workers   *)
(* as model values.  Workers are told apart: a run checks liveness.        *)
(***************************************************************************)
EXTENDS EmailTasks

=============================================================================
