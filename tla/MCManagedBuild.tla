----------------------------- MODULE MCManagedBuild ----------------------------
(***************************************************************************)
(* Two jobs, one after the other; a third brings no new state, for a job   *)
(* whose root is gone is as one that never ran.                            *)
(***************************************************************************)
EXTENDS ManagedBuild, TLC

MCJobs == Permutations(Jobs)

================================================================================
