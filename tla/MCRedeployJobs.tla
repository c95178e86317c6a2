---------------------------- MODULE MCRedeployJobs -----------------------------
(***************************************************************************)
(* Workers that record few phases, and one or two tasks of the agent at    *)
(* once.                                                                   *)
(***************************************************************************)
EXTENDS RedeployJobs, TLC

CONSTANTS t1, t2

MCTasks == {t1, t2}

TaskSymmetry == Permutations(MCTasks)

================================================================================
