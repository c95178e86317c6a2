------------------------------ MODULE MCSubprocess -----------------------------
(***************************************************************************)
(* A command and two descendants, with a limit that a second write exceeds. *)
(***************************************************************************)
EXTENDS Subprocess, TLC

================================================================================
