------------------------------- MODULE MCProgress ------------------------------
(* A small instance of Progress. *)
EXTENDS Progress
================================================================================
