------------------------------- MODULE MCMlfq -------------------------------
(* Model-checking instances of Mlfq. *)
EXTENDS Mlfq
=============================================================================
