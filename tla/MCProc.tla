------------------------------- MODULE MCProc -------------------------------
(* The process table on small instances; CPUs are interchangeable. *)
EXTENDS Proc, TLC

CPUSymmetry == Permutations(CPU)
=============================================================================
