------------------------------- MODULE MCProc -------------------------------
(* Proc on two CPUs: see the .cfg files for the bounds. *)
EXTENDS Proc, TLC

CPUSymmetry == Permutations(CPUs)
=============================================================================
