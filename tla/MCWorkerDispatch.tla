-------------------------- MODULE MCWorkerDispatch --------------------------
(* Two processes that may drive a plan of two parts with one fleet slot.   *)
EXTENDS WorkerDispatch, TLC

Symmetry == Permutations(Parts) \cup Permutations(Procs)
=============================================================================
