------------------------------ MODULE MCRuns ------------------------------
(* Runs.tla for TLC: the run ids are interchangeable. *)
EXTENDS Runs, TLC

Symmetry == Permutations(RunIds)
===========================================================================
