------------------------------ MODULE MCStateFile ------------------------------
(* StateFile on small instances. *)
EXTENDS StateFile, TLC

Symmetry == Permutations(Threads)
=============================================================================
