------------------------------ MODULE MCRepoRoot ------------------------------
(* RepoRoot on small instances. *)
EXTENDS RepoRoot, TLC

Symmetry == Permutations(Threads)
=============================================================================
