----------------------------- MODULE MCStdioServer -----------------------------
(* StdioServer on small instances. *)
EXTENDS StdioServer, TLC

Symmetry == Permutations(Workers)
=============================================================================
