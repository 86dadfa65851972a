----------------------------- MODULE MCProcessLog -----------------------------
(* ProcessLog on small instances. *)
EXTENDS ProcessLog

Decoded == (1 :> {2}) @@ (2 :> {1})

Symmetry == Permutations(Readers) \cup Permutations(Streams)
=============================================================================
