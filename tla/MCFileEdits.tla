------------------------------ MODULE MCFileEdits ------------------------------
(* FileEdits on three files, two of which share a stripe. *)
EXTENDS FileEdits, TLC

CONSTANTS a, b, c

Symmetry == Permutations(Threads)

Colliding == (a :> 1) @@ (b :> 1) @@ (c :> 2)

OneEach == {<<a, c>>, <<c, a>>}
=============================================================================
