--------------------------- MODULE MCProcessRegistry ---------------------------
(* ProcessRegistry on small instances. *)
EXTENDS ProcessRegistry, TLC

Symmetry == Permutations(Ids) \cup Permutations(Workers)

AllOps       == {"start", "stop", "restart", "list"}
StartAndStop == {"start", "stop"}
=============================================================================
