--------------------------- MODULE MCTextAlgorithms ----------------------------
(* TextAlgorithms on small instances. *)
EXTENDS TextAlgorithms
=============================================================================
