---------------------------- MODULE MCProcessStdin ----------------------------
(* ProcessStdin on small instances. *)
EXTENDS ProcessStdin
=============================================================================
