-------------------------- MODULE MCForegroundCalls ---------------------------
(* ForegroundCalls on small instances. *)
EXTENDS ForegroundCalls
=============================================================================
