----------------------------- MODULE MCEventStream -----------------------------
(***************************************************************************)
(* EventStream for TLC: threads and readers are model values, given in the *)
(* .cfg.  The run checks liveness, so it declares no symmetry.             *)
(***************************************************************************)
EXTENDS EventStream
===============================================================================
