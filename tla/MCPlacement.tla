------------------------------ MODULE MCPlacement ------------------------------
(***************************************************************************)
(* Placement for TLC: callers and users are model values, given in the     *)
(* .cfg.  The run checks liveness, so it declares no symmetry.             *)
(***************************************************************************)
EXTENDS Placement
===============================================================================
