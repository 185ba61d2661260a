---------------------------- MODULE MCTeamLifecycle ----------------------------
(***************************************************************************)
(* TeamLifecycle for TLC: the request threads are interchangeable.         *)
(***************************************************************************)
EXTENDS TeamLifecycle, TLC

ThreadSymmetry == Permutations(Threads)
===============================================================================
