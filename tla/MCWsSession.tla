------------------------------ MODULE MCWsSession ------------------------------
(***************************************************************************)
(* WsSession for TLC: sessions and notifiers are model values.             *)
(***************************************************************************)
EXTENDS WsSession, TLC

SessionSymmetry == Permutations(Sessions)
===============================================================================
