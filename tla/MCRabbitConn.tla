---------------------------- MODULE MCRabbitConn ----------------------------
(* Small instances of RabbitConn for TLC.  The callers are interchangeable,   *)
(* which invariants may use and liveness may not.                              *)
EXTENDS RabbitConn, TLC

CallerSymmetry == Permutations(Callers)
=============================================================================
