--------------------------- MODULE MCWsConnection ---------------------------
(* Model-checking instances of WsConnection: the callers are interchangeable. *)
EXTENDS WsConnection, TLC

CallerSymmetry == Permutations(Callers)
=============================================================================
