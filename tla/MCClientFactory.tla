--------------------------- MODULE MCClientFactory ---------------------------
(* Model-checking instances of ClientFactory. *)
EXTENDS ClientFactory, TLC

CallerSymmetry == Permutations(Callers)
=============================================================================
