----------------------------- MODULE MCEventLoop -----------------------------
(* Model-checking instance of EventLoop: the cfg gives the capacities and the bound. *)
EXTENDS EventLoop
=============================================================================
