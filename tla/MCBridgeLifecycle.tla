-------------------------- MODULE MCBridgeLifecycle --------------------------
(* Model-checking instances of BridgeLifecycle: the cfgs give capacities, widths and bounds. *)
EXTENDS BridgeLifecycle
=============================================================================
