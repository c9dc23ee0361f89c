-------------------------------- MODULE Records -------------------------------
(* f with what only g has: @@ of module TLC, of which the provers have no definition. *)
Extended(f, g) ==
    [x \in DOMAIN f \cup DOMAIN g |-> IF x \in DOMAIN f THEN f[x] ELSE g[x]]
=============================================================================
