------------------------------ MODULE MCStartup ------------------------------
(* The start of the two processes by itself. *)
EXTENDS Startup

MCWorkspaces == {"w1", "w2"}
MCLifetimes == {U64Max \div 1000 + 1}
=============================================================================
