---------------------------- MODULE MCLocalShell ----------------------------
(* LocalShell alone, for a run that ends in a counterexample. *)
EXTENDS LocalShell
=============================================================================
