----------------------------- MODULE MCRetention -----------------------------
(* Retention alone, for a run that ends in a counterexample. *)
EXTENDS Retention

MCTables == <<"system_metrics", "access_log">>
MCDays == [t \in Names |-> 1]
=============================================================================
