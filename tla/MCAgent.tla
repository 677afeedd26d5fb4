------------------------------- MODULE MCAgent -------------------------------
(***************************************************************************)
(* What must go on in an agent that runs for long, for TLC: its            *)
(* configuration across crashes, the cleanup of its database and the       *)
(* terminal sessions, with fairness.  They share no state, so each is      *)
(* explored while the others stand still, in a state where nothing that    *)
(* has to happen can.                                                      *)
(***************************************************************************)
EXTENDS AgentConfig, Retention, SessionLifecycle

VARIABLE part   \* the component that moves

\* The agent has started and nobody saves.
AgentServes ==
  /\ file = Default /\ safe = file /\ json = None
  /\ leftover = 0 /\ backups = <<>> /\ made = 0
  /\ agent_state = "serving" /\ live = FromConfig(file)
  /\ full_access_off = FALSE /\ lock = NoHolder
  /\ step = [w \in Writers |-> "idle"]
  /\ copy = [w \in Writers |-> None] /\ request = [w \in Writers |-> None]
  /\ saves = 0 /\ faults = 0
  /\ legit = [k \in Keys |-> {file[k]}] /\ stale = {}

LongRunInit ==
  /\ part \in {"config", "cleanup", "sessions"}
  /\ IF part = "config" THEN AgentInit ELSE AgentServes
  /\ RetentionInit
  /\ Init

LongRunNext ==
  /\ part' = part
  /\ \/ part = "config" /\ AgentNext /\ UNCHANGED <<retentionVars, vars>>
     \/ part = "cleanup" /\ RetentionNext /\ UNCHANGED <<agentVars, vars>>
     \/ part = "sessions" /\ Next /\ UNCHANGED <<agentVars, retentionVars>>

LongRunSpec ==
  /\ LongRunInit /\ [][LongRunNext]_<<part, agentVars, retentionVars, vars>>
  /\ AgentFairness
  /\ RetentionFairness
  /\ Fairness

-------------------------------------------------------------------------------
(* AgentConfig: a file with both sections, or with [monitoring] only        *)

Sectioned == [Default EXCEPT !.rest = 1]
MCInitialFiles == {Sectioned, [Sectioned EXCEPT !.server = None]}

-------------------------------------------------------------------------------
(* Retention: rows of both kinds, kept for a day                            *)

MCTables == <<"system_metrics", "access_log">>
MCDays == [t \in Names |-> 1]
=============================================================================
