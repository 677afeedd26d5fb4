------------------------------ MODULE MCTerminal ------------------------------
(***************************************************************************)
(* What stands behind a terminal, for TLC: SessionLifecycle, the           *)
(* TicketStore a WebSocket is opened with and the Scrollback of a session. *)
(* They share no state, so each is explored while the others stand still.  *)
(***************************************************************************)
EXTENDS SessionLifecycle, TicketStore, Scrollback, TLC

VARIABLE part   \* the component that moves

TerminalInit ==
  /\ part \in {"sessions", "tickets", "scrollback"}
  /\ Init
  /\ TicketInit
  /\ part # "tickets" => \A t \in Tickets : subject[t] = CHOOSE s \in Subjects : TRUE
  /\ ScrollbackInit

TerminalNext ==
  /\ part' = part
  /\ \/ part = "sessions" /\ Next /\ UNCHANGED <<ticketVars, scrollbackVars>>
     \/ part = "tickets" /\ TicketNext /\ UNCHANGED <<vars, scrollbackVars>>
     \/ part = "scrollback" /\ ScrollbackNext /\ UNCHANGED <<vars, ticketVars>>

TerminalSpec == TerminalInit /\ [][TerminalNext]_<<part, vars, ticketVars, scrollbackVars>>

\* Upgrade requests are interchangeable.
Symmetry == Permutations(Requests)
=============================================================================
