----------------------------- MODULE CommandStore -----------------------------
(***************************************************************************)
(* What the custom commands of a machine are to those who edit them: one   *)
(* set, replaced as a whole by one that was asked for, or not at all.      *)
(* Promised by the comments on `replace` in                                *)
(* src/monitor/src/monitoring/custom_cmds.rs.                              *)
(***************************************************************************)
CONSTANT Sets   \* the sets of commands that can be saved

VARIABLES
  commands,   \* the set there is
  wanted      \* the sets asked for and not answered

(* At first, those of an earlier time, or none. *)
Init ==
  /\ commands \in Sets \cup {{}}
  /\ wanted = {}

Asks(s) ==
  /\ wanted' = wanted \cup {s}
  /\ UNCHANGED commands

Replaces(s) ==
  /\ s \in wanted
  /\ commands' = s
  /\ UNCHANGED wanted

(* Whether it was replaced or not. *)
Ends(s) ==
  /\ s \in wanted
  /\ wanted' = wanted \ {s}
  /\ UNCHANGED commands

Next == \E s \in Sets : Asks(s) \/ Replaces(s) \/ Ends(s)

Spec == Init /\ [][Next]_<<commands, wanted>>
=============================================================================
