--------------------------- MODULE CustomCmdInstall ---------------------------
(***************************************************************************)
(* The directory of custom commands shared with the app, which replaces it *)
(* over SSH by a script: `install_custom_cmds_script` in                   *)
(* src/crates/sbm_parser/src/script.rs (its Unix form).                    *)
(*                                                                         *)
(* The script does not know the agent's lock, and makes its new directory  *)
(* at the path where the agent makes its own.                              *)
(***************************************************************************)
EXTENDS CustomCmdDir

CONSTANT Installers   \* runs of the script

VARIABLES
  bak,      \* $b, where the script moves the directory aside
  place,    \* where a run is
  list,     \* the list it installs
  copied    \* how many of its files are in $t

script == <<bak, place, list, copied>>

SharedInit ==
  /\ Init
  /\ bak = Missing
  /\ place = [i \in Installers |-> "idle"]
  /\ list = [i \in Installers |-> <<>>]
  /\ copied = [i \in Installers |-> 0]

-------------------------------------------------------------------------------
(* The script, command by command *)

Proceeds(i, from, to) ==
  /\ place[i] = from
  /\ place' = [place EXCEPT ![i] = to]
  /\ UNCHANGED <<backup, lock, at, cmds, written, before>>

Starts(i, s) ==
  /\ Proceeds(i, "idle", "removing")
  /\ list' = [list EXCEPT ![i] = s]
  /\ copied' = [copied EXCEPT ![i] = 0]
  /\ UNCHANGED <<dir, tmp, bak>>

(* rm -rf "$t" "$b" *)
RemovesSides(i) ==
  /\ Proceeds(i, "removing", "making")
  /\ tmp' = Missing
  /\ bak' = Missing
  /\ UNCHANGED <<dir, list, copied>>

(* mkdir -p "$t" *)
MakesSide(i) ==
  /\ Proceeds(i, "making", "copying")
  /\ tmp' = IF tmp = Missing THEN {} ELSE tmp
  /\ UNCHANGED <<dir, bak, list, copied>>

Copies(i) ==
  /\ copied[i] < Len(list[i])
  /\ tmp # Missing
  /\ Proceeds(i, "copying", "copying")
  /\ tmp' = WithFile(tmp, list[i][copied[i] + 1])
  /\ copied' = [copied EXCEPT ![i] = @ + 1]
  /\ UNCHANGED <<dir, bak, list>>

(* mv "$d" "$b", if there is one *)
StepsAside(i) ==
  /\ copied[i] = Len(list[i])
  /\ Proceeds(i, "copying", "moving")
  /\ IF dir = Missing
       THEN UNCHANGED <<dir, bak>>
       ELSE dir' = Missing /\ bak' = dir
  /\ UNCHANGED <<tmp, list, copied>>

(* mv "$t" "$d".  Into a directory that is there by now, $t is moved as a  *)
(* subdirectory, which is none of the commands.                            *)
MovesIn(i) ==
  /\ tmp # Missing
  /\ Proceeds(i, "moving", "finishing")
  /\ dir' = IF dir = Missing THEN tmp ELSE dir
  /\ tmp' = Missing
  /\ UNCHANGED <<bak, list, copied>>

(* It could not be moved: rm -rf "$d", and mv "$b" "$d" if there is one. *)
MovesBack(i) ==
  /\ Proceeds(i, "moving", "idle")
  /\ dir' = bak
  /\ bak' = Missing
  /\ UNCHANGED <<tmp, list, copied>>

(* rm -rf "$b" *)
Finishes(i) ==
  /\ Proceeds(i, "finishing", "idle")
  /\ bak' = Missing
  /\ UNCHANGED <<dir, tmp, list, copied>>

(* A command fails under `set -e`, or the SSH session is lost. *)
Stops(i) ==
  /\ \E from \in {"removing", "making", "copying", "moving", "finishing"} :
       Proceeds(i, from, "idle")
  /\ UNCHANGED <<dir, tmp, bak, list, copied>>

SharedNext ==
  \/ Next /\ UNCHANGED script
  \/ \E i \in Installers :
       \/ \E s \in Lists : Starts(i, s)
       \/ RemovesSides(i)
       \/ MakesSide(i)
       \/ Copies(i)
       \/ StepsAside(i)
       \/ MovesIn(i)
       \/ MovesBack(i)
       \/ Finishes(i)
       \/ Stops(i)

SharedSpec == SharedInit /\ [][SharedNext]_<<vars, script>>

-------------------------------------------------------------------------------

(* While there are commands, they are a list that somebody saved: it is    *)
(* moved into place whole, and a poll sees the old set or the new one and  *)
(* never half of each (script.rs, the comment on                           *)
(* install_custom_cmds_script; custom_cmds.rs, that on the lock).          *)
PollsSeeWholeSets == dir \in Saved \cup {Missing, {}}
=============================================================================
